-------------------------------- MODULE MCSlab --------------------------------
(* Slab for TLC: three slots, two addresses, up to two stray writes. *)
EXTENDS Slab, TLC

MCBases == {0, 10}
=============================================================================
