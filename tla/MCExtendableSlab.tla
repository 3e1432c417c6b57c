--------------------------- MODULE MCExtendableSlab ---------------------------
(* ExtendableSlab for TLC. *)
EXTENDS ExtendableSlab, TLC

MCSymmetry == Permutations(Threads)
=============================================================================
