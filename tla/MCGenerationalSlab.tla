-------------------------- MODULE MCGenerationalSlab --------------------------
(* GenerationalSlab for TLC: generations so narrow that a slot wraps     *)
(* after three or four.                                                  *)
EXTENDS GenerationalSlab
=============================================================================
