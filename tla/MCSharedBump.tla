----------------------------- MODULE MCSharedBump -----------------------------
(* SharedBump for TLC: a region of 6 bytes at an even, at an odd and at the *)
(* highest address, so that alignment gaps and overflows occur.            *)
EXTENDS SharedBump, TLC

MCAligns == {1, 2, 4}
MCSizes == {1, 3}
MCBases == {4, 5, 9}
MCSymmetry == Permutations(Threads)
=============================================================================
