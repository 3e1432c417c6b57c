----------------------------- MODULE MCSlabOwner -----------------------------
(* SlabOwner for TLC.  The table of levels keeps its shape (steps up and   *)
(* down, both ends) at a scale a small queue can cross.                    *)
EXTENDS SlabOwner, TLC

MCLevels == <<1, 2>>

(* Thresholds the queue can reach. *)
MCPolicies == {[kind |-> "fixed", n |-> 1], [kind |-> "fixed", n |-> 2],
               [kind |-> "adaptive", n |-> 0]}

(* A threshold above the queue's capacity, as Fixed(64) with a queue of 2  *)
(* in the repository's tests.                                              *)
MCHighPolicies == {[kind |-> "fixed", n |-> 64]}

MCSymmetry == Permutations(Remotes)
=============================================================================
