------------------------------ MODULE SlotPool ------------------------------
(***************************************************************************)
(* What every slot allocator of the library promises its callers           *)
(* (forge-alloc-core, traits Allocator and Deallocator): a granted slot    *)
(* belongs to one caller until that caller gives it back.                  *)
(*                                                                         *)
(* grants[s] is the number of callers that hold slot s.  The detailed      *)
(* specifications count every block they return, so handing out a slot     *)
(* that is still in use shows up as a step this specification forbids.     *)
(***************************************************************************)
EXTENDS Naturals

CONSTANT Slots

VARIABLE grants

Init == grants = [s \in Slots |-> 0]

(* A slot is granted only when nobody holds it. *)
Grant(s) ==
  /\ grants[s] = 0
  /\ grants' = [grants EXCEPT ![s] = 1]

(* Its holder returns it. *)
Release(s) ==
  /\ grants[s] = 1
  /\ grants' = [grants EXCEPT ![s] = 0]

Next == \E s \in Slots : Grant(s) \/ Release(s)

Spec == Init /\ [][Next]_grants
=============================================================================
