----------------------------- MODULE FaultPolicy -----------------------------
(***************************************************************************)
(* forge-alloc-core/src/traits/alloc_fault_policy.rs: the policies that    *)
(* tell hardening/faulty.rs when to refuse.  A policy is a kind and the    *)
(* parameter n it was built with; its state is the counter of FailAfter or *)
(* of FailEveryNth.                                                        *)
(***************************************************************************)
EXTENDS Naturals

PolicyKinds == {"never", "always", "after", "nth", "size"}

(* FailEveryNth::new refuses a period of 0. *)
WellFormed(p) == p.kind \in PolicyKinds /\ p.n \in Nat /\ (p.kind = "nth" => p.n > 0)

InitialCounter(p) == IF p.kind = "after" THEN p.n ELSE 0

(* The policies that answer in one step: `counter` is their counter before *)
(* the call, the request is of `size` bytes.                               *)
ShouldFail(p, counter, size) ==
  CASE p.kind = "never"  -> FALSE
    [] p.kind = "always" -> TRUE
    [] p.kind = "nth"    -> counter % p.n = p.n - 1
    [] p.kind = "size"   -> size >= p.n

CounterAfter(p, counter) == IF p.kind = "nth" THEN counter + 1 ELSE counter
=============================================================================
