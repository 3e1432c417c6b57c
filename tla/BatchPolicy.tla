----------------------------- MODULE BatchPolicy -----------------------------
(***************************************************************************)
(* layout/slab_owner.rs, BatchPolicy and AdaptiveState: how many queued    *)
(* remote frees make the owner drain.  A policy is a record                *)
(*   [kind |-> "fixed", n |-> threshold]  or  [kind |-> "adaptive", n |-> 0] *)
(* The adaptive law walks a table of levels, one step at a time, with a    *)
(* cooldown between two steps.                                             *)
(***************************************************************************)
EXTENDS Integers, Sequences

CONSTANTS
  Levels,        \* ADAPTIVE_LEVELS
  CooldownTicks, \* ADAPTIVE_COOLDOWN_TICKS
  InitialStep,   \* AdaptiveState::initial().step
  QueueCapacity  \* queue_capacity of with_batch_policy

ASSUME BatchAssumption ==
  /\ Levels \in Seq(Nat) /\ Len(Levels) > 0
  /\ CooldownTicks \in Nat
  /\ InitialStep \in 0 .. (Len(Levels) - 1)
  /\ QueueCapacity \in Nat

AdaptiveState ==
  [step : 0 .. (Len(Levels) - 1), cooldown : 0 .. CooldownTicks]

InitialAdaptive == [step |-> InitialStep, cooldown |-> 0]

(* adaptive_threshold: more than three quarters full steps down, less than *)
(* one quarter full steps up, and both ends of the table hold.             *)
Adapt(a, len) ==
  IF a.cooldown > 0
    THEN [a EXCEPT !.cooldown = @ - 1]
  ELSE IF len * 4 > QueueCapacity * 3 /\ a.step > 0
    THEN [step |-> a.step - 1, cooldown |-> CooldownTicks]
  ELSE IF len * 4 < QueueCapacity /\ a.step < Len(Levels) - 1
    THEN [step |-> a.step + 1, cooldown |-> CooldownTicks]
  ELSE a

(* The adaptive state after a tick of maybe_drain, and the threshold the   *)
(* tick compares the queue length with.                                    *)
Tick(policy, a, len) == IF policy.kind = "adaptive" THEN Adapt(a, len) ELSE a

Threshold(policy, a) ==
  IF policy.kind = "adaptive" THEN Levels[a.step + 1] ELSE policy.n
=============================================================================
