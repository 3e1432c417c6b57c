----------------------------- MODULE MCObservers -----------------------------
(* Observers for TLC. *)
EXTENDS Observers, TLC

Stack(kind, n, warn, crit, cap, grown) ==
  [policy |-> [kind |-> kind, n |-> n], warn |-> warn, crit |-> crit,
   cap |-> cap, grown |-> grown]

(* Every policy; thresholds in order, swapped, equal and above 100; a fixed *)
(* capacity, one that grows, and none.                                     *)
MCConfigs ==
  { Stack("after", 2, 40, 70, 6, 6),
    Stack("nth", 2, 70, 40, 4, 8),
    Stack("size", 4, 30, 80, 5, 10),
    Stack("never", 0, 50, 50, 6, 6),
    Stack("always", 0, 0, 200, 6, 6),
    Stack("never", 0, 0, 0, UsizeMax, UsizeMax) }

MCSymmetry == Permutations(Threads)
=============================================================================
