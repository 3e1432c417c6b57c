---------------------------- MODULE ExtendableSlab ----------------------------
(***************************************************************************)
(* layout/extendable_slab.rs: a vector of slabs behind one mutex, shared   *)
(* by threads, that grows by a segment when every slab is full.  allocate  *)
(* releases the mutex while it maps the new segment, so the vector, the    *)
(* slabs and the hint may all have changed when it installs the segment.   *)
(*                                                                         *)
(* A step is a critical section, or the mapping between two of them.       *)
(* Segment indices are 0-based as in the source.  No link is overwritten   *)
(* here (module Slab is about that), so a slab that refuses is unchanged.  *)
(***************************************************************************)
EXTENDS SlabOps, Sequences, FiniteSetsExt

CONSTANTS
  Threads,
  MaxSegments   \* bound on the segments mapped

ASSUME ExtendableAssumption ==
  /\ IsFiniteSet(Threads) /\ Threads # {}
  /\ MaxSegments \in Nat \ {0}

VARIABLES
  segments,         \* the vector of slabs
  first_open_hint,
  pc,               \* pc[t]: where thread t is in allocate
  fits,             \* fits[t]: the layout of its call fits a slot
  len_before_drop,  \* len_before_drop[t]: the snapshot of Phase 1
  held,             \* held[<<i, s>>]: outstanding allocations of slot s of segment i
  peak              \* history: most slots ever held at the same time

vars == <<segments, first_open_hint, pc, fits, len_before_drop, held, peak>>

Blocks == (0 .. (MaxSegments - 1)) \X Slots

Segment(i) == segments[i + 1]

(* with_initial_segments(0) or (1): ExtendableSlab::new is the former. *)
Init ==
  /\ segments \in {<<>>, <<NewSlab(FALSE, 0)>>}
  /\ first_open_hint = 0
  /\ pc = [t \in Threads |-> "idle"]
  /\ fits = [t \in Threads |-> TRUE]
  /\ len_before_drop = [t \in Threads |-> 0]
  /\ held = [b \in Blocks |-> 0]
  /\ peak = 0

HeldCount == Cardinality({b \in Blocks : held[b] > 0})

MaxOf(a, b) == IF a > b THEN a ELSE b
MinOf(a, b) == IF a < b THEN a ELSE b

(* The segments of lo .. hi - 1 that can serve the request. *)
Serving(f, lo, hi) ==
  {i \in lo .. (hi - 1) : Allocate(Segment(i), f).slot # NoSlot}

(* allocate returns; the locals of the call end with it. *)
Return(t) ==
  /\ pc' = [pc EXCEPT ![t] = "idle"]
  /\ fits' = [fits EXCEPT ![t] = TRUE]
  /\ len_before_drop' = [len_before_drop EXCEPT ![t] = 0]

(* Record that a caller holds slot s of segment i. *)
Hold(i, s) ==
  /\ held' = [held EXCEPT ![<<i, s>>] = @ + 1]
  /\ peak' = MaxOf(peak, HeldCount')

TakeFrom(t, i) ==
  LET r == Allocate(Segment(i), TRUE)
  IN  /\ segments' = [segments EXCEPT ![i + 1] = r.slab]
      /\ Hold(i, r.slot)
      /\ Return(t)

-----------------------------------------------------------------------------
(* Phase 1: from the hint forward, then the segments before the hint; if   *)
(* none serves, remember the length and leave the mutex.                   *)

Start == MinOf(first_open_hint, Len(segments))

Phase1Forward(t, f) ==
  LET candidates == Serving(f, Start, Len(segments))
      i == Min(candidates)
  IN  /\ candidates # {}
      /\ TakeFrom(t, i)
      /\ first_open_hint' = IF i > Start THEN MaxOf(first_open_hint, i)
                                         ELSE first_open_hint

(* Phase 1 without the second walk. *)
RewalkSkipped(f) == {}

(* What the second walk finds. *)
Rewalk(f) == Serving(f, 0, Start)

Phase1Backward(t, f) ==
  LET i == Min(Rewalk(f))
  IN  /\ Serving(f, Start, Len(segments)) = {}
      /\ Rewalk(f) # {}
      /\ TakeFrom(t, i)
      /\ first_open_hint' = MinOf(first_open_hint, i)

Phase1Full(t, f) ==
  /\ Serving(f, Start, Len(segments)) = {}
  /\ Rewalk(f) = {}
  /\ len_before_drop' = [len_before_drop EXCEPT ![t] = Len(segments)]
  /\ fits' = [fits EXCEPT ![t] = f]
  /\ pc' = [pc EXCEPT ![t] = "build"]
  /\ UNCHANGED <<segments, first_open_hint, held, peak>>

Phase1(t, f) ==
  /\ pc[t] = "idle"
  /\ Phase1Forward(t, f) \/ Phase1Backward(t, f) \/ Phase1Full(t, f)

(* Phase 2, without the mutex: map a segment, which may fail. *)
Building == {t \in Threads : pc[t] = "install"}

Phase2(t) ==
  /\ pc[t] = "build"
  /\ \/ /\ Len(segments) + Cardinality(Building) < MaxSegments
        /\ pc' = [pc EXCEPT ![t] = "install"]
        /\ UNCHANGED <<fits, len_before_drop>>
     \/ Return(t)
  /\ UNCHANGED <<segments, first_open_hint, held, peak>>

(* Phase 3: a segment installed since Phase 1 may serve the request; then  *)
(* the new one is unmapped.                                                *)
Phase3Reuse(t) ==
  LET candidates == Serving(fits[t], len_before_drop[t], Len(segments))
      i == Min(candidates)
  IN  /\ candidates # {}
      /\ TakeFrom(t, i)
      /\ first_open_hint' = MaxOf(first_open_hint, i)

(* Otherwise allocate from the new segment and append it.  A layout that   *)
(* fits no slot fails here, and the segment is unmapped.                   *)
Phase3Install(t) ==
  LET r == Allocate(NewSlab(FALSE, 0), fits[t])
      new_idx == Len(segments)
  IN  /\ Serving(fits[t], len_before_drop[t], Len(segments)) = {}
      /\ Return(t)
      /\ IF r.slot = NoSlot
           THEN UNCHANGED <<segments, first_open_hint, held, peak>>
           ELSE /\ segments' = Append(segments, r.slab)
                /\ Hold(new_idx, r.slot)
                /\ first_open_hint' = new_idx

Phase3(t) ==
  /\ pc[t] = "install"
  /\ Phase3Reuse(t) \/ Phase3Install(t)

(* deallocate giving every block to the first segment. *)
DeallocateUnrouted(i, s) ==
  /\ held[<<i, s>>] > 0
  /\ segments' = [segments EXCEPT ![1] = Push(@, s)]
  /\ first_open_hint' = 0
  /\ held' = [held EXCEPT ![<<i, s>>] = @ - 1]
  /\ UNCHANGED <<pc, fits, len_before_drop, peak>>

(* deallocate by whoever holds the block: its segment is found by address. *)
Deallocate(i, s) ==
  /\ held[<<i, s>>] > 0
  /\ segments' = [segments EXCEPT ![i + 1] = Push(@, s)]
  /\ first_open_hint' = MinOf(first_open_hint, i)
  /\ held' = [held EXCEPT ![<<i, s>>] = @ - 1]
  /\ UNCHANGED <<pc, fits, len_before_drop, peak>>

Next ==
  \/ \E t \in Threads : (\E f \in BOOLEAN : Phase1(t, f)) \/ Phase2(t) \/ Phase3(t)
  \/ \E i \in 0 .. (MaxSegments - 1), s \in Slots : Deallocate(i, s)

Spec == Init /\ [][Next]_vars

-----------------------------------------------------------------------------
(* Type correctness of the vector, the hint and the threads. *)
TypeOK ==
  /\ Len(segments) \in 0 .. MaxSegments
  /\ \A i \in DOMAIN segments : /\ segments[i].free_head \in 0 .. Capacity
                                /\ segments[i].next_uncarved \in 0 .. Capacity
  /\ first_open_hint \in 0 .. MaxSegments
  /\ pc \in [Threads -> {"idle", "build", "install"}]
  /\ fits \in [Threads -> BOOLEAN]
  /\ len_before_drop \in [Threads -> 0 .. MaxSegments]
  /\ held \in [Blocks -> Nat]
  /\ peak \in 0 .. Cardinality(Blocks)

(* No block is handed out twice, by whatever threads race through growth,  *)
(* and a block goes back to the segment it came from.                      *)
Pool == INSTANCE SlotPool WITH grants <- held, Slots <- Blocks
ImplementsSlotPool == Pool!Spec

(* allocate maps a segment for a request that fits only when it has seen   *)
(* every slot of every segment in use, however stale the hint was.         *)
GrowsOnlyWhenFull ==
  [][\A t \in Threads :
       pc[t] = "idle" /\ pc'[t] = "build" /\ fits'[t]
         => \A i \in 0 .. (Len(segments) - 1), s \in Slots : held[<<i, s>>] > 0]_vars

(* Racing threads over-grow the vector by at most one segment each: the    *)
(* segments never exceed what the peak demand filled plus one per thread.  *)
GrowthBounded ==
  Len(segments) <= (peak \div Capacity) + Cardinality(Threads)
=============================================================================
