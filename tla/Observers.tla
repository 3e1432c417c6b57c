------------------------------ MODULE Observers ------------------------------
(***************************************************************************)
(* Watermark<Statistics<Faulty<I, P>>> of hardening/{watermark,statistics, *)
(* faulty}.rs, called by several threads.  Every counter is an atomic of   *)
(* its own, updated by relaxed read-modify-writes: one step each, so that  *)
(* the calls of the threads interleave between any two of them.  The       *)
(* allocator I underneath is external: it serves `cap` bytes, may grow, and*)
(* reports corruption events.                                              *)
(***************************************************************************)
EXTENDS FaultPolicy, Integers, FiniteSets

CONSTANTS
  Threads,
  UsizeMax,      \* usize::MAX, the capacity of an I that reports none
  Sizes,         \* sizes of the requests
  Configs,       \* [policy, warn, crit, cap, grown]: how the stack is built
  MaxCalls,      \* bound: calls of allocate
  MaxRearms,     \* bound: calls of rearm
  MaxCorrupt     \* bound: corruption events of I

ASSUME ObserversAssumption ==
  /\ IsFiniteSet(Threads)
  /\ IsFiniteSet(Sizes) /\ Sizes \subseteq Nat \ {0}
  /\ {UsizeMax, MaxCalls, MaxRearms, MaxCorrupt} \subseteq Nat
  /\ \A c \in Configs : /\ WellFormed(c.policy)
                        /\ {c.warn, c.crit} \subseteq 0..255
                        /\ c.cap \in Nat /\ c.grown \in Nat /\ c.cap <= c.grown

VARIABLES
  conf,    \* the configuration of the stack
  inner,   \* I: bytes in use, capacity, corruption events
  counter, \* the atomic of the fault policy
  st,      \* AllocStats
  wm,      \* Watermark: allocated and the set of levels that have fired
  call,    \* call[t]: the call thread t is in, and what it has read
  live,    \* live[s]: how many blocks of size s callers hold
  seen     \* history: what callers and the handler have seen

vars == <<conf, inner, counter, st, wm, call, live, seen>>

Bigger(a, b) == IF a >= b THEN a ELSE b

Smaller(a, b) == IF a <= b THEN a ELSE b

Idle == [pc |-> "idle", size |-> 0, val |-> 0]

At(t, pc) == call[t].pc = pc

Goto(t, pc, val) == call' = [call EXCEPT ![t].pc = pc, ![t].val = val]

Return(t) == call' = [call EXCEPT ![t] = Idle]

-----------------------------------------------------------------------------
(* with_thresholds: the absolute gate is taken from the lower percentage,  *)
(* both clamped to 100, of the capacity at construction; with no capacity  *)
(* to take it from it is out of reach.                                     *)
Gate(c) == IF c.cap = UsizeMax
           THEN UsizeMax
           ELSE (c.cap * Smaller(Smaller(c.warn, 100), Smaller(c.crit, 100))) \div 100

Init ==
  /\ conf \in Configs
  /\ inner = [used |-> 0, cap |-> conf.cap, corrupt |-> 0]
  /\ counter = InitialCounter(conf.policy)
  /\ st = [allocs |-> 0, frees |-> 0, bytes |-> 0, peak |-> 0, failures |-> 0, mirror |-> 0]
  /\ wm = [allocated |-> 0, fired |-> {}]
  /\ call = [t \in Threads |-> Idle]
  /\ live = [s \in Sizes |-> 0]
  /\ seen = [calls |-> 0, rearms |-> 0, granted |-> 0, refused |-> 0, warns |-> 0,
             criticals |-> 0, ooms |-> 0, maxBytes |-> 0, maxWm |-> 0, maxUsed |-> 0,
             reported |-> 0]

-----------------------------------------------------------------------------
(* Watermark::allocate calls Statistics::allocate, which calls             *)
(* Faulty::allocate, which asks the policy first.                          *)
StartAllocate(t, s) ==
  /\ At(t, "idle") /\ seen.calls < MaxCalls
  /\ seen' = [seen EXCEPT !.calls = @ + 1]
  /\ call' = [call EXCEPT ![t] = [pc |-> "policy", size |-> s, val |-> 0]]
  /\ UNCHANGED <<conf, inner, counter, st, wm, live>>

(* should_fail of the policies with no loop. *)
AskPolicy(t) ==
  /\ At(t, "policy") /\ conf.policy.kind # "after"
  /\ counter' = CounterAfter(conf.policy, counter)
  /\ IF ShouldFail(conf.policy, counter, call[t].size)
     THEN Goto(t, "err_mirror", 0) /\ seen' = [seen EXCEPT !.refused = @ + 1]
     ELSE Goto(t, "inner", 0) /\ seen' = [seen EXCEPT !.granted = @ + 1]
  /\ UNCHANGED <<conf, inner, st, wm, live>>

(* FailAfter: fetch_update loads, then exchanges in a loop.  The relaxed   *)
(* load may return an older, that is a higher, value of the counter.       *)
FailAfterLoad(t) ==
  /\ At(t, "policy") /\ conf.policy.kind = "after"
  /\ \E v \in counter..conf.policy.n :
       IF v = 0 THEN Goto(t, "err_mirror", 0) /\ seen' = [seen EXCEPT !.refused = @ + 1]
                ELSE Goto(t, "cas", v) /\ UNCHANGED seen
  /\ UNCHANGED <<conf, inner, counter, st, wm, live>>

(* The decrement stored without the comparison. *)
FailAfterStore(t) ==
  /\ At(t, "cas")
  /\ counter' = call[t].val - 1
  /\ Goto(t, "inner", 0)
  /\ seen' = [seen EXCEPT !.granted = @ + 1]
  /\ UNCHANGED <<conf, inner, st, wm, live>>

FailAfterCas(t) ==
  /\ At(t, "cas")
  /\ IF counter = call[t].val
     THEN /\ counter' = counter - 1
          /\ Goto(t, "inner", 0)
          /\ seen' = [seen EXCEPT !.granted = @ + 1]
     ELSE Goto(t, "policy", 0) /\ UNCHANGED <<counter, seen>>
  /\ UNCHANGED <<conf, inner, st, wm, live>>

-----------------------------------------------------------------------------
(* External: I serves the request, grows once to serve it, or refuses; it  *)
(* may find corruption while it does.                                      *)
InnerAllocate(t) ==
  /\ At(t, "inner")
  /\ \E corrupt \in {inner.corrupt, Smaller(inner.corrupt + 1, MaxCorrupt)},
        cap \in {inner.cap, conf.grown} :
       LET used == inner.used + call[t].size
           ok == used <= cap
       IN /\ cap # inner.cap => used > inner.cap /\ ok
          /\ inner' = [used |-> IF ok THEN used ELSE inner.used,
                       cap |-> cap, corrupt |-> corrupt]
          /\ Goto(t, IF ok THEN "mirror" ELSE "err_mirror", corrupt)
          /\ seen' = [seen EXCEPT !.maxUsed = Bigger(@, inner'.used), !.reported = corrupt]
  /\ UNCHANGED <<conf, counter, st, wm, live>>

(* mirror_corruption.  The value read from I is not older than the one this*)
(* thread left there.  The load in front of fetch_max only skips a         *)
(* fetch_max that would change nothing.                                    *)
MirrorMax(v) == Bigger(st.mirror, v)

Mirror(t) ==
  /\ call[t].pc \in {"mirror", "err_mirror", "free_mirror"}
  /\ \E v \in call[t].val..inner.corrupt : st' = [st EXCEPT !.mirror = MirrorMax(v)]
  /\ Goto(t, CASE At(t, "mirror") -> "count"
               [] At(t, "err_mirror") -> "failure"
               [] At(t, "free_mirror") -> "free", 0)
  /\ UNCHANGED <<conf, inner, counter, wm, live, seen>>

(* Statistics::allocate after success: three counters. *)
CountAllocation(t) ==
  /\ At(t, "count")
  /\ st' = [st EXCEPT !.allocs = @ + 1]
  /\ Goto(t, "bytes", 0)
  /\ UNCHANGED <<conf, inner, counter, wm, live, seen>>

AddBytes(t) ==
  /\ At(t, "bytes")
  /\ st' = [st EXCEPT !.bytes = @ + call[t].size]
  /\ Goto(t, "peak", st'.bytes)
  /\ seen' = [seen EXCEPT !.maxBytes = Bigger(@, st'.bytes)]
  /\ UNCHANGED <<conf, inner, counter, wm, live>>

(* A load and a store in place of fetch_max. *)
PeakStored(t) == call[t].val

(* bytes_peak: the load is relaxed and only saves a fetch_max. *)
PeakMax(t) == Bigger(st.peak, call[t].val)

RaisePeak(t) ==
  /\ At(t, "peak")
  /\ st' = [st EXCEPT !.peak = PeakMax(t)]
  /\ Goto(t, "watermark", 0)
  /\ UNCHANGED <<conf, inner, counter, wm, live, seen>>

(* Statistics::allocate after a refusal, then on_oom of Watermark. *)
CountFailure(t) ==
  /\ At(t, "failure")
  /\ st' = [st EXCEPT !.failures = @ + 1]
  /\ Goto(t, "oom", 0)
  /\ UNCHANGED <<conf, inner, counter, wm, live, seen>>

OnOom(t) ==
  /\ At(t, "oom")
  /\ seen' = [seen EXCEPT !.ooms = @ + 1]
  /\ Return(t)
  /\ UNCHANGED <<conf, inner, counter, st, wm, live>>

-----------------------------------------------------------------------------
(* Watermark::allocate: the counter, then the gate. *)
HandOut(s) == live' = [live EXCEPT ![s] = @ + 1]

WatermarkAdd(t) ==
  /\ At(t, "watermark")
  /\ wm' = [wm EXCEPT !.allocated = @ + call[t].size]
  /\ seen' = [seen EXCEPT !.maxWm = Bigger(@, wm'.allocated)]
  /\ IF wm'.allocated >= Gate(conf)
     THEN Goto(t, "capacity", wm'.allocated) /\ UNCHANGED live
     ELSE Return(t) /\ HandOut(call[t].size)
  /\ UNCHANGED <<conf, inner, counter, st>>

(* check_and_fire reads the capacity I has now, and compares percentages. *)
Percent(bytes, cap) == Smaller((bytes * 100) \div cap, 255)

CheckCapacity(t) ==
  /\ At(t, "capacity")
  /\ IF inner.cap = 0
     THEN Return(t) /\ HandOut(call[t].size)
     ELSE LET pct == Percent(call[t].val, inner.cap)
          IN \/ pct >= conf.crit /\ Goto(t, "fire_critical", 0) /\ UNCHANGED live
             \/ pct < conf.crit /\ pct >= conf.warn /\ Goto(t, "fire_warn", 0) /\ UNCHANGED live
             \/ pct < conf.crit /\ pct < conf.warn /\ Return(t) /\ HandOut(call[t].size)
  /\ UNCHANGED <<conf, inner, counter, st, wm, seen>>

(* fetch_or sets the bits of the level and tells who set them first.       *)
Bits(level) == IF level = "critical" THEN {"warn", "critical"} ELSE {"warn"}

(* A load, and a store later, in place of the fetch_or. *)
FireInTwoSteps(t, level) ==
  /\ At(t, IF level = "critical" THEN "fire_critical" ELSE "fire_warn")
  /\ IF call[t].val = 0
     THEN /\ UNCHANGED wm
          /\ IF level \in wm.fired
             THEN Return(t) /\ HandOut(call[t].size)
             ELSE Goto(t, call[t].pc, 1) /\ UNCHANGED live
     ELSE /\ wm' = [wm EXCEPT !.fired = @ \cup Bits(level)]
          /\ Goto(t, level, 0) /\ UNCHANGED live
  /\ UNCHANGED <<conf, inner, counter, st, seen>>

Fire(t, level) ==
  /\ At(t, IF level = "critical" THEN "fire_critical" ELSE "fire_warn")
  /\ wm' = [wm EXCEPT !.fired = @ \cup Bits(level)]
  /\ IF level \in wm.fired
     THEN Return(t) /\ HandOut(call[t].size)
     ELSE Goto(t, level, 0) /\ UNCHANGED live
  /\ UNCHANGED <<conf, inner, counter, st, seen>>

OnWarn(t) ==
  /\ At(t, "warn")
  /\ seen' = [seen EXCEPT !.warns = @ + 1]
  /\ Return(t) /\ HandOut(call[t].size)
  /\ UNCHANGED <<conf, inner, counter, st, wm>>

OnCritical(t) ==
  /\ At(t, "critical")
  /\ seen' = [seen EXCEPT !.criticals = @ + 1]
  /\ Return(t) /\ HandOut(call[t].size)
  /\ UNCHANGED <<conf, inner, counter, st, wm>>

Rearm ==
  /\ seen.rearms < MaxRearms
  /\ wm' = [wm EXCEPT !.fired = {}]
  /\ seen' = [seen EXCEPT !.rearms = @ + 1, !.maxWm = 0]
  /\ UNCHANGED <<conf, inner, counter, st, call, live>>

-----------------------------------------------------------------------------
(* Deallocate: every layer counts before it calls the next, I comes last.  *)
StartDeallocate(t, s) ==
  /\ At(t, "idle") /\ live[s] > 0
  /\ live' = [live EXCEPT ![s] = @ - 1]
  /\ call' = [call EXCEPT ![t] = [pc |-> "wm_sub", size |-> s, val |-> 0]]
  /\ UNCHANGED <<conf, inner, counter, st, wm, seen>>

WatermarkSub(t) ==
  /\ At(t, "wm_sub")
  /\ wm' = [wm EXCEPT !.allocated = @ - call[t].size]
  /\ Goto(t, "count_free", 0)
  /\ UNCHANGED <<conf, inner, counter, st, live, seen>>

CountFree(t) ==
  /\ At(t, "count_free")
  /\ st' = [st EXCEPT !.frees = @ + 1]
  /\ Goto(t, "sub_bytes", 0)
  /\ UNCHANGED <<conf, inner, counter, wm, live, seen>>

(* The memory given back before it is subtracted. *)
SubBytesLate(t) ==
  \/ /\ At(t, "sub_bytes") /\ call[t].val = 0
     /\ inner' = [inner EXCEPT !.used = @ - call[t].size]
     /\ Goto(t, "sub_bytes", 1)
     /\ UNCHANGED <<conf, counter, st, wm, live, seen>>
  \/ /\ At(t, "sub_bytes") /\ call[t].val = 1
     /\ st' = [st EXCEPT !.bytes = @ - call[t].size]
     /\ Return(t)
     /\ UNCHANGED <<conf, inner, counter, wm, live, seen>>

SubBytes(t) ==
  /\ At(t, "sub_bytes")
  /\ st' = [st EXCEPT !.bytes = @ - call[t].size]
  /\ Goto(t, "free_mirror", 0)
  /\ UNCHANGED <<conf, inner, counter, wm, live, seen>>

(* Faulty::deallocate forwards.  External: I takes the memory back, and may*)
(* find corruption while it does.                                          *)
InnerDeallocate(t) ==
  /\ At(t, "free")
  /\ \E corrupt \in {inner.corrupt, Smaller(inner.corrupt + 1, MaxCorrupt)} :
       inner' = [inner EXCEPT !.used = @ - call[t].size, !.corrupt = corrupt]
  /\ Return(t)
  /\ UNCHANGED <<conf, counter, st, wm, live, seen>>

Next ==
  \/ \E t \in Threads :
       \/ \E s \in Sizes : StartAllocate(t, s) \/ StartDeallocate(t, s)
       \/ AskPolicy(t) \/ FailAfterLoad(t) \/ FailAfterCas(t)
       \/ InnerAllocate(t) \/ Mirror(t)
       \/ CountAllocation(t) \/ AddBytes(t) \/ RaisePeak(t)
       \/ CountFailure(t) \/ OnOom(t)
       \/ WatermarkAdd(t) \/ CheckCapacity(t)
       \/ \E level \in {"warn", "critical"} : Fire(t, level)
       \/ OnWarn(t) \/ OnCritical(t)
       \/ WatermarkSub(t) \/ CountFree(t) \/ SubBytes(t) \/ InnerDeallocate(t)
  \/ Rearm

Spec == Init /\ [][Next]_vars
-----------------------------------------------------------------------------
Quiet == \A t \in Threads : At(t, "idle")

(* The sum of the naturals w[x], counted: w[x] units for every x. *)
Units(w) == UNION {{x} \X (1..w[x]) : x \in DOMAIN w}

Total(w) == Cardinality(Units(w))

LiveBytes == Total([s \in Sizes |-> s * live[s]])

LiveCount == Total(live)

(* Memory is counted after it is obtained and subtracted before it is given*)
(* back, at every layer: whatever the threads are in the middle of, no     *)
(* layer reports more bytes than the one below it, no counter is driven    *)
(* below zero (the debug assertions of both deallocates), and the peak is a*)
(* figure the allocator really reached.                                    *)
NeverOverstated ==
  /\ 0 <= wm.allocated /\ wm.allocated <= st.bytes
  /\ st.bytes <= inner.used /\ inner.used <= inner.cap
  /\ st.peak <= seen.maxBytes /\ seen.maxBytes <= seen.maxUsed
  /\ st.frees <= st.allocs
  /\ st.mirror <= inner.corrupt

(* When no call is in progress every counter is exact: live_count, the     *)
(* bytes of both layers and of the allocator, the peak as the highest value*)
(* bytes_allocated has had, one on_oom for each failure; and the mirror has*)
(* caught up with the events allocate last saw (those of a later free are  *)
(* picked up by the next call).                                            *)
ExactAtRest ==
  Quiet =>
    /\ st.allocs - st.frees = LiveCount
    /\ {st.bytes, wm.allocated, inner.used} = {LiveBytes}
    /\ st.peak = seen.maxBytes
    /\ st.failures = seen.ooms /\ st.allocs + st.failures = seen.calls
    /\ st.mirror >= seen.reported

(* check_and_fire: threads that cross a threshold together call its handler*)
(* once per arming, a crossing is never missed (measured against the       *)
(* largest capacity, since the capacity may grow between the addition and  *)
(* the check), and critical implies warn.                                  *)
RisingEdges ==
  /\ seen.criticals <= seen.rearms + 1
  /\ seen.warns <= seen.rearms + 1
  /\ "critical" \in wm.fired => "warn" \in wm.fired
  /\ Quiet /\ inner.cap > 0 /\ conf.cap < UsizeMax =>
       LET pct == Percent(seen.maxWm, inner.cap)
       IN /\ seen.maxWm > 0 /\ pct >= conf.crit =>
               "critical" \in wm.fired /\ seen.criticals > 0
          /\ seen.maxWm > 0 /\ pct >= conf.warn => "warn" \in wm.fired
          /\ "warn" \in wm.fired => seen.warns + seen.criticals > 0

(* should_fail under contention: FailAfter(n) grants exactly n requests,   *)
(* and refuses none before; FailEveryNth(n) refuses exactly every n-th.    *)
FaultsOnSchedule ==
  /\ conf.policy.kind = "after" =>
       /\ counter + seen.granted = conf.policy.n
       /\ seen.refused > 0 => counter = 0
  /\ conf.policy.kind = "nth" =>
       /\ counter = seen.granted + seen.refused
       /\ seen.refused = counter \div conf.policy.n
=============================================================================
