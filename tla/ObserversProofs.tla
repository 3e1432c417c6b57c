--------------------------- MODULE ObserversProofs ---------------------------
(***************************************************************************)
(* Proofs about Observers, for any number of threads, any sizes and any    *)
(* configuration of the stack.                                             *)
(***************************************************************************)
EXTENDS Observers, FiniteSetTheorems, TLAPS

-----------------------------------------------------------------------------
(* Sums counted as cardinalities. *)

LEMMA UnitsFinite ==
  ASSUME NEW S, IsFiniteSet(S), NEW w \in [S -> Nat]
  PROVE  IsFiniteSet(Units(w)) /\ Total(w) \in Nat
<1> DEFINE F == {{x} \X (1..w[x]) : x \in S}
<1>1. IsFiniteSet(F)
  <2> DEFINE f == [x \in S |-> {x} \X (1..w[x])]
  <2>1. f \in Surjection(S, F) BY DEF Surjection
  <2>2. QED BY <2>1, FS_Surjection
<1>2. ASSUME NEW x \in S PROVE IsFiniteSet({x} \X (1..w[x]))
  <2>1. IsFiniteSet({x}) BY FS_Singleton
  <2>2. IsFiniteSet(1..w[x]) BY FS_Interval
  <2>3. QED BY <2>1, <2>2, FS_Product
<1>3. \A T \in F : IsFiniteSet(T) BY <1>2
<1>4. IsFiniteSet(UNION F) BY <1>1, <1>3, FS_UNION
<1>5. Units(w) = UNION F BY DEF Units
<1>6. QED BY <1>4, <1>5, FS_CardinalityType DEF Total

(* Changing one weight changes the sum by the difference. *)
LEMMA TotalUpdate ==
  ASSUME NEW S, IsFiniteSet(S), NEW w \in [S -> Nat], NEW x \in S, NEW n \in Nat
  PROVE  Total([w EXCEPT ![x] = n]) = Total(w) - w[x] + n
<1> DEFINE v == [w EXCEPT ![x] = n]
           Old == {x} \X (1..w[x])
           New == {x} \X (1..n)
           Rest == Units(w) \ Old
<1>1. IsFiniteSet(Units(w)) /\ IsFiniteSet(Rest) /\ Total(w) \in Nat
  BY UnitsFinite, FS_Difference
<1>2. ASSUME NEW m \in Nat
      PROVE  IsFiniteSet({x} \X (1..m)) /\ Cardinality({x} \X (1..m)) = m
  <2>1. IsFiniteSet({x}) /\ Cardinality({x}) = 1 BY FS_Singleton
  <2>2. IsFiniteSet(1..m) /\ Cardinality(1..m) = m BY FS_Interval
  <2>3. /\ IsFiniteSet({x} \X (1..m))
        /\ Cardinality({x} \X (1..m)) = Cardinality({x}) * Cardinality(1..m)
    BY <2>1, <2>2, FS_Product
  <2>4. QED BY <2>1, <2>2, <2>3
<1>3. IsFiniteSet(Old) /\ Cardinality(Old) = w[x] BY <1>2
<1>4. IsFiniteSet(New) /\ Cardinality(New) = n BY <1>2
<1>5. Units(w) \cap Old = Old BY DEF Units
<1>6. Cardinality(Rest) = Total(w) - w[x]
  <2>1. Cardinality(Rest) = Cardinality(Units(w)) - Cardinality(Units(w) \cap Old)
    BY <1>1, FS_Difference
  <2>2. Cardinality(Units(w) \cap Old) = w[x] BY <1>3, <1>5
  <2>3. QED BY <2>1, <2>2 DEF Total
<1>7. Units(v) = Rest \cup New
  <2>1. ASSUME NEW u, u \in Units(v) PROVE u \in Rest \cup New
    <3>1. PICK y \in S : u \in {y} \X (1..v[y]) BY <2>1 DEF Units
    <3>2. QED BY <3>1 DEF Units
  <2>2. ASSUME NEW u, u \in Rest \cup New PROVE u \in Units(v)
    <3>1. CASE u \in Rest
      <4>1. PICK y \in S : u \in {y} \X (1..w[y]) BY <3>1 DEF Units
      <4>2. y # x BY <3>1, <4>1
      <4>3. QED BY <4>1, <4>2 DEF Units
    <3>2. CASE u \in New BY <3>2 DEF Units
    <3>3. QED BY <2>2, <3>1, <3>2
  <2>3. QED BY <2>1, <2>2
<1>8. Rest \cap New = {}
  <2>1. ASSUME NEW u, u \in Rest, u \in New PROVE FALSE
    <3>1. PICK y \in S : u \in {y} \X (1..w[y]) BY <2>1 DEF Units
    <3>2. y = x BY <2>1, <3>1
    <3>3. QED BY <2>1, <3>1, <3>2
  <2>2. QED BY <2>1
<1>9. Cardinality(Rest \cap New) = 0 BY <1>8, FS_EmptySet
<1> HIDE DEF Rest, New, v
<1>10. Cardinality(Units(v)) = Cardinality(Rest) + Cardinality(New) - 0
  BY <1>1, <1>4, <1>7, <1>9, FS_Union
<1>11. QED BY <1>1, <1>4, <1>6, <1>10 DEF Total, v

LEMMA TotalZero ==
  ASSUME NEW S, NEW w \in [S -> Nat], \A x \in S : w[x] = 0
  PROVE  Total(w) = 0
<1>1. Units(w) = {}
  <2>1. ASSUME NEW u, u \in Units(w) PROVE FALSE
    <3>1. PICK y \in S : u \in {y} \X (1..w[y]) BY <2>1 DEF Units
    <3>2. QED BY <3>1
  <2>2. QED BY <2>1
<1>2. QED BY <1>1, FS_EmptySet DEF Total

-----------------------------------------------------------------------------
(* Types. *)
PCs == {"idle", "policy", "cas", "inner", "mirror", "err_mirror", "count", "bytes",
        "peak", "watermark", "capacity", "fire_critical", "fire_warn", "warn",
        "critical", "failure", "oom", "wm_sub", "count_free", "sub_bytes",
        "free_mirror", "free"}

Calls == [pc : PCs, size : Nat, val : Int]

Types ==
  /\ conf \in Configs
  /\ inner \in [used : Int, cap : Nat, corrupt : 0..MaxCorrupt]
  /\ counter \in Int
  /\ st \in [allocs : Int, frees : Int, bytes : Int, peak : Int, failures : Int, mirror : Int]
  /\ wm \in [allocated : Int, fired : SUBSET {"warn", "critical"}]
  /\ call \in [Threads -> Calls]
  /\ \A t \in Threads : call[t].pc # "idle" => call[t].size \in Sizes
  /\ live \in [Sizes -> Nat]
  /\ seen \in [calls : Nat, rearms : Nat, granted : Nat, refused : Nat, warns : Nat,
               criticals : Nat, ooms : Nat, maxBytes : Int, maxWm : Int, maxUsed : Int,
               reported : Int]

LEMMA ConfigIs ==
  ASSUME conf \in Configs
  PROVE  /\ conf.policy.n \in Nat /\ conf.warn \in 0..255 /\ conf.crit \in 0..255
         /\ conf.cap \in Nat /\ conf.grown \in Nat /\ conf.cap <= conf.grown
         /\ conf.policy.kind \in PolicyKinds
         /\ conf.policy.kind = "nth" => conf.policy.n > 0
BY ObserversAssumption DEF WellFormed

(* What a thread does to its own record: it moves to another place, or     *)
(* returns.                                                                *)
Moves(t, from, to, v) ==
  /\ call[t].pc = from
  /\ call' \in [Threads -> Calls]
  /\ call'[t].pc = to /\ call'[t].size = call[t].size /\ call'[t].val = v
  /\ \A u \in Threads : u # t => call'[u] = call[u]

Returns(t, from) ==
  /\ call[t].pc = from
  /\ call' \in [Threads -> Calls]
  /\ call'[t].pc = "idle" /\ call'[t].size = 0 /\ call'[t].val = 0
  /\ \A u \in Threads : u # t => call'[u] = call[u]

Enters(t, to, s) ==
  /\ call[t].pc = "idle"
  /\ call' \in [Threads -> Calls]
  /\ call'[t].pc = to /\ call'[t].size = s /\ call'[t].val = 0
  /\ \A u \in Threads : u # t => call'[u] = call[u]

LEMMA GotoIs ==
  ASSUME call \in [Threads -> Calls], NEW t \in Threads, NEW pc \in PCs, NEW val \in Int,
         Goto(t, pc, val)
  PROVE  Moves(t, call[t].pc, pc, val)
<1> DEFINE x == [call[t] EXCEPT !.pc = pc, !.val = val]
<1>1. call' = [call EXCEPT ![t] = x] BY DEF Goto, Calls
<1>2. call[t] \in Calls OBVIOUS
<1>3. x \in Calls /\ x.pc = pc /\ x.size = call[t].size /\ x.val = val BY <1>2 DEF Calls
<1> HIDE DEF x
<1>4. QED BY <1>1, <1>3 DEF Moves

LEMMA ReturnIs ==
  ASSUME call \in [Threads -> Calls], NEW t \in Threads, Return(t)
  PROVE  Returns(t, call[t].pc)
<1>1. Idle \in Calls /\ Idle.pc = "idle" /\ Idle.size = 0 /\ Idle.val = 0
  BY DEF Idle, Calls, PCs
<1>2. QED BY <1>1 DEF Return, Returns

LEMMA TypesInit == Init => Types
BY ObserversAssumption, ConfigIs DEF Init, Types, Calls, PCs, Idle, InitialCounter

LEMMA Entries ==
  ASSUME Types, NEW t \in Threads, NEW s \in Sizes
  PROVE  /\ StartAllocate(t, s) => Enters(t, "policy", s)
         /\ StartDeallocate(t, s) => Enters(t, "wm_sub", s)
<1>1. ASSUME NEW pc \in {"policy", "wm_sub"}
      PROVE  LET c == [pc |-> pc, size |-> s, val |-> 0]
             IN  c \in Calls /\ c.pc = pc /\ c.size = s /\ c.val = 0
  BY ObserversAssumption DEF Calls, PCs
<1>2. QED BY <1>1 DEF StartAllocate, StartDeallocate, Enters, At, Types

(* Where every action takes its thread. *)
LEMMA Journeys ==
  ASSUME Types, NEW t \in Threads
  PROVE  /\ AskPolicy(t) => \E to \in {"err_mirror", "inner"} : Moves(t, "policy", to, 0)
         /\ FailAfterLoad(t) =>
              \/ Moves(t, "policy", "err_mirror", 0)
              \/ \E v \in counter..conf.policy.n : v # 0 /\ Moves(t, "policy", "cas", v)
         /\ FailAfterCas(t) => \E to \in {"inner", "policy"} : Moves(t, "cas", to, 0)
         /\ InnerAllocate(t) =>
              \E to \in {"mirror", "err_mirror"} : Moves(t, "inner", to, inner'.corrupt)
         /\ Mirror(t) => \/ Moves(t, "mirror", "count", 0)
                         \/ Moves(t, "err_mirror", "failure", 0)
                         \/ Moves(t, "free_mirror", "free", 0)
         /\ CountAllocation(t) => Moves(t, "count", "bytes", 0)
         /\ AddBytes(t) => Moves(t, "bytes", "peak", st'.bytes)
         /\ RaisePeak(t) => Moves(t, "peak", "watermark", 0)
         /\ CountFailure(t) => Moves(t, "failure", "oom", 0)
         /\ OnOom(t) => Returns(t, "oom")
         /\ WatermarkAdd(t) => \/ Moves(t, "watermark", "capacity", wm'.allocated) /\ live' = live
                               \/ Returns(t, "watermark") /\ HandOut(call[t].size)
         /\ CheckCapacity(t) => \/ Moves(t, "capacity", "fire_critical", 0) /\ live' = live
                                \/ Moves(t, "capacity", "fire_warn", 0) /\ live' = live
                                \/ Returns(t, "capacity") /\ HandOut(call[t].size)
         /\ Fire(t, "warn") => \/ Moves(t, "fire_warn", "warn", 0) /\ live' = live
                               \/ Returns(t, "fire_warn") /\ HandOut(call[t].size)
         /\ Fire(t, "critical") => \/ Moves(t, "fire_critical", "critical", 0) /\ live' = live
                                   \/ Returns(t, "fire_critical") /\ HandOut(call[t].size)
         /\ OnWarn(t) => Returns(t, "warn")
         /\ OnCritical(t) => Returns(t, "critical")
         /\ WatermarkSub(t) => Moves(t, "wm_sub", "count_free", 0)
         /\ CountFree(t) => Moves(t, "count_free", "sub_bytes", 0)
         /\ SubBytes(t) => Moves(t, "sub_bytes", "free_mirror", 0)
         /\ InnerDeallocate(t) => Returns(t, "free")
<1>0. call \in [Threads -> Calls] BY DEF Types
<1>1. ASSUME NEW pc \in PCs, NEW v \in Int, Goto(t, pc, v)
      PROVE  Moves(t, call[t].pc, pc, v)
  BY <1>0, <1>1, GotoIs
<1>2. Return(t) => Returns(t, call[t].pc) BY <1>0, ReturnIs
<1>3. AskPolicy(t) => \E to \in {"err_mirror", "inner"} : Moves(t, "policy", to, 0)
  BY <1>1, <1>2 DEF AskPolicy, At, PCs
<1>4. FailAfterLoad(t) =>
           \/ Moves(t, "policy", "err_mirror", 0)
           \/ \E v \in counter..conf.policy.n : v # 0 /\ Moves(t, "policy", "cas", v)
  BY <1>1, <1>2 DEF FailAfterLoad, At, PCs
<1>5. FailAfterCas(t) => \E to \in {"inner", "policy"} : Moves(t, "cas", to, 0)
  BY <1>1, <1>2 DEF FailAfterCas, At, PCs
<1>6. InnerAllocate(t) =>
           \E to \in {"mirror", "err_mirror"} : Moves(t, "inner", to, inner'.corrupt)
  <2> SUFFICES ASSUME InnerAllocate(t)
               PROVE  \E to \in {"mirror", "err_mirror"} : Moves(t, "inner", to, inner'.corrupt)
    OBVIOUS
  <2>1. inner.corrupt \in 0..MaxCorrupt /\ MaxCorrupt \in Nat
    BY ObserversAssumption DEF Types
  <2>2. PICK c \in {inner.corrupt, Smaller(inner.corrupt + 1, MaxCorrupt)},
             cap \in {inner.cap, conf.grown} :
          /\ \E used : inner' = [used |-> used, cap |-> cap, corrupt |-> c]
          /\ \E to \in {"mirror", "err_mirror"} : Goto(t, to, c)
    BY DEF InnerAllocate
  <2>3. c \in Int /\ inner'.corrupt = c BY <2>1, <2>2 DEF Smaller
  <2>4. call[t].pc = "inner" BY DEF InnerAllocate, At
  <2>5. QED BY <1>1, <2>2, <2>3, <2>4 DEF PCs
<1>7. Mirror(t) => \/ Moves(t, "mirror", "count", 0)
                   \/ Moves(t, "err_mirror", "failure", 0)
                   \/ Moves(t, "free_mirror", "free", 0)
  BY <1>1, <1>2 DEF Mirror, At, PCs
<1>8. CountAllocation(t) => Moves(t, "count", "bytes", 0)
  BY <1>1, <1>2 DEF CountAllocation, At, PCs
<1>9. AddBytes(t) => Moves(t, "bytes", "peak", st'.bytes)
  <2> SUFFICES ASSUME AddBytes(t) PROVE Moves(t, "bytes", "peak", st'.bytes) OBVIOUS
  <2>1. st'.bytes \in Int BY <1>0 DEF AddBytes, Types, Calls
  <2>2. call[t].pc = "bytes" /\ Goto(t, "peak", st'.bytes) BY DEF AddBytes, At
  <2>3. QED BY <1>1, <2>1, <2>2 DEF PCs
<1>10. RaisePeak(t) => Moves(t, "peak", "watermark", 0)
  BY <1>1, <1>2 DEF RaisePeak, At, PCs
<1>11. CountFailure(t) => Moves(t, "failure", "oom", 0)
  BY <1>1, <1>2 DEF CountFailure, At, PCs
<1>12. OnOom(t) => Returns(t, "oom")
  BY <1>1, <1>2 DEF OnOom, At, PCs
<1>13. WatermarkAdd(t) => \/ Moves(t, "watermark", "capacity", wm'.allocated) /\ live' = live
                          \/ Returns(t, "watermark") /\ HandOut(call[t].size)
  <2> SUFFICES ASSUME WatermarkAdd(t)
               PROVE  \/ Moves(t, "watermark", "capacity", wm'.allocated) /\ live' = live
                      \/ Returns(t, "watermark") /\ HandOut(call[t].size)
    OBVIOUS
  <2>1. wm'.allocated \in Int BY <1>0 DEF WatermarkAdd, Types, Calls
  <2>2. /\ call[t].pc = "watermark"
        /\ \/ Goto(t, "capacity", wm'.allocated) /\ live' = live
           \/ Return(t) /\ HandOut(call[t].size)
    BY DEF WatermarkAdd, At
  <2>3. QED BY <1>1, <1>2, <2>1, <2>2 DEF PCs
<1>14. CheckCapacity(t) => \/ Moves(t, "capacity", "fire_critical", 0) /\ live' = live
                           \/ Moves(t, "capacity", "fire_warn", 0) /\ live' = live
                           \/ Returns(t, "capacity") /\ HandOut(call[t].size)
  BY <1>1, <1>2 DEF CheckCapacity, At, PCs
<1>15. Fire(t, "warn") => \/ Moves(t, "fire_warn", "warn", 0) /\ live' = live
                          \/ Returns(t, "fire_warn") /\ HandOut(call[t].size)
  BY <1>1, <1>2 DEF Fire, At, PCs
<1>16. Fire(t, "critical") => \/ Moves(t, "fire_critical", "critical", 0) /\ live' = live
                              \/ Returns(t, "fire_critical") /\ HandOut(call[t].size)
  BY <1>1, <1>2 DEF Fire, At, PCs
<1>17. OnWarn(t) => Returns(t, "warn")
  BY <1>1, <1>2 DEF OnWarn, At, PCs
<1>18. OnCritical(t) => Returns(t, "critical")
  BY <1>1, <1>2 DEF OnCritical, At, PCs
<1>19. WatermarkSub(t) => Moves(t, "wm_sub", "count_free", 0)
  BY <1>1, <1>2 DEF WatermarkSub, At, PCs
<1>20. CountFree(t) => Moves(t, "count_free", "sub_bytes", 0)
  BY <1>1, <1>2 DEF CountFree, At, PCs
<1>21. SubBytes(t) => Moves(t, "sub_bytes", "free_mirror", 0)
  BY <1>1, <1>2 DEF SubBytes, At, PCs
<1>22. InnerDeallocate(t) => Returns(t, "free")
  BY <1>1, <1>2 DEF InnerDeallocate, At, PCs
<1>23. QED
  BY <1>3, <1>4, <1>5, <1>6, <1>7, <1>8, <1>9, <1>10, <1>11, <1>12, <1>13, <1>14, <1>15,
     <1>16, <1>17, <1>18, <1>19, <1>20, <1>21, <1>22

(* What the allocator underneath does with a request. *)
LEMMA Served ==
  ASSUME Types, NEW t \in Threads, InnerAllocate(t)
  PROVE  /\ inner'.corrupt \in inner.corrupt..MaxCorrupt
         /\ inner'.cap \in {inner.cap, conf.grown}
         /\ \/ /\ inner'.used = inner.used + call[t].size /\ inner'.used <= inner'.cap
               /\ Moves(t, "inner", "mirror", inner'.corrupt)
            \/ /\ inner'.used = inner.used /\ inner'.cap = inner.cap
               /\ Moves(t, "inner", "err_mirror", inner'.corrupt)
         /\ seen' = [seen EXCEPT !.maxUsed = Bigger(seen.maxUsed, inner'.used),
                                 !.reported = inner'.corrupt]
<1> DEFINE used == inner.used + call[t].size
<1>1. PICK corrupt \in {inner.corrupt, Smaller(inner.corrupt + 1, MaxCorrupt)},
           cap \in {inner.cap, conf.grown} :
        /\ cap # inner.cap => used > inner.cap /\ used <= cap
        /\ inner' = [used |-> IF used <= cap THEN used ELSE inner.used,
                     cap |-> cap, corrupt |-> corrupt]
        /\ Goto(t, IF used <= cap THEN "mirror" ELSE "err_mirror", corrupt)
        /\ seen' = [seen EXCEPT !.maxUsed = Bigger(@, inner'.used), !.reported = corrupt]
  BY DEF InnerAllocate
<1>2. /\ inner'.corrupt = corrupt /\ inner'.cap = cap
      /\ inner'.used = IF used <= cap THEN used ELSE inner.used
  BY <1>1
<1>3. /\ inner.corrupt \in 0..MaxCorrupt /\ MaxCorrupt \in Nat
      /\ call \in [Threads -> Calls] /\ call[t].pc = "inner"
  BY ObserversAssumption DEF Types, InnerAllocate, At
<1>4. corrupt \in inner.corrupt..MaxCorrupt BY <1>1, <1>3 DEF Smaller
<1>5. ASSUME NEW to \in PCs, Goto(t, to, corrupt) PROVE Moves(t, "inner", to, inner'.corrupt)
  BY <1>2, <1>3, <1>4, <1>5, GotoIs
<1>6. CASE used <= cap
  <2>1. Moves(t, "inner", "mirror", inner'.corrupt) BY <1>1, <1>5, <1>6 DEF PCs
  <2>2. QED BY <1>1, <1>2, <1>4, <1>6, <2>1
<1>7. CASE ~(used <= cap)
  <2>1. Moves(t, "inner", "err_mirror", inner'.corrupt) BY <1>1, <1>5, <1>7 DEF PCs
  <2>2. cap = inner.cap BY <1>1, <1>7
  <2>3. QED BY <1>1, <1>2, <1>4, <1>7, <2>1, <2>2
<1>8. QED BY <1>6, <1>7

LEMMA TypesStep == Types /\ [Next]_vars => Types'
<1> SUFFICES ASSUME Types, [Next]_vars PROVE Types' OBVIOUS
<1> DEFINE CallOK == /\ call' \in [Threads -> Calls]
                     /\ \A u \in Threads : call'[u].pc # "idle" => call'[u].size \in Sizes
<1>0. \A t \in Threads : call[t].pc # "idle" => call[t].size \in Sizes BY DEF Types
<1>a. ASSUME NEW t \in Threads, NEW from, from # "idle",
             (\E to, v : Moves(t, from, to, v)) \/ Returns(t, from)
      PROVE  CallOK
  BY <1>0, <1>a DEF Moves, Returns
<1>b. \A t \in Threads : call[t].size \in Nat /\ call[t].val \in Int BY DEF Types, Calls
<1>1. CASE UNCHANGED vars BY <1>1 DEF vars, Types
<1>2. CASE Rearm
  <2>1. wm' \in [allocated : Int, fired : SUBSET {"warn", "critical"}] BY <1>2 DEF Rearm, Types
  <2>2. seen' \in [calls : Nat, rearms : Nat, granted : Nat, refused : Nat, warns : Nat,
                   criticals : Nat, ooms : Nat, maxBytes : Int, maxWm : Int, maxUsed : Int,
                   reported : Int]
    <3> DEFINE n == seen.rearms + 1
               z == 0
    <3>1. n \in Nat /\ z \in Int BY DEF Types
    <3>2. seen' = [seen EXCEPT !.rearms = n, !.maxWm = z] BY <1>2 DEF Rearm
    <3> HIDE DEF n, z
    <3>3. QED BY <3>1, <3>2 DEF Types
  <2>3. QED BY <1>2, <2>1, <2>2 DEF Rearm, Types
<1>3. ASSUME NEW t \in Threads, NEW s \in Sizes, StartAllocate(t, s) PROVE Types'
  <2>1. CallOK BY <1>0, <1>3, Entries DEF Enters
  <2>2. QED BY <1>3, <2>1 DEF StartAllocate, Types
<1>4. ASSUME NEW t \in Threads, NEW s \in Sizes, StartDeallocate(t, s) PROVE Types'
  <2>1. CallOK BY <1>0, <1>4, Entries DEF Enters
  <2>2. QED BY <1>4, <2>1 DEF StartDeallocate, Types
<1>5. ASSUME NEW t \in Threads, AskPolicy(t) PROVE Types'
  <2>1. CallOK BY <1>5, <1>a, Journeys
  <2>2. QED BY <1>5, <2>1 DEF AskPolicy, Types, CounterAfter
<1>6. ASSUME NEW t \in Threads, FailAfterLoad(t) PROVE Types'
  <2>1. CallOK BY <1>6, <1>a, Journeys
  <2>2. QED BY <1>6, <2>1 DEF FailAfterLoad, Types
<1>7. ASSUME NEW t \in Threads, FailAfterCas(t) PROVE Types'
  <2>1. CallOK BY <1>7, <1>a, Journeys
  <2>2. QED BY <1>7, <2>1 DEF FailAfterCas, Types
<1>8. ASSUME NEW t \in Threads, InnerAllocate(t) PROVE Types'
  <2>1. CallOK BY <1>8, <1>a, Journeys
  <2>2. PICK corrupt \in {inner.corrupt, Smaller(inner.corrupt + 1, MaxCorrupt)},
             cap \in {inner.cap, conf.grown} :
          inner' = [used |-> IF inner.used + call[t].size <= cap
                             THEN inner.used + call[t].size ELSE inner.used,
                    cap |-> cap, corrupt |-> corrupt]
          /\ seen' = [seen EXCEPT !.maxUsed = Bigger(@, inner'.used), !.reported = corrupt]
    BY <1>8 DEF InnerAllocate
  <2>3. corrupt \in 0..MaxCorrupt BY ObserversAssumption, <2>2 DEF Smaller, Types
  <2>4. cap \in Nat BY <2>2, ConfigIs DEF Types
  <2>5. inner' \in [used : Int, cap : Nat, corrupt : 0..MaxCorrupt] /\ inner'.used \in Int
    BY <1>b, <2>2, <2>3, <2>4 DEF Types
  <2>6. seen' \in [calls : Nat, rearms : Nat, granted : Nat, refused : Nat, warns : Nat,
                   criticals : Nat, ooms : Nat, maxBytes : Int, maxWm : Int, maxUsed : Int,
                   reported : Int]
    <3> DEFINE m == Bigger(seen.maxUsed, inner'.used)
    <3>1. m \in Int /\ corrupt \in Int BY <2>3, <2>5, ObserversAssumption DEF Types, Bigger
    <3>2. seen' = [seen EXCEPT !.maxUsed = m, !.reported = corrupt] BY <2>2
    <3> HIDE DEF m
    <3>3. QED BY <3>1, <3>2 DEF Types
  <2>7. QED BY <1>8, <2>1, <2>5, <2>6 DEF InnerAllocate, Types
<1>9. ASSUME NEW t \in Threads, Mirror(t) PROVE Types'
  <2>1. CallOK BY <1>9, <1>a, Journeys
  <2>2. QED BY <1>9, <2>1 DEF Mirror, Types, MirrorMax, Bigger
<1>10. ASSUME NEW t \in Threads, CountAllocation(t) PROVE Types'
  <2>1. CallOK BY <1>10, <1>a, Journeys
  <2>2. QED BY <1>10, <2>1 DEF CountAllocation, Types
<1>11. ASSUME NEW t \in Threads, AddBytes(t) PROVE Types'
  <2>1. CallOK BY <1>11, <1>a, Journeys
  <2>2. QED BY <1>0, <1>b, <1>11, <2>1 DEF AddBytes, At, Types, Bigger
<1>12. ASSUME NEW t \in Threads, RaisePeak(t) PROVE Types'
  <2>1. CallOK BY <1>12, <1>a, Journeys
  <2>2. QED BY <1>0, <1>b, <1>12, <2>1 DEF RaisePeak, At, Types, PeakMax, Bigger
<1>13. ASSUME NEW t \in Threads, CountFailure(t) PROVE Types'
  <2>1. CallOK BY <1>13, <1>a, Journeys
  <2>2. QED BY <1>13, <2>1 DEF CountFailure, Types
<1>14. ASSUME NEW t \in Threads, OnOom(t) PROVE Types'
  <2>1. CallOK BY <1>14, <1>a, Journeys
  <2>2. QED BY <1>14, <2>1 DEF OnOom, Types
<1>15. ASSUME NEW t \in Threads, WatermarkAdd(t) PROVE Types'
  <2>1. CallOK BY <1>15, <1>a, Journeys
  <2>2. QED BY <1>0, <1>b, <1>15, <2>1 DEF WatermarkAdd, At, Types, HandOut, Bigger
<1>16. ASSUME NEW t \in Threads, CheckCapacity(t) PROVE Types'
  <2>1. CallOK BY <1>16, <1>a, Journeys
  <2>2. QED BY <1>16, <2>1 DEF CheckCapacity, Types, HandOut
<1>17. ASSUME NEW t \in Threads, NEW l \in {"warn", "critical"}, Fire(t, l) PROVE Types'
  <2>1. CallOK BY <1>17, <1>a, Journeys
  <2>2. QED BY <1>17, <2>1 DEF Fire, Types, HandOut, Bits
<1>18. ASSUME NEW t \in Threads, OnWarn(t) PROVE Types'
  <2>1. CallOK BY <1>18, <1>a, Journeys
  <2>2. QED BY <1>0, <1>b, <1>18, <2>1 DEF OnWarn, At, Types, HandOut
<1>19. ASSUME NEW t \in Threads, OnCritical(t) PROVE Types'
  <2>1. CallOK BY <1>19, <1>a, Journeys
  <2>2. QED BY <1>0, <1>b, <1>19, <2>1 DEF OnCritical, At, Types, HandOut
<1>20. ASSUME NEW t \in Threads, WatermarkSub(t) PROVE Types'
  <2>1. CallOK BY <1>20, <1>a, Journeys
  <2>2. QED BY <1>0, <1>b, <1>20, <2>1 DEF WatermarkSub, At, Types
<1>21. ASSUME NEW t \in Threads, CountFree(t) PROVE Types'
  <2>1. CallOK BY <1>21, <1>a, Journeys
  <2>2. QED BY <1>21, <2>1 DEF CountFree, Types
<1>22. ASSUME NEW t \in Threads, SubBytes(t) PROVE Types'
  <2>1. CallOK BY <1>22, <1>a, Journeys
  <2>2. QED BY <1>0, <1>b, <1>22, <2>1 DEF SubBytes, At, Types
<1>23. ASSUME NEW t \in Threads, InnerDeallocate(t) PROVE Types'
  <2>1. CallOK BY <1>23, <1>a, Journeys
  <2>2. PICK corrupt \in {inner.corrupt, Smaller(inner.corrupt + 1, MaxCorrupt)} :
          inner' = [inner EXCEPT !.used = inner.used - call[t].size, !.corrupt = corrupt]
    BY <1>23 DEF InnerDeallocate
  <2>3. corrupt \in 0..MaxCorrupt BY ObserversAssumption, <2>2 DEF Smaller, Types
  <2>4. inner' \in [used : Int, cap : Nat, corrupt : 0..MaxCorrupt]
    <3> DEFINE n == inner.used - call[t].size
    <3>1. n \in Int BY <1>b DEF Types
    <3>2. inner' = [inner EXCEPT !.used = n, !.corrupt = corrupt] BY <2>2
    <3> HIDE DEF n
    <3>3. QED BY <2>3, <3>1, <3>2 DEF Types
  <2>5. QED BY <1>23, <2>1, <2>4 DEF InnerDeallocate, Types
<1>24. QED
  BY <1>1, <1>2, <1>3, <1>4, <1>5, <1>6, <1>7, <1>8, <1>9, <1>10, <1>11, <1>12, <1>13, <1>14,
     <1>15, <1>16, <1>17, <1>18, <1>19, <1>20, <1>21, <1>22, <1>23 DEF Next

-----------------------------------------------------------------------------
(* The books: every counter is the sum of what callers hold and of what the*)
(* calls in progress have added and not yet subtracted.                    *)
Held(c, pcs) == IF c.pc \in pcs THEN c.size ELSE 0

One(c, pcs) == IF c.pc \in pcs THEN 1 ELSE 0

InFlight(f, pcs) == Total([t \in Threads |-> Held(f[t], pcs)])

Count(f, pcs) == Total([t \in Threads |-> One(f[t], pcs)])

(* In the books of Watermark; of Statistics only; of I only. *)
InWatermark == {"capacity", "fire_critical", "fire_warn", "warn", "critical", "wm_sub"}

InStatistics == {"peak", "watermark", "count_free", "sub_bytes"}

InInner == {"mirror", "count", "bytes", "free_mirror", "free"}

(* Counted in allocs and not in frees; not counted in allocs or failures.  *)
Counted == InWatermark \cup {"bytes", "peak", "watermark", "count_free"}

Uncounted == {"policy", "cas", "inner", "mirror", "err_mirror", "count", "failure"}

Books ==
  /\ wm.allocated = LiveBytes + InFlight(call, InWatermark)
  /\ st.bytes = wm.allocated + InFlight(call, InStatistics)
  /\ inner.used = st.bytes + InFlight(call, InInner)
  /\ st.allocs - st.frees = LiveCount + Count(call, Counted)
  /\ seen.calls = st.allocs + st.failures + Count(call, Uncounted)
  /\ st.failures = seen.ooms + Count(call, {"oom"})

LEMMA SumTypes ==
  ASSUME Types, NEW pcs
  PROVE  InFlight(call, pcs) \in Nat /\ Count(call, pcs) \in Nat
         /\ LiveBytes \in Nat /\ LiveCount \in Nat
<1>1. IsFiniteSet(Threads) /\ IsFiniteSet(Sizes) BY ObserversAssumption
<1>2. [t \in Threads |-> Held(call[t], pcs)] \in [Threads -> Nat] BY DEF Types, Calls, Held
<1>3. [t \in Threads |-> One(call[t], pcs)] \in [Threads -> Nat] BY DEF One
<1>4. [s \in Sizes |-> s * live[s]] \in [Sizes -> Nat] BY ObserversAssumption DEF Types
<1>5. live \in [Sizes -> Nat] BY DEF Types
<1>6. Total([t \in Threads |-> Held(call[t], pcs)]) \in Nat BY <1>1, <1>2, UnitsFinite
<1>7. Total([t \in Threads |-> One(call[t], pcs)]) \in Nat BY <1>1, <1>3, UnitsFinite
<1>8. LiveBytes \in Nat BY <1>1, <1>4, UnitsFinite DEF LiveBytes
<1>9. LiveCount \in Nat BY <1>1, <1>5, UnitsFinite DEF LiveCount
<1>10. QED BY <1>6, <1>7, <1>8, <1>9 DEF InFlight, Count

(* One thread moves. *)
LEMMA SumMove ==
  ASSUME NEW f \in [Threads -> Calls], NEW g \in [Threads -> Calls], NEW t \in Threads,
         \A u \in Threads : u # t => g[u] = f[u], NEW pcs
  PROVE  /\ InFlight(g, pcs) = InFlight(f, pcs) - Held(f[t], pcs) + Held(g[t], pcs)
         /\ Count(g, pcs) = Count(f, pcs) - One(f[t], pcs) + One(g[t], pcs)
<1> DEFINE w == [u \in Threads |-> Held(f[u], pcs)]
           n == [u \in Threads |-> One(f[u], pcs)]
           x == Held(g[t], pcs)
           y == One(g[t], pcs)
<1>1. IsFiniteSet(Threads) BY ObserversAssumption
<1>2. x \in Nat /\ y \in Nat BY DEF Held, One, Calls
<1>3. w \in [Threads -> Nat] /\ n \in [Threads -> Nat] BY DEF Held, One, Calls
<1>4. [u \in Threads |-> Held(g[u], pcs)] = [w EXCEPT ![t] = x] OBVIOUS
<1>5. [u \in Threads |-> One(g[u], pcs)] = [n EXCEPT ![t] = y] OBVIOUS
<1>6. w[t] = Held(f[t], pcs) /\ n[t] = One(f[t], pcs) OBVIOUS
<1> HIDE DEF w, n, x, y
<1>7. Total([w EXCEPT ![t] = x]) = Total(w) - w[t] + x BY <1>1, <1>2, <1>3, TotalUpdate
<1>8. Total([n EXCEPT ![t] = y]) = Total(n) - n[t] + y BY <1>1, <1>2, <1>3, TotalUpdate
<1>9. QED BY <1>4, <1>5, <1>6, <1>7, <1>8 DEF InFlight, Count, w, n, x, y

(* A block is handed out, or taken back. *)
LEMMA LiveMove ==
  ASSUME Types, NEW s \in Sizes, NEW n \in Nat, live' = [live EXCEPT ![s] = n]
  PROVE  /\ LiveBytes' = LiveBytes - s * live[s] + s * n
         /\ LiveCount' = LiveCount - live[s] + n
<1> DEFINE w == [x \in Sizes |-> x * live[x]]
<1>1. IsFiniteSet(Sizes) /\ s \in Nat BY ObserversAssumption
<1>2. live \in [Sizes -> Nat] BY DEF Types
<1>3. w \in [Sizes -> Nat] BY <1>2, ObserversAssumption
<1>4. [x \in Sizes |-> x * live'[x]] = [w EXCEPT ![s] = s * n] BY <1>2
<1>5. w[s] = s * live[s] OBVIOUS
<1>6. s * n \in Nat BY <1>1
<1>7. LiveCount' = LiveCount - live[s] + n BY <1>1, <1>2, TotalUpdate DEF LiveCount
<1> DEFINE p == s * n
<1> HIDE DEF w, p
<1>8. Total([w EXCEPT ![s] = p]) = Total(w) - w[s] + p
  BY <1>1, <1>3, <1>6, TotalUpdate DEF p
<1>9. QED BY <1>4, <1>5, <1>7, <1>8 DEF LiveBytes, w, p

(* Thread t moves every counter by what it moves its own entry. *)
Balanced(t) ==
  LET before(pcs) == Held(call[t], pcs)
      after(pcs) == Held(call'[t], pcs)
      one(pcs) == One(call'[t], pcs) - One(call[t], pcs)
  IN /\ wm'.allocated - LiveBytes' - after(InWatermark) =
          wm.allocated - LiveBytes - before(InWatermark)
     /\ st'.bytes - wm'.allocated - after(InStatistics) =
          st.bytes - wm.allocated - before(InStatistics)
     /\ inner'.used - st'.bytes - after(InInner) = inner.used - st.bytes - before(InInner)
     /\ st'.allocs - st'.frees - LiveCount' = st.allocs - st.frees - LiveCount + one(Counted)
     /\ seen'.calls - st'.allocs - st'.failures =
          seen.calls - st.allocs - st.failures + one(Uncounted)
     /\ st'.failures - seen'.ooms = st.failures - seen.ooms + one({"oom"})

LEMMA BooksMove ==
  ASSUME Types, Types', Books, NEW t \in Threads,
         \A u \in Threads : u # t => call'[u] = call[u], Balanced(t)
  PROVE  Books'
<1>1. call \in [Threads -> Calls] /\ call' \in [Threads -> Calls] BY DEF Types
<1>2. ASSUME NEW pcs
      PROVE  /\ InFlight(call', pcs) = InFlight(call, pcs) - Held(call[t], pcs)
                                         + Held(call'[t], pcs)
             /\ Count(call', pcs) = Count(call, pcs) - One(call[t], pcs) + One(call'[t], pcs)
             /\ InFlight(call, pcs) \in Nat /\ Count(call, pcs) \in Nat
             /\ Held(call[t], pcs) \in Nat /\ Held(call'[t], pcs) \in Nat
             /\ One(call[t], pcs) \in Nat /\ One(call'[t], pcs) \in Nat
  <2>1. InFlight(call, pcs) \in Nat /\ Count(call, pcs) \in Nat BY SumTypes
  <2>2. /\ Held(call[t], pcs) \in Nat /\ Held(call'[t], pcs) \in Nat
        /\ One(call[t], pcs) \in Nat /\ One(call'[t], pcs) \in Nat
    BY <1>1 DEF Held, One, Calls
  <2>3. QED BY <1>1, <2>1, <2>2, SumMove
<1>3. LiveBytes \in Nat /\ LiveCount \in Nat /\ LiveBytes' \in Nat /\ LiveCount' \in Nat
  <2>1. live' \in [Sizes -> Nat] /\ [x \in Sizes |-> x * live'[x]] \in [Sizes -> Nat]
    BY ObserversAssumption DEF Types
  <2>2. QED BY <2>1, SumTypes, UnitsFinite, ObserversAssumption DEF LiveBytes, LiveCount
<1>4. /\ wm.allocated \in Int /\ st.bytes \in Int /\ inner.used \in Int /\ st.allocs \in Int
      /\ st.frees \in Int /\ st.failures \in Int /\ seen.calls \in Int /\ seen.ooms \in Int
      /\ wm'.allocated \in Int /\ st'.bytes \in Int /\ inner'.used \in Int
      /\ st'.allocs \in Int /\ st'.frees \in Int /\ st'.failures \in Int
      /\ seen'.calls \in Int /\ seen'.ooms \in Int
  BY DEF Types
<1>5. (wm.allocated = LiveBytes + InFlight(call, InWatermark))'
  <2>1. InFlight(call', InWatermark) =
          InFlight(call, InWatermark) - Held(call[t], InWatermark) + Held(call'[t], InWatermark)
    BY <1>2
  <2>2. QED BY <1>2, <1>3, <1>4, <2>1 DEF Books, Balanced
<1>6. (st.bytes = wm.allocated + InFlight(call, InStatistics))'
  <2>1. InFlight(call', InStatistics) =
          InFlight(call, InStatistics) - Held(call[t], InStatistics) + Held(call'[t], InStatistics)
    BY <1>2
  <2>2. QED BY <1>2, <1>3, <1>4, <2>1 DEF Books, Balanced
<1>7. (inner.used = st.bytes + InFlight(call, InInner))'
  <2>1. InFlight(call', InInner) =
          InFlight(call, InInner) - Held(call[t], InInner) + Held(call'[t], InInner)
    BY <1>2
  <2>2. QED BY <1>2, <1>3, <1>4, <2>1 DEF Books, Balanced
<1>8. (st.allocs - st.frees = LiveCount + Count(call, Counted))'
  <2>1. Count(call', Counted) =
          Count(call, Counted) - One(call[t], Counted) + One(call'[t], Counted)
    BY <1>2
  <2>2. QED BY <1>2, <1>3, <1>4, <2>1 DEF Books, Balanced
<1>9. (st.failures = seen.ooms + Count(call, {"oom"}))'
  <2>1. Count(call', {"oom"}) =
          Count(call, {"oom"}) - One(call[t], {"oom"}) + One(call'[t], {"oom"})
    BY <1>2
  <2>2. QED BY <1>2, <1>3, <1>4, <2>1 DEF Books, Balanced
<1>10. (seen.calls = st.allocs + st.failures + Count(call, Uncounted))'
  <2>1. Count(call', Uncounted) =
          Count(call, Uncounted) - One(call[t], Uncounted) + One(call'[t], Uncounted)
    BY <1>2
  <2>2. QED BY <1>2, <1>3, <1>4, <2>1 DEF Books, Balanced
<1>11. QED BY <1>5, <1>6, <1>7, <1>8, <1>9, <1>10 DEF Books

LEMMA BooksInit == Init => Books
<1> SUFFICES ASSUME Init PROVE Books OBVIOUS
<1>1. ASSUME NEW pcs, "idle" \notin pcs
      PROVE  InFlight(call, pcs) = 0 /\ Count(call, pcs) = 0
  <2>1. \A t \in Threads : Held(call[t], pcs) = 0 /\ One(call[t], pcs) = 0
    BY <1>1 DEF Init, Idle, Held, One
  <2> DEFINE w == [t \in Threads |-> Held(call[t], pcs)]
             n == [t \in Threads |-> One(call[t], pcs)]
  <2>2. /\ w \in [Threads -> Nat] /\ n \in [Threads -> Nat]
        /\ \A t \in Threads : w[t] = 0 /\ n[t] = 0
    BY <2>1
  <2> HIDE DEF w, n
  <2>3. Total(w) = 0 /\ Total(n) = 0 BY <2>2, TotalZero
  <2>4. QED BY <2>3 DEF InFlight, Count, w, n
<1>2. LiveCount = 0
  BY TotalZero DEF Init, LiveCount
<1>3. LiveBytes = 0
  <2> DEFINE w == [s \in Sizes |-> s * live[s]]
  <2>1. w \in [Sizes -> Nat] /\ \A s \in Sizes : w[s] = 0
    BY ObserversAssumption DEF Init
  <2> HIDE DEF w
  <2>2. Total(w) = 0 BY <2>1, TotalZero
  <2>3. QED BY <2>2 DEF LiveBytes, w
<1>4. /\ InFlight(call, InWatermark) = 0 /\ InFlight(call, InStatistics) = 0
      /\ InFlight(call, InInner) = 0 /\ Count(call, Counted) = 0
      /\ Count(call, Uncounted) = 0 /\ Count(call, {"oom"}) = 0
  BY <1>1 DEF InWatermark, InStatistics, InInner, Counted, Uncounted
<1>5. /\ wm.allocated = 0 /\ st.bytes = 0 /\ inner.used = 0 /\ st.allocs = 0 /\ st.frees = 0
      /\ st.failures = 0 /\ seen.calls = 0 /\ seen.ooms = 0
  BY DEF Init
<1>6. QED BY <1>2, <1>3, <1>4, <1>5 DEF Books

LEMMA BooksStep == Types /\ Books /\ [Next]_vars => Books'
<1> SUFFICES ASSUME Types, Books, [Next]_vars PROVE Books' OBVIOUS
<1>0. Types' BY TypesStep
<1>a. live' = live => LiveBytes' = LiveBytes /\ LiveCount' = LiveCount
  BY DEF LiveBytes, LiveCount
<1>b. ASSUME NEW s \in Sizes, HandOut(s)
      PROVE  LiveBytes' = LiveBytes + s /\ LiveCount' = LiveCount + 1
  <2>1. live[s] \in Nat /\ s \in Nat BY ObserversAssumption DEF Types
  <2> DEFINE n == live[s] + 1
  <2>2. live' = [live EXCEPT ![s] = n] /\ n \in Nat BY <1>b, <2>1 DEF HandOut
  <2> HIDE DEF n
  <2>3. /\ LiveBytes' = LiveBytes - s * live[s] + s * n
        /\ LiveCount' = LiveCount - live[s] + n
    BY <2>2, LiveMove
  <2>4. LiveBytes \in Nat /\ LiveCount \in Nat BY SumTypes
  <2>5. s * n = s * live[s] + s /\ s * live[s] \in Nat BY <2>1 DEF n
  <2>6. QED BY <2>1, <2>3, <2>4, <2>5 DEF n
<1>c. \A t \in Threads : /\ call[t].size \in Nat
                         /\ call[t].pc # "idle" => call[t].size \in Sizes
  BY DEF Types, Calls
<1>f. ASSUME NEW t \in Threads, call[t].pc # "idle", HandOut(call[t].size)
      PROVE  LiveBytes' = LiveBytes + call[t].size /\ LiveCount' = LiveCount + 1
  BY <1>b, <1>c, <1>f
<1>d. LiveBytes \in Nat /\ LiveCount \in Nat BY SumTypes
<1>e. /\ wm.allocated \in Int /\ st.bytes \in Int /\ inner.used \in Int /\ st.allocs \in Int
      /\ st.frees \in Int /\ st.failures \in Int /\ seen.calls \in Int /\ seen.ooms \in Int
  BY DEF Types
<1>1. CASE UNCHANGED vars
  BY <1>1, <1>a DEF vars, Books
<1>2. CASE Rearm
  <2>1. wm'.allocated = wm.allocated /\ seen'.calls = seen.calls /\ seen'.ooms = seen.ooms
    BY <1>2 DEF Rearm, Types
  <2>2. UNCHANGED <<inner, st, call, live>> BY <1>2 DEF Rearm
  <2>3. QED BY <1>a, <2>1, <2>2 DEF Books
<1>3. ASSUME NEW t \in Threads, NEW s \in Sizes, StartAllocate(t, s) PROVE Books'
  <2>1. Enters(t, "policy", s) BY <1>3, Entries
  <2>2. /\ seen'.calls = seen.calls + 1 /\ seen'.ooms = seen.ooms
        /\ UNCHANGED <<inner, st, wm, live>>
    BY <1>3 DEF StartAllocate, Types
  <2>3. Balanced(t)
    BY <1>a, <1>c, <1>d, <1>e, <2>1, <2>2
       DEF Enters, Balanced, Held, One, InWatermark, InStatistics, InInner, Counted, Uncounted
  <2>4. QED BY <1>0, <2>1, <2>3, BooksMove DEF Enters
<1>4. ASSUME NEW t \in Threads, NEW s \in Sizes, StartDeallocate(t, s) PROVE Books'
  <2>1. Enters(t, "wm_sub", s) BY <1>4, Entries
  <2>2. UNCHANGED <<inner, st, wm, seen>> BY <1>4 DEF StartDeallocate
  <2>3. LiveBytes' = LiveBytes - s /\ LiveCount' = LiveCount - 1
    <3>1. live[s] \in Nat /\ live[s] - 1 \in Nat /\ s \in Nat
      BY <1>4, ObserversAssumption DEF StartDeallocate, Types
    <3>2. live' = [live EXCEPT ![s] = live[s] - 1] BY <1>4 DEF StartDeallocate
    <3>3. /\ LiveBytes' = LiveBytes - s * live[s] + s * (live[s] - 1)
          /\ LiveCount' = LiveCount - live[s] + (live[s] - 1)
      BY <3>1, <3>2, LiveMove
    <3>4. QED BY <1>d, <3>1, <3>3
  <2>4. Balanced(t)
    BY <1>c, <1>d, <1>e, <2>1, <2>2, <2>3, ObserversAssumption
       DEF Enters, Balanced, Held, One, InWatermark, InStatistics, InInner, Counted, Uncounted
  <2>5. QED BY <1>0, <2>1, <2>4, BooksMove DEF Enters
<1>5. ASSUME NEW t \in Threads, AskPolicy(t) PROVE Books'
  <2>1. \E to \in {"err_mirror", "inner"} : Moves(t, "policy", to, 0) BY <1>5, Journeys
  <2>2. UNCHANGED <<inner, st, wm, live>> /\ seen'.calls = seen.calls /\ seen'.ooms = seen.ooms
    BY <1>c, <1>5 DEF AskPolicy, Types
  <2>3. Balanced(t)
    BY <1>a, <1>c, <1>d, <1>e, <2>1, <2>2
       DEF Moves, Balanced, Held, One, InWatermark, InStatistics, InInner, Counted, Uncounted
  <2>4. QED BY <1>0, <2>1, <2>3, BooksMove DEF Moves
<1>6. ASSUME NEW t \in Threads, FailAfterLoad(t) PROVE Books'
  <2>1. \E to \in {"err_mirror", "cas"}, v \in Int : Moves(t, "policy", to, v)
    BY <1>6, Journeys
  <2>2. UNCHANGED <<inner, st, wm, live>> /\ seen'.calls = seen.calls /\ seen'.ooms = seen.ooms
    BY <1>c, <1>6 DEF FailAfterLoad, Types
  <2>3. Balanced(t)
    BY <1>a, <1>c, <1>d, <1>e, <2>1, <2>2
       DEF Moves, Balanced, Held, One, InWatermark, InStatistics, InInner, Counted, Uncounted
  <2>4. QED BY <1>0, <2>1, <2>3, BooksMove DEF Moves
<1>7. ASSUME NEW t \in Threads, FailAfterCas(t) PROVE Books'
  <2>1. \E to \in {"inner", "policy"} : Moves(t, "cas", to, 0) BY <1>7, Journeys
  <2>2. UNCHANGED <<inner, st, wm, live>> /\ seen'.calls = seen.calls /\ seen'.ooms = seen.ooms
    BY <1>c, <1>7 DEF FailAfterCas, Types
  <2>3. Balanced(t)
    BY <1>a, <1>c, <1>d, <1>e, <2>1, <2>2
       DEF Moves, Balanced, Held, One, InWatermark, InStatistics, InInner, Counted, Uncounted
  <2>4. QED BY <1>0, <2>1, <2>3, BooksMove DEF Moves
<1>8. ASSUME NEW t \in Threads, InnerAllocate(t) PROVE Books'
  <2>1. \/ /\ inner'.used = inner.used + call[t].size
           /\ Moves(t, "inner", "mirror", inner'.corrupt)
        \/ inner'.used = inner.used /\ Moves(t, "inner", "err_mirror", inner'.corrupt)
    BY <1>8, Served
  <2>2. UNCHANGED <<st, wm, live>> /\ seen'.calls = seen.calls /\ seen'.ooms = seen.ooms
    BY <1>8, Served DEF InnerAllocate, Types
  <2>3. Balanced(t)
    BY <1>a, <1>c, <1>d, <1>e, <2>1, <2>2
       DEF Moves, Balanced, Held, One, InWatermark, InStatistics, InInner, Counted, Uncounted
  <2>4. QED BY <1>0, <2>1, <2>3, BooksMove DEF Moves
<1>9. ASSUME NEW t \in Threads, Mirror(t) PROVE Books'
  <2>1. \/ Moves(t, "mirror", "count", 0)
        \/ Moves(t, "err_mirror", "failure", 0)
        \/ Moves(t, "free_mirror", "free", 0)
    BY <1>9, Journeys
  <2>2. UNCHANGED <<inner, wm, live, seen>>
        /\ st'.allocs = st.allocs /\ st'.frees = st.frees
        /\ st'.bytes = st.bytes /\ st'.failures = st.failures
    BY <1>c, <1>9 DEF Mirror, Types, MirrorMax, Bigger
  <2>3. Balanced(t)
    BY <1>a, <1>c, <1>d, <1>e, <2>1, <2>2
       DEF Moves, Balanced, Held, One, InWatermark, InStatistics, InInner, Counted, Uncounted
  <2>4. QED BY <1>0, <2>1, <2>3, BooksMove DEF Moves
<1>10. ASSUME NEW t \in Threads, CountAllocation(t) PROVE Books'
  <2>1. Moves(t, "count", "bytes", 0) BY <1>10, Journeys
  <2>2. UNCHANGED <<inner, wm, live, seen>>
        /\ st'.allocs = st.allocs + 1 /\ st'.frees = st.frees
        /\ st'.bytes = st.bytes /\ st'.failures = st.failures
    BY <1>c, <1>10 DEF CountAllocation, Types
  <2>3. Balanced(t)
    BY <1>a, <1>c, <1>d, <1>e, <2>1, <2>2
       DEF Moves, Balanced, Held, One, InWatermark, InStatistics, InInner, Counted, Uncounted
  <2>4. QED BY <1>0, <2>1, <2>3, BooksMove DEF Moves
<1>11. ASSUME NEW t \in Threads, AddBytes(t) PROVE Books'
  <2>1. Moves(t, "bytes", "peak", st'.bytes) BY <1>11, Journeys
  <2>2. UNCHANGED <<inner, wm, live>> /\ seen'.calls = seen.calls /\ seen'.ooms = seen.ooms
        /\ st'.allocs = st.allocs /\ st'.frees = st.frees
        /\ st'.bytes = st.bytes + call[t].size /\ st'.failures = st.failures
    BY <1>c, <1>11 DEF AddBytes, Types
  <2>3. Balanced(t)
    BY <1>a, <1>c, <1>d, <1>e, <2>1, <2>2
       DEF Moves, Balanced, Held, One, InWatermark, InStatistics, InInner, Counted, Uncounted
  <2>4. QED BY <1>0, <2>1, <2>3, BooksMove DEF Moves
<1>12. ASSUME NEW t \in Threads, RaisePeak(t) PROVE Books'
  <2>1. Moves(t, "peak", "watermark", 0) BY <1>12, Journeys
  <2>2. UNCHANGED <<inner, wm, live, seen>>
        /\ st'.allocs = st.allocs /\ st'.frees = st.frees
        /\ st'.bytes = st.bytes /\ st'.failures = st.failures
    BY <1>c, <1>12 DEF RaisePeak, Types, PeakMax, Bigger
  <2>3. Balanced(t)
    BY <1>a, <1>c, <1>d, <1>e, <2>1, <2>2
       DEF Moves, Balanced, Held, One, InWatermark, InStatistics, InInner, Counted, Uncounted
  <2>4. QED BY <1>0, <2>1, <2>3, BooksMove DEF Moves
<1>13. ASSUME NEW t \in Threads, CountFailure(t) PROVE Books'
  <2>1. Moves(t, "failure", "oom", 0) BY <1>13, Journeys
  <2>2. UNCHANGED <<inner, wm, live, seen>>
        /\ st'.allocs = st.allocs /\ st'.frees = st.frees
        /\ st'.bytes = st.bytes /\ st'.failures = st.failures + 1
    BY <1>c, <1>13 DEF CountFailure, Types
  <2>3. Balanced(t)
    BY <1>a, <1>c, <1>d, <1>e, <2>1, <2>2
       DEF Moves, Balanced, Held, One, InWatermark, InStatistics, InInner, Counted, Uncounted
  <2>4. QED BY <1>0, <2>1, <2>3, BooksMove DEF Moves
<1>14. ASSUME NEW t \in Threads, OnOom(t) PROVE Books'
  <2>1. Returns(t, "oom") BY <1>14, Journeys
  <2>2. UNCHANGED <<inner, st, wm, live>> /\ seen'.calls = seen.calls
        /\ seen'.ooms = seen.ooms + 1
    BY <1>c, <1>14 DEF OnOom, Types
  <2>3. Balanced(t)
    BY <1>a, <1>c, <1>d, <1>e, <2>1, <2>2
       DEF Returns, Balanced, Held, One, InWatermark, InStatistics, InInner, Counted, Uncounted
  <2>4. QED BY <1>0, <2>1, <2>3, BooksMove DEF Returns
<1>15. ASSUME NEW t \in Threads, WatermarkAdd(t) PROVE Books'
  <2>1. UNCHANGED <<inner, st>> /\ seen'.calls = seen.calls /\ seen'.ooms = seen.ooms
        /\ wm'.allocated = wm.allocated + call[t].size
    BY <1>c, <1>15 DEF WatermarkAdd, Types
  <2>2. \/ Moves(t, "watermark", "capacity", wm'.allocated) /\ live' = live
        \/ Returns(t, "watermark") /\ HandOut(call[t].size)
    BY <1>15, Journeys
  <2>3. Balanced(t)
    <3>1. CASE Moves(t, "watermark", "capacity", wm'.allocated) /\ live' = live
      BY <1>a, <1>c, <1>d, <1>e, <2>1, <3>1
         DEF Moves, Balanced, Held, One, InWatermark, InStatistics, InInner, Counted, Uncounted
    <3>2. CASE Returns(t, "watermark") /\ HandOut(call[t].size)
      <4>1. LiveBytes' = LiveBytes + call[t].size /\ LiveCount' = LiveCount + 1
        BY <1>f, <3>2 DEF Returns
      <4>2. QED
        BY <1>c, <1>d, <1>e, <2>1, <3>2, <4>1
           DEF Returns, Balanced, Held, One, InWatermark, InStatistics, InInner, Counted,
               Uncounted
    <3>3. QED BY <2>2, <3>1, <3>2
  <2>4. QED BY <1>0, <2>2, <2>3, BooksMove DEF Moves, Returns
<1>16. ASSUME NEW t \in Threads, CheckCapacity(t) PROVE Books'
  <2>1. UNCHANGED <<inner, st, wm, seen>> BY <1>16 DEF CheckCapacity
  <2>2. \/ /\ live' = live
           /\ \E to \in {"fire_critical", "fire_warn"} : Moves(t, "capacity", to, 0)
        \/ Returns(t, "capacity") /\ HandOut(call[t].size)
    BY <1>16, Journeys
  <2>3. Balanced(t)
    <3>1. CASE /\ live' = live
               /\ \E to \in {"fire_critical", "fire_warn"} : Moves(t, "capacity", to, 0)
      BY <1>a, <1>c, <1>d, <1>e, <2>1, <3>1
         DEF Moves, Balanced, Held, One, InWatermark, InStatistics, InInner, Counted, Uncounted
    <3>2. CASE Returns(t, "capacity") /\ HandOut(call[t].size)
      <4>1. LiveBytes' = LiveBytes + call[t].size /\ LiveCount' = LiveCount + 1
        BY <1>f, <3>2 DEF Returns
      <4>2. QED
        BY <1>c, <1>d, <1>e, <2>1, <3>2, <4>1
           DEF Returns, Balanced, Held, One, InWatermark, InStatistics, InInner, Counted,
               Uncounted
    <3>3. QED BY <2>2, <3>1, <3>2
  <2>4. QED BY <1>0, <2>2, <2>3, BooksMove DEF Moves, Returns
<1>17. ASSUME NEW t \in Threads, NEW l \in {"warn", "critical"}, Fire(t, l) PROVE Books'
  <2>1. UNCHANGED <<inner, st, seen>> /\ wm'.allocated = wm.allocated
    BY <1>17 DEF Fire, Types
  <2>2. \E from \in {"fire_critical", "fire_warn"} :
          \/ live' = live /\ \E to \in {"warn", "critical"} : Moves(t, from, to, 0)
          \/ Returns(t, from) /\ HandOut(call[t].size)
    BY <1>17, Journeys
  <2>3. Balanced(t)
    <3>1. CASE /\ live' = live
               /\ \E from \in {"fire_critical", "fire_warn"}, to \in {"warn", "critical"} :
                    Moves(t, from, to, 0)
      BY <1>a, <1>c, <1>d, <1>e, <2>1, <3>1
         DEF Moves, Balanced, Held, One, InWatermark, InStatistics, InInner, Counted, Uncounted
    <3>2. CASE /\ HandOut(call[t].size)
               /\ \E from \in {"fire_critical", "fire_warn"} : Returns(t, from)
      <4>1. LiveBytes' = LiveBytes + call[t].size /\ LiveCount' = LiveCount + 1
        BY <1>f, <3>2 DEF Returns
      <4>2. QED
        BY <1>c, <1>d, <1>e, <2>1, <3>2, <4>1
           DEF Returns, Balanced, Held, One, InWatermark, InStatistics, InInner, Counted,
               Uncounted
    <3>3. QED BY <2>2, <3>1, <3>2
  <2>4. QED BY <1>0, <2>2, <2>3, BooksMove DEF Moves, Returns
<1>18. ASSUME NEW t \in Threads, OnWarn(t) PROVE Books'
  <2>1. Returns(t, "warn") BY <1>18, Journeys
  <2>2. UNCHANGED <<inner, st, wm>> /\ seen'.calls = seen.calls /\ seen'.ooms = seen.ooms
        /\ HandOut(call[t].size)
    BY <1>c, <1>18 DEF OnWarn, Types
  <2>3. LiveBytes' = LiveBytes + call[t].size /\ LiveCount' = LiveCount + 1
    BY <1>f, <2>1, <2>2 DEF Returns
  <2>4. Balanced(t)
    BY <1>c, <1>d, <1>e, <2>1, <2>2, <2>3
       DEF Returns, Balanced, Held, One, InWatermark, InStatistics, InInner, Counted, Uncounted
  <2>5. QED BY <1>0, <2>1, <2>4, BooksMove DEF Returns
<1>19. ASSUME NEW t \in Threads, OnCritical(t) PROVE Books'
  <2>1. Returns(t, "critical") BY <1>19, Journeys
  <2>2. UNCHANGED <<inner, st, wm>> /\ seen'.calls = seen.calls /\ seen'.ooms = seen.ooms
        /\ HandOut(call[t].size)
    BY <1>c, <1>19 DEF OnCritical, Types
  <2>3. LiveBytes' = LiveBytes + call[t].size /\ LiveCount' = LiveCount + 1
    BY <1>f, <2>1, <2>2 DEF Returns
  <2>4. Balanced(t)
    BY <1>c, <1>d, <1>e, <2>1, <2>2, <2>3
       DEF Returns, Balanced, Held, One, InWatermark, InStatistics, InInner, Counted, Uncounted
  <2>5. QED BY <1>0, <2>1, <2>4, BooksMove DEF Returns
<1>20. ASSUME NEW t \in Threads, WatermarkSub(t) PROVE Books'
  <2>1. Moves(t, "wm_sub", "count_free", 0) BY <1>20, Journeys
  <2>2. UNCHANGED <<inner, st, live, seen>> /\ wm'.allocated = wm.allocated - call[t].size
    BY <1>c, <1>20 DEF WatermarkSub, Types
  <2>3. Balanced(t)
    BY <1>a, <1>c, <1>d, <1>e, <2>1, <2>2
       DEF Moves, Balanced, Held, One, InWatermark, InStatistics, InInner, Counted, Uncounted
  <2>4. QED BY <1>0, <2>1, <2>3, BooksMove DEF Moves
<1>21. ASSUME NEW t \in Threads, CountFree(t) PROVE Books'
  <2>1. Moves(t, "count_free", "sub_bytes", 0) BY <1>21, Journeys
  <2>2. UNCHANGED <<inner, wm, live, seen>>
        /\ st'.allocs = st.allocs /\ st'.frees = st.frees + 1
        /\ st'.bytes = st.bytes /\ st'.failures = st.failures
    BY <1>c, <1>21 DEF CountFree, Types
  <2>3. Balanced(t)
    BY <1>a, <1>c, <1>d, <1>e, <2>1, <2>2
       DEF Moves, Balanced, Held, One, InWatermark, InStatistics, InInner, Counted, Uncounted
  <2>4. QED BY <1>0, <2>1, <2>3, BooksMove DEF Moves
<1>22. ASSUME NEW t \in Threads, SubBytes(t) PROVE Books'
  <2>1. Moves(t, "sub_bytes", "free_mirror", 0) BY <1>22, Journeys
  <2>2. UNCHANGED <<inner, wm, live, seen>>
        /\ st'.allocs = st.allocs /\ st'.frees = st.frees
        /\ st'.bytes = st.bytes - call[t].size /\ st'.failures = st.failures
    BY <1>c, <1>22 DEF SubBytes, Types
  <2>3. Balanced(t)
    BY <1>a, <1>c, <1>d, <1>e, <2>1, <2>2
       DEF Moves, Balanced, Held, One, InWatermark, InStatistics, InInner, Counted, Uncounted
  <2>4. QED BY <1>0, <2>1, <2>3, BooksMove DEF Moves
<1>23. ASSUME NEW t \in Threads, InnerDeallocate(t) PROVE Books'
  <2>1. Returns(t, "free") BY <1>23, Journeys
  <2>2. UNCHANGED <<st, wm, live, seen>> /\ inner'.used = inner.used - call[t].size
    BY <1>c, <1>23 DEF InnerDeallocate, Types
  <2>3. Balanced(t)
    BY <1>a, <1>c, <1>d, <1>e, <2>1, <2>2
       DEF Returns, Balanced, Held, One, InWatermark, InStatistics, InInner, Counted, Uncounted
  <2>4. QED BY <1>0, <2>1, <2>3, BooksMove DEF Returns
<1>24. QED
  BY <1>1, <1>2, <1>3, <1>4, <1>5, <1>6, <1>7, <1>8, <1>9, <1>10, <1>11, <1>12, <1>13, <1>14,
     <1>15, <1>16, <1>17, <1>18, <1>19, <1>20, <1>21, <1>22, <1>23 DEF Next

-----------------------------------------------------------------------------
(* The high-water marks and the mirrored corruption counter: what is not   *)
(* recorded yet, some thread is about to record.                           *)
Mirroring == {"mirror", "err_mirror", "free_mirror"}

LevelsHold ==
  /\ inner.used <= inner.cap /\ conf.cap <= inner.cap /\ inner.cap <= conf.grown
  /\ inner.used <= seen.maxUsed /\ seen.maxBytes <= seen.maxUsed
  /\ 0 <= seen.maxWm /\ seen.maxWm <= inner.cap

PeakHolds ==
  /\ st.peak <= seen.maxBytes
  /\ \A t \in Threads : At(t, "peak") => call[t].val <= seen.maxBytes
  /\ st.peak < seen.maxBytes =>
       \E t \in Threads : At(t, "peak") /\ call[t].val = seen.maxBytes

MirrorHolds ==
  /\ st.mirror <= inner.corrupt
  /\ \A t \in Threads : call[t].pc \in Mirroring => call[t].val <= inner.corrupt
  /\ st.mirror < seen.reported =>
       \E t \in Threads : call[t].pc \in {"mirror", "err_mirror"}
                          /\ call[t].val >= seen.reported

Highs == LevelsHold /\ PeakHolds /\ MirrorHolds

LEMMA SumTypesNext ==
  ASSUME Types', NEW pcs
  PROVE  InFlight(call', pcs) \in Nat /\ Count(call', pcs) \in Nat
<1>1. IsFiniteSet(Threads) BY ObserversAssumption
<1>2. [t \in Threads |-> Held(call'[t], pcs)] \in [Threads -> Nat] BY DEF Types, Calls, Held
<1>3. [t \in Threads |-> One(call'[t], pcs)] \in [Threads -> Nat] BY DEF One
<1>4. QED BY <1>1, <1>2, <1>3, UnitsFinite DEF InFlight, Count

LEMMA HighsInit == Init => Highs
BY ConfigIs DEF Init, Highs, LevelsHold, PeakHolds, MirrorHolds, At, Idle, Mirroring

(* A step that touches no mark, by a thread that holds none. *)
LEMMA HighsKept ==
  ASSUME Types, Highs, NEW t \in Threads, conf' = conf, inner' = inner,
         st'.peak = st.peak, st'.mirror = st.mirror, seen'.maxUsed = seen.maxUsed,
         seen'.maxBytes = seen.maxBytes, seen'.maxWm = seen.maxWm,
         seen'.reported = seen.reported,
         \A u \in Threads : u # t => call'[u] = call[u],
         call[t].pc \notin {"peak", "mirror", "err_mirror"},
         call'[t].pc # "peak", call'[t].pc \in Mirroring => call'[t].val = 0
  PROVE  Highs'
<1>1. inner.corrupt \in Nat BY ObserversAssumption DEF Types
<1>2. \A u \in Threads : At(u, "peak")' => u # t /\ At(u, "peak") /\ call'[u] = call[u]
  BY DEF At
<1>3. \A u \in Threads : At(u, "peak") => u # t /\ call'[u] = call[u]
  BY DEF At
<1>4. LevelsHold' BY DEF Highs, LevelsHold
<1>5. PeakHolds' BY <1>2, <1>3 DEF Highs, PeakHolds, At
<1>6. MirrorHolds' BY <1>1 DEF Highs, MirrorHolds
<1>7. QED BY <1>4, <1>5, <1>6 DEF Highs

LEMMA HighsStep == Types /\ Books /\ Highs /\ [Next]_vars => Highs'
<1> SUFFICES ASSUME Types, Books, Highs, [Next]_vars PROVE Highs' OBVIOUS
<1>0. Types' /\ Books' BY TypesStep, BooksStep
<1>a. /\ inner.used \in Int /\ inner.cap \in Int /\ inner.corrupt \in Int /\ MaxCorrupt \in Int
      /\ seen.maxUsed \in Int /\ seen.maxBytes \in Int /\ seen.maxWm \in Int
      /\ seen.reported \in Int /\ st.peak \in Int /\ st.mirror \in Int
      /\ \A t \in Threads : call[t].val \in Int /\ call[t].size \in Nat
      /\ conf.cap \in Nat /\ conf.grown \in Nat /\ conf.cap <= conf.grown
  BY ConfigIs, ObserversAssumption DEF Types, Calls
<1>b. /\ inner'.used \in Int /\ inner'.cap \in Int /\ inner'.corrupt \in Int
      /\ st'.bytes \in Int /\ wm'.allocated \in Int
  BY <1>0, ObserversAssumption DEF Types
<1> USE DEF LevelsHold, PeakHolds, MirrorHolds, At, Mirroring, Bigger
<1>1. CASE UNCHANGED vars BY <1>1 DEF vars, Highs
<1>2. CASE Rearm
  <2>1. /\ seen'.maxWm = 0 /\ seen'.maxUsed = seen.maxUsed /\ seen'.maxBytes = seen.maxBytes
        /\ seen'.reported = seen.reported /\ UNCHANGED <<conf, inner, st, call>>
    BY <1>2 DEF Rearm, Types
  <2>2. QED BY <1>a, <2>1 DEF Highs
<1>3. ASSUME NEW t \in Threads, NEW s \in Sizes, StartAllocate(t, s) PROVE Highs'
  <2>1. Enters(t, "policy", s) BY <1>3, Entries
  <2>2. /\ UNCHANGED <<conf, inner, st>>
        /\ seen'.maxUsed = seen.maxUsed /\ seen'.maxBytes = seen.maxBytes
        /\ seen'.maxWm = seen.maxWm /\ seen'.reported = seen.reported
    BY <1>3 DEF StartAllocate, Types
  <2>3. QED BY <2>1, <2>2, HighsKept DEF Enters, Mirroring
<1>4. ASSUME NEW t \in Threads, NEW s \in Sizes, StartDeallocate(t, s) PROVE Highs'
  <2>1. Enters(t, "wm_sub", s) BY <1>4, Entries
  <2>2. UNCHANGED <<conf, inner, st, seen>>
    BY <1>4 DEF StartDeallocate, Types
  <2>3. QED BY <2>1, <2>2, HighsKept DEF Enters, Mirroring
<1>5. ASSUME NEW t \in Threads, AskPolicy(t) PROVE Highs'
  <2>1. \E to \in {"err_mirror", "inner"} : Moves(t, "policy", to, 0) BY <1>5, Journeys
  <2>2. /\ UNCHANGED <<conf, inner, st>>
        /\ seen'.maxUsed = seen.maxUsed /\ seen'.maxBytes = seen.maxBytes
        /\ seen'.maxWm = seen.maxWm /\ seen'.reported = seen.reported
    BY <1>5 DEF AskPolicy, Types
  <2>3. QED BY <2>1, <2>2, HighsKept DEF Moves, Mirroring
<1>6. ASSUME NEW t \in Threads, FailAfterLoad(t) PROVE Highs'
  <2>1. \/ Moves(t, "policy", "err_mirror", 0)
        \/ \E v \in Int : Moves(t, "policy", "cas", v)
    BY <1>6, Journeys
  <2>2. /\ UNCHANGED <<conf, inner, st>>
        /\ seen'.maxUsed = seen.maxUsed /\ seen'.maxBytes = seen.maxBytes
        /\ seen'.maxWm = seen.maxWm /\ seen'.reported = seen.reported
    BY <1>6 DEF FailAfterLoad, Types
  <2>3. QED BY <2>1, <2>2, HighsKept DEF Moves, Mirroring
<1>7. ASSUME NEW t \in Threads, FailAfterCas(t) PROVE Highs'
  <2>1. \E to \in {"inner", "policy"} : Moves(t, "cas", to, 0) BY <1>7, Journeys
  <2>2. /\ UNCHANGED <<conf, inner, st>>
        /\ seen'.maxUsed = seen.maxUsed /\ seen'.maxBytes = seen.maxBytes
        /\ seen'.maxWm = seen.maxWm /\ seen'.reported = seen.reported
    BY <1>7 DEF FailAfterCas, Types
  <2>3. QED BY <2>1, <2>2, HighsKept DEF Moves, Mirroring
<1>8. ASSUME NEW t \in Threads, InnerAllocate(t) PROVE Highs'
  <2>1. \E to \in {"mirror", "err_mirror"} : Moves(t, "inner", to, inner'.corrupt)
    BY <1>8, Journeys
  <2>2. UNCHANGED <<conf, st>> BY <1>8 DEF InnerAllocate
  <2>3. /\ inner'.corrupt >= inner.corrupt /\ inner'.corrupt \in Nat
        /\ inner'.cap \in {inner.cap, conf.grown}
        /\ \/ inner'.used <= inner'.cap
           \/ inner'.used = inner.used /\ inner'.cap = inner.cap
    BY <1>8, Served, ObserversAssumption DEF Types
  <2>4. /\ seen'.maxUsed = Bigger(seen.maxUsed, inner'.used) /\ seen'.reported = inner'.corrupt
        /\ seen'.maxBytes = seen.maxBytes /\ seen'.maxWm = seen.maxWm
    BY <1>8, Served DEF Types
  <2>5. inner'.cap >= inner.cap
    BY <1>a, <2>3 DEF Highs
  <2>a. LevelsHold' BY <1>a, <1>b, <2>1, <2>2, <2>3, <2>4, <2>5 DEF Highs
  <2>b. PeakHolds' BY <1>a, <1>b, <2>1, <2>2, <2>3, <2>4, <2>5 DEF Highs, Moves
  <2>c. MirrorHolds' BY <1>a, <1>b, <2>1, <2>2, <2>3, <2>4, <2>5 DEF Highs, Moves
  <2> QED BY <2>a, <2>b, <2>c DEF Highs
<1>9. ASSUME NEW t \in Threads, Mirror(t) PROVE Highs'
  <2>1. \/ Moves(t, "mirror", "count", 0)
        \/ Moves(t, "err_mirror", "failure", 0)
        \/ Moves(t, "free_mirror", "free", 0)
    BY <1>9, Journeys
  <2>2. PICK v \in call[t].val..inner.corrupt :
          st'.mirror = Bigger(st.mirror, v) /\ st'.peak = st.peak
    BY <1>9 DEF Mirror, MirrorMax, Types
  <2>3. UNCHANGED <<conf, inner, seen>> BY <1>9 DEF Mirror
  <2>a. LevelsHold' BY <1>a, <1>b, <2>1, <2>2, <2>3 DEF Highs
  <2>b. PeakHolds' BY <1>a, <1>b, <2>1, <2>2, <2>3 DEF Highs, Moves
  <2>c. MirrorHolds' BY <1>a, <1>b, <2>1, <2>2, <2>3 DEF Highs, Moves
  <2> QED BY <2>a, <2>b, <2>c DEF Highs
<1>10. ASSUME NEW t \in Threads, CountAllocation(t) PROVE Highs'
  <2>1. Moves(t, "count", "bytes", 0) BY <1>10, Journeys
  <2>2. UNCHANGED <<conf, inner, seen>>
        /\ st'.peak = st.peak /\ st'.mirror = st.mirror
    BY <1>10 DEF CountAllocation, Types
  <2>3. QED BY <2>1, <2>2, HighsKept DEF Moves, Mirroring
<1>11. ASSUME NEW t \in Threads, AddBytes(t) PROVE Highs'
  <2>1. Moves(t, "bytes", "peak", st'.bytes) BY <1>11, Journeys
  <2>2. /\ seen'.maxBytes = Bigger(seen.maxBytes, st'.bytes) /\ seen'.maxUsed = seen.maxUsed
        /\ seen'.maxWm = seen.maxWm /\ seen'.reported = seen.reported
        /\ st'.peak = st.peak /\ st'.mirror = st.mirror /\ UNCHANGED <<conf, inner>>
    BY <1>11 DEF AddBytes, Types
  <2>3. st'.bytes <= inner'.used
    BY <1>0, <1>b, SumTypesNext DEF Books
  <2>a. LevelsHold' BY <1>a, <1>b, <2>1, <2>2, <2>3 DEF Highs
  <2>b. PeakHolds' BY <1>a, <1>b, <2>1, <2>2, <2>3 DEF Highs, Moves
  <2>c. MirrorHolds' BY <1>a, <1>b, <2>1, <2>2, <2>3 DEF Highs, Moves
  <2> QED BY <2>a, <2>b, <2>c DEF Highs
<1>12. ASSUME NEW t \in Threads, RaisePeak(t) PROVE Highs'
  <2>1. Moves(t, "peak", "watermark", 0) BY <1>12, Journeys
  <2>2. /\ st'.peak = Bigger(st.peak, call[t].val) /\ st'.mirror = st.mirror
        /\ UNCHANGED <<conf, inner, seen>>
    BY <1>12 DEF RaisePeak, PeakMax, Types
  <2>a. LevelsHold' BY <1>a, <1>b, <2>1, <2>2 DEF Highs
  <2>b. PeakHolds' BY <1>a, <1>b, <2>1, <2>2 DEF Highs, Moves
  <2>c. MirrorHolds' BY <1>a, <1>b, <2>1, <2>2 DEF Highs, Moves
  <2> QED BY <2>a, <2>b, <2>c DEF Highs
<1>13. ASSUME NEW t \in Threads, CountFailure(t) PROVE Highs'
  <2>1. Moves(t, "failure", "oom", 0) BY <1>13, Journeys
  <2>2. UNCHANGED <<conf, inner, seen>>
        /\ st'.peak = st.peak /\ st'.mirror = st.mirror
    BY <1>13 DEF CountFailure, Types
  <2>3. QED BY <2>1, <2>2, HighsKept DEF Moves, Mirroring
<1>14. ASSUME NEW t \in Threads, OnOom(t) PROVE Highs'
  <2>1. Returns(t, "oom") BY <1>14, Journeys
  <2>2. /\ UNCHANGED <<conf, inner, st>>
        /\ seen'.maxUsed = seen.maxUsed /\ seen'.maxBytes = seen.maxBytes
        /\ seen'.maxWm = seen.maxWm /\ seen'.reported = seen.reported
    BY <1>14 DEF OnOom, Types
  <2>3. QED BY <2>1, <2>2, HighsKept DEF Returns, Mirroring
<1>15. ASSUME NEW t \in Threads, WatermarkAdd(t) PROVE Highs'
  <2>1. Moves(t, "watermark", "capacity", wm'.allocated) \/ Returns(t, "watermark")
    BY <1>15, Journeys
  <2>2. /\ seen'.maxWm = Bigger(seen.maxWm, wm'.allocated) /\ seen'.maxUsed = seen.maxUsed
        /\ seen'.maxBytes = seen.maxBytes /\ seen'.reported = seen.reported
        /\ UNCHANGED <<conf, inner, st>>
    BY <1>15 DEF WatermarkAdd, Types
  <2>3. wm'.allocated <= inner'.used
    BY <1>0, <1>b, SumTypesNext DEF Books
  <2>a. LevelsHold' BY <1>a, <1>b, <2>1, <2>2, <2>3 DEF Highs
  <2>b. PeakHolds' BY <1>a, <1>b, <2>1, <2>2, <2>3 DEF Highs, Moves, Returns
  <2>c. MirrorHolds' BY <1>a, <1>b, <2>1, <2>2, <2>3 DEF Highs, Moves, Returns
  <2> QED BY <2>a, <2>b, <2>c DEF Highs
<1>16. ASSUME NEW t \in Threads, CheckCapacity(t) PROVE Highs'
  <2>1. \/ \E to \in {"fire_critical", "fire_warn"} : Moves(t, "capacity", to, 0)
        \/ Returns(t, "capacity")
    BY <1>16, Journeys
  <2>2. UNCHANGED <<conf, inner, st, seen>>
    BY <1>16 DEF CheckCapacity, Types
  <2>3. QED BY <2>1, <2>2, HighsKept DEF Moves, Returns, Mirroring
<1>17. ASSUME NEW t \in Threads, NEW l \in {"warn", "critical"}, Fire(t, l) PROVE Highs'
  <2>1. \E from \in {"fire_critical", "fire_warn"} :
          \/ \E to \in {"warn", "critical"} : Moves(t, from, to, 0)
          \/ Returns(t, from)
    BY <1>17, Journeys
  <2>2. UNCHANGED <<conf, inner, st, seen>>
    BY <1>17 DEF Fire, Types
  <2>3. QED BY <2>1, <2>2, HighsKept DEF Moves, Returns, Mirroring
<1>18. ASSUME NEW t \in Threads, OnWarn(t) PROVE Highs'
  <2>1. Returns(t, "warn") BY <1>18, Journeys
  <2>2. /\ UNCHANGED <<conf, inner, st>>
        /\ seen'.maxUsed = seen.maxUsed /\ seen'.maxBytes = seen.maxBytes
        /\ seen'.maxWm = seen.maxWm /\ seen'.reported = seen.reported
    BY <1>18 DEF OnWarn, Types
  <2>3. QED BY <2>1, <2>2, HighsKept DEF Returns, Mirroring
<1>19. ASSUME NEW t \in Threads, OnCritical(t) PROVE Highs'
  <2>1. Returns(t, "critical") BY <1>19, Journeys
  <2>2. /\ UNCHANGED <<conf, inner, st>>
        /\ seen'.maxUsed = seen.maxUsed /\ seen'.maxBytes = seen.maxBytes
        /\ seen'.maxWm = seen.maxWm /\ seen'.reported = seen.reported
    BY <1>19 DEF OnCritical, Types
  <2>3. QED BY <2>1, <2>2, HighsKept DEF Returns, Mirroring
<1>20. ASSUME NEW t \in Threads, WatermarkSub(t) PROVE Highs'
  <2>1. Moves(t, "wm_sub", "count_free", 0) BY <1>20, Journeys
  <2>2. UNCHANGED <<conf, inner, st, seen>>
    BY <1>20 DEF WatermarkSub, Types
  <2>3. QED BY <2>1, <2>2, HighsKept DEF Moves, Mirroring
<1>21. ASSUME NEW t \in Threads, CountFree(t) PROVE Highs'
  <2>1. Moves(t, "count_free", "sub_bytes", 0) BY <1>21, Journeys
  <2>2. UNCHANGED <<conf, inner, seen>>
        /\ st'.peak = st.peak /\ st'.mirror = st.mirror
    BY <1>21 DEF CountFree, Types
  <2>3. QED BY <2>1, <2>2, HighsKept DEF Moves, Mirroring
<1>22. ASSUME NEW t \in Threads, SubBytes(t) PROVE Highs'
  <2>1. Moves(t, "sub_bytes", "free_mirror", 0) BY <1>22, Journeys
  <2>2. UNCHANGED <<conf, inner, seen>>
        /\ st'.peak = st.peak /\ st'.mirror = st.mirror
    BY <1>22 DEF SubBytes, Types
  <2>3. QED BY <2>1, <2>2, HighsKept DEF Moves, Mirroring
<1>23. ASSUME NEW t \in Threads, InnerDeallocate(t) PROVE Highs'
  <2>1. Returns(t, "free") BY <1>23, Journeys
  <2>2. /\ inner'.used = inner.used - call[t].size /\ inner'.cap = inner.cap
        /\ inner'.corrupt >= inner.corrupt
        /\ UNCHANGED <<conf, st, seen>>
    BY <1>23, ObserversAssumption DEF InnerDeallocate, Types, Smaller
  <2>3. call[t].size \in Nat BY DEF Types, Calls
  <2>a. LevelsHold' BY <1>a, <1>b, <2>1, <2>2, <2>3 DEF Highs
  <2>b. PeakHolds' BY <1>a, <1>b, <2>1, <2>2, <2>3 DEF Highs, Returns
  <2>c. MirrorHolds' BY <1>a, <1>b, <2>1, <2>2, <2>3 DEF Highs, Returns
  <2> QED BY <2>a, <2>b, <2>c DEF Highs
<1>24. QED
  BY <1>1, <1>2, <1>3, <1>4, <1>5, <1>6, <1>7, <1>8, <1>9, <1>10, <1>11, <1>12, <1>13, <1>14,
     <1>15, <1>16, <1>17, <1>18, <1>19, <1>20, <1>21, <1>22, <1>23 DEF Next

LEMMA QuietSums ==
  ASSUME Types, Quiet, NEW pcs, "idle" \notin pcs
  PROVE  InFlight(call, pcs) = 0 /\ Count(call, pcs) = 0
<1> DEFINE w == [t \in Threads |-> Held(call[t], pcs)]
           n == [t \in Threads |-> One(call[t], pcs)]
<1>1. /\ w \in [Threads -> Nat] /\ n \in [Threads -> Nat]
      /\ \A t \in Threads : w[t] = 0 /\ n[t] = 0
  BY DEF Quiet, At, Held, One
<1> HIDE DEF w, n
<1>2. Total(w) = 0 /\ Total(n) = 0 BY <1>1, TotalZero
<1>3. QED BY <1>2 DEF InFlight, Count, w, n

(* The invariant of the counters holds throughout, for any number of       *)
(* threads and any sizes.                                                  *)
LEMMA CountersInvariant == Spec => [](Types /\ Books /\ Highs)
<1>1. Init => Types /\ Books /\ Highs BY TypesInit, BooksInit, HighsInit
<1>2. Types /\ Books /\ Highs /\ [Next]_vars => (Types /\ Books /\ Highs)'
  BY TypesStep, BooksStep, HighsStep
<1>3. QED BY <1>1, <1>2, PTL DEF Spec

(* Whatever the threads are in the middle of, no layer reports more bytes  *)
(* than the one below it and no counter is driven below zero.              *)
THEOREM NeverOverstatedAlways == Spec => []NeverOverstated
<1>1. Types /\ Books /\ Highs => NeverOverstated
  <2> SUFFICES ASSUME Types, Books, Highs PROVE NeverOverstated OBVIOUS
  <2>1. /\ InFlight(call, InWatermark) \in Nat /\ InFlight(call, InStatistics) \in Nat
        /\ InFlight(call, InInner) \in Nat /\ Count(call, Counted) \in Nat
        /\ LiveBytes \in Nat /\ LiveCount \in Nat
    BY SumTypes
  <2>2. /\ wm.allocated \in Int /\ st.bytes \in Int /\ inner.used \in Int
        /\ st.allocs \in Int /\ st.frees \in Int
    BY DEF Types
  <2>3. QED
    BY <2>1, <2>2 DEF NeverOverstated, Books, Highs, LevelsHold, PeakHolds, MirrorHolds
<1>2. QED BY <1>1, CountersInvariant, PTL

(* When no call is in progress every counter is exact. *)
THEOREM ExactAtRestAlways == Spec => []ExactAtRest
<1>1. Types /\ Books /\ Highs => ExactAtRest
  <2> SUFFICES ASSUME Types, Books, Highs, Quiet
               PROVE  /\ st.allocs - st.frees = LiveCount
                      /\ {st.bytes, wm.allocated, inner.used} = {LiveBytes}
                      /\ st.peak = seen.maxBytes
                      /\ st.failures = seen.ooms /\ st.allocs + st.failures = seen.calls
                      /\ st.mirror >= seen.reported
    BY DEF ExactAtRest
  <2>1. /\ InFlight(call, InWatermark) = 0 /\ InFlight(call, InStatistics) = 0
        /\ InFlight(call, InInner) = 0 /\ Count(call, Counted) = 0
        /\ Count(call, Uncounted) = 0 /\ Count(call, {"oom"}) = 0
    BY QuietSums DEF InWatermark, InStatistics, InInner, Counted, Uncounted
  <2>2. /\ wm.allocated \in Int /\ st.bytes \in Int /\ inner.used \in Int
        /\ st.allocs \in Int /\ st.frees \in Int /\ st.failures \in Int
        /\ st.peak \in Int /\ st.mirror \in Int /\ seen.maxBytes \in Int
        /\ seen.reported \in Int /\ seen.calls \in Int /\ seen.ooms \in Int
    BY DEF Types
  <2>3. LiveBytes \in Int /\ LiveCount \in Int BY SumTypes
  <2>4. /\ st.allocs - st.frees = LiveCount
        /\ st.bytes = LiveBytes /\ wm.allocated = LiveBytes /\ inner.used = LiveBytes
        /\ st.failures = seen.ooms /\ st.allocs + st.failures = seen.calls
    BY <2>1, <2>2, <2>3 DEF Books
  <2>5. st.peak = seen.maxBytes BY <2>2 DEF Highs, PeakHolds, Quiet, At
  <2>6. st.mirror >= seen.reported BY <2>2 DEF Highs, MirrorHolds, Quiet, At
  <2>7. QED BY <2>4, <2>5, <2>6
<1>2. QED BY <1>1, CountersInvariant, PTL

-----------------------------------------------------------------------------
(* Division. *)
LEMMA DivMod ==
  ASSUME NEW a \in Nat, NEW n \in Nat, n > 0
  PROVE  a = n * (a \div n) + (a % n) /\ a % n \in 0..(n - 1) /\ a \div n \in Nat
OBVIOUS

LEMMA NextMultiple ==
  ASSUME NEW q \in Nat, NEW p \in Nat, NEW n \in Nat, p >= q + 1
  PROVE  n * p >= n * q + n
OBVIOUS

LEMMA DivUnique ==
  ASSUME NEW a \in Nat, NEW n \in Nat, n > 0, NEW q \in Nat, NEW r \in 0..(n - 1),
         a = n * q + r
  PROVE  a \div n = q
OBVIOUS

LEMMA DivAtLeast ==
  ASSUME NEW a \in Nat, NEW n \in Nat, n > 0, NEW k \in Nat
  PROVE  (a \div n >= k) <=> (a >= k * n)
<1> DEFINE p == a \div n
           s == a % n
<1>1. p \in Nat /\ s \in 0..(n - 1) /\ a = n * p + s BY DivMod
<1> HIDE DEF p, s
<1>2. p >= k => n * p >= k * n BY <1>1
<1>3. k >= p + 1 => n * k >= n * p + n BY <1>1, NextMultiple
<1>4. n * k = k * n /\ n * p \in Nat /\ k * n \in Nat BY <1>1
<1>5. (p >= k) <=> (a >= k * n) BY <1>1, <1>2, <1>3, <1>4
<1>6. QED BY <1>5 DEF p

(* Counting one more passes a multiple of n exactly at remainder n - 1. *)
LEMMA DivNext ==
  ASSUME NEW c \in Nat, NEW n \in Nat, n > 0
  PROVE  (c + 1) \div n = IF c % n = n - 1 THEN (c \div n) + 1 ELSE c \div n
<1> DEFINE p == c \div n
           s == c % n
<1>1. p \in Nat /\ s \in 0..(n - 1) /\ c = n * p + s BY DivMod
<1> HIDE DEF p, s
<1>2. n * p \in Nat /\ n * (p + 1) = n * p + n BY <1>1
<1>3. CASE s = n - 1
  <2>1. c + 1 = n * (p + 1) + 0 BY <1>1, <1>2, <1>3
  <2>2. (c + 1) \div n = p + 1 BY <1>1, <2>1, DivUnique
  <2>3. QED BY <1>3, <2>2 DEF p, s
<1>4. CASE s # n - 1
  <2>1. c + 1 = n * p + (s + 1) /\ s + 1 \in 0..(n - 1) BY <1>1, <1>2, <1>4
  <2>2. (c + 1) \div n = p BY <1>1, <2>1, DivUnique
  <2>3. QED BY <1>4, <2>2 DEF p, s
<1>5. QED BY <1>3, <1>4

-----------------------------------------------------------------------------
(* The fault policies under contention. *)
Schedule ==
  /\ \A t \in Threads : At(t, "cas") => conf.policy.kind = "after" /\ call[t].val >= 1
  /\ conf.policy.kind = "after" => counter >= 0
  /\ FaultsOnSchedule

LEMMA ScheduleInit == Init => Schedule
<1> SUFFICES ASSUME Init PROVE Schedule OBVIOUS
<1>1. /\ counter = IF conf.policy.kind = "after" THEN conf.policy.n ELSE 0
      /\ seen.granted = 0 /\ seen.refused = 0 /\ \A t \in Threads : ~At(t, "cas")
  BY DEF Init, InitialCounter, At, Idle
<1>2. conf.policy.n \in Nat /\ (conf.policy.kind = "nth" => conf.policy.n > 0)
  BY ConfigIs DEF Init
<1>3. conf.policy.kind = "nth" => 0 \div conf.policy.n = 0
  BY <1>2, DivUnique
<1>4. QED BY <1>1, <1>2, <1>3 DEF Schedule, FaultsOnSchedule

LEMMA ScheduleStep == Types /\ Schedule /\ [Next]_vars => Schedule'
<1> SUFFICES ASSUME Types, Schedule, [Next]_vars PROVE Schedule' OBVIOUS
<1>0. /\ conf.policy.n \in Nat /\ conf.policy.kind \in PolicyKinds
      /\ conf.policy.kind = "nth" => conf.policy.n > 0
      /\ counter \in Int /\ seen.granted \in Nat /\ seen.refused \in Nat
      /\ \A t \in Threads : call[t].val \in Int
  BY ConfigIs DEF Types, Calls
<1>a. ASSUME NEW t \in Threads, UNCHANGED <<conf, counter>>,
             seen'.granted = seen.granted, seen'.refused = seen.refused,
             \A u \in Threads : u # t => call'[u] = call[u], call'[t].pc # "cas"
      PROVE  Schedule'
  BY <1>a DEF Schedule, FaultsOnSchedule, At
<1>1. CASE UNCHANGED vars BY <1>1 DEF vars, Schedule, FaultsOnSchedule, At
<1>2. CASE Rearm
  <2>1. seen'.granted = seen.granted /\ seen'.refused = seen.refused
        /\ UNCHANGED <<conf, counter, call>>
    BY <1>2 DEF Rearm, Types
  <2>2. QED BY <2>1 DEF Schedule, FaultsOnSchedule, At
<1>3. ASSUME NEW t \in Threads, NEW s \in Sizes, StartAllocate(t, s) PROVE Schedule'
  <2>1. Enters(t, "policy", s) BY <1>3, Entries
  <2>2. UNCHANGED <<conf, counter>>
        /\ seen'.granted = seen.granted /\ seen'.refused = seen.refused
    BY <1>3 DEF StartAllocate, Types
  <2>3. QED BY <1>a, <2>1, <2>2 DEF Enters
<1>4. ASSUME NEW t \in Threads, NEW s \in Sizes, StartDeallocate(t, s) PROVE Schedule'
  <2>1. Enters(t, "wm_sub", s) BY <1>4, Entries
  <2>2. UNCHANGED <<conf, counter, seen>>
    BY <1>4 DEF StartDeallocate
  <2>3. QED BY <1>a, <2>1, <2>2 DEF Enters
<1>5. ASSUME NEW t \in Threads, AskPolicy(t) PROVE Schedule'
  <2>1. \E to \in {"err_mirror", "inner"} : Moves(t, "policy", to, 0) BY <1>5, Journeys
  <2>2. conf' = conf /\ conf.policy.kind # "after"
        /\ counter' = IF conf.policy.kind = "nth" THEN counter + 1 ELSE counter
    BY <1>5 DEF AskPolicy, CounterAfter
  <2>3. \A u \in Threads : At(u, "cas")' => At(u, "cas") /\ call'[u] = call[u]
    BY <2>1 DEF Moves, At
  <2>4. CASE conf.policy.kind = "nth"
    <3>1. IF counter % conf.policy.n = conf.policy.n - 1
          THEN seen'.refused = seen.refused + 1 /\ seen'.granted = seen.granted
          ELSE seen'.granted = seen.granted + 1 /\ seen'.refused = seen.refused
      <4>1. ShouldFail(conf.policy, counter, call[t].size) <=>
              counter % conf.policy.n = conf.policy.n - 1
        BY <2>4 DEF ShouldFail
      <4>2. QED BY <1>5, <4>1 DEF AskPolicy, Types
    <3>2. counter \in Nat /\ counter = seen.granted + seen.refused
          /\ seen.refused = counter \div conf.policy.n
      BY <1>0, <2>4 DEF Schedule, FaultsOnSchedule
    <3>3. seen'.refused = counter' \div conf.policy.n
      BY <1>0, <2>2, <2>4, <3>1, <3>2, DivNext
    <3>4. counter' = seen'.granted + seen'.refused BY <1>0, <2>2, <2>4, <3>1, <3>2
    <3>5. QED BY <2>2, <2>3, <2>4, <3>3, <3>4 DEF Schedule, FaultsOnSchedule
  <2>5. CASE conf.policy.kind # "nth"
    BY <2>2, <2>3, <2>5 DEF Schedule, FaultsOnSchedule
  <2>6. QED BY <2>4, <2>5
<1>6. ASSUME NEW t \in Threads, FailAfterLoad(t) PROVE Schedule'
  <2>1. UNCHANGED <<conf, counter>> /\ conf.policy.kind = "after"
    BY <1>6 DEF FailAfterLoad
  <2>2. \/ /\ counter <= 0 /\ seen'.refused = seen.refused + 1
           /\ seen'.granted = seen.granted /\ Moves(t, "policy", "err_mirror", 0)
        \/ /\ \E v \in Int : v >= counter /\ v # 0 /\ Moves(t, "policy", "cas", v)
           /\ seen' = seen
    <3>1. PICK v \in counter..conf.policy.n :
            IF v = 0 THEN Goto(t, "err_mirror", 0) /\ seen' = [seen EXCEPT !.refused = @ + 1]
                     ELSE Goto(t, "cas", v) /\ UNCHANGED seen
      BY <1>6 DEF FailAfterLoad
    <3>2. call \in [Threads -> Calls] /\ call[t].pc = "policy"
      BY <1>6 DEF FailAfterLoad, At, Types
    <3>3. v \in Int /\ v >= counter BY <1>0, <3>1
    <3>4. CASE v = 0
      <4>1. Moves(t, "policy", "err_mirror", 0) BY <3>1, <3>2, <3>4, GotoIs DEF PCs
      <4>2. seen'.refused = seen.refused + 1 /\ seen'.granted = seen.granted
        BY <3>1, <3>4 DEF Types
      <4>3. QED BY <3>3, <3>4, <4>1, <4>2
    <3>5. CASE v # 0
      <4>1. Moves(t, "policy", "cas", v) BY <3>1, <3>2, <3>3, <3>5, GotoIs DEF PCs
      <4>2. QED BY <3>1, <3>3, <3>5, <4>1
    <3>6. QED BY <3>4, <3>5
  <2>3. QED BY <1>0, <2>1, <2>2 DEF Schedule, FaultsOnSchedule, Moves, At
<1>7. ASSUME NEW t \in Threads, FailAfterCas(t) PROVE Schedule'
  <2>1. conf' = conf /\ conf.policy.kind = "after" /\ call[t].val >= 1
    BY <1>7 DEF FailAfterCas, Schedule
  <2>2. \E to \in {"inner", "policy"} : Moves(t, "cas", to, 0) BY <1>7, Journeys
  <2>3. \/ /\ counter = call[t].val /\ counter' = counter - 1
           /\ seen'.granted = seen.granted + 1 /\ seen'.refused = seen.refused
        \/ counter' = counter /\ seen' = seen
    BY <1>7 DEF FailAfterCas, Types
  <2>4. QED BY <1>0, <2>1, <2>2, <2>3 DEF Schedule, FaultsOnSchedule, Moves, At
<1>8. ASSUME NEW t \in Threads, InnerAllocate(t) PROVE Schedule'
  <2>1. \E to \in {"mirror", "err_mirror"} : Moves(t, "inner", to, inner'.corrupt)
    BY <1>8, Journeys
  <2>2. UNCHANGED <<conf, counter>>
        /\ seen'.granted = seen.granted /\ seen'.refused = seen.refused
    BY <1>8, Served DEF InnerAllocate, Types
  <2>3. QED BY <1>a, <2>1, <2>2 DEF Moves
<1>9. ASSUME NEW t \in Threads, Mirror(t) PROVE Schedule'
  <2>1. \E from, to \in PCs : to # "cas" /\ Moves(t, from, to, 0) BY <1>9, Journeys DEF PCs
  <2>2. UNCHANGED <<conf, counter, seen>>
    BY <1>9 DEF Mirror
  <2>3. QED BY <1>a, <2>1, <2>2 DEF Moves
<1>10. ASSUME NEW t \in Threads, CountAllocation(t) PROVE Schedule'
  <2>1. Moves(t, "count", "bytes", 0) BY <1>10, Journeys
  <2>2. UNCHANGED <<conf, counter, seen>>
    BY <1>10 DEF CountAllocation
  <2>3. QED BY <1>a, <2>1, <2>2 DEF Moves
<1>11. ASSUME NEW t \in Threads, AddBytes(t) PROVE Schedule'
  <2>1. Moves(t, "bytes", "peak", st'.bytes) BY <1>11, Journeys
  <2>2. UNCHANGED <<conf, counter>>
        /\ seen'.granted = seen.granted /\ seen'.refused = seen.refused
    BY <1>11 DEF AddBytes, Types
  <2>3. QED BY <1>a, <2>1, <2>2 DEF Moves
<1>12. ASSUME NEW t \in Threads, RaisePeak(t) PROVE Schedule'
  <2>1. Moves(t, "peak", "watermark", 0) BY <1>12, Journeys
  <2>2. UNCHANGED <<conf, counter, seen>>
    BY <1>12 DEF RaisePeak
  <2>3. QED BY <1>a, <2>1, <2>2 DEF Moves
<1>13. ASSUME NEW t \in Threads, CountFailure(t) PROVE Schedule'
  <2>1. Moves(t, "failure", "oom", 0) BY <1>13, Journeys
  <2>2. UNCHANGED <<conf, counter, seen>>
    BY <1>13 DEF CountFailure
  <2>3. QED BY <1>a, <2>1, <2>2 DEF Moves
<1>14. ASSUME NEW t \in Threads, OnOom(t) PROVE Schedule'
  <2>1. Returns(t, "oom") BY <1>14, Journeys
  <2>2. UNCHANGED <<conf, counter>>
        /\ seen'.granted = seen.granted /\ seen'.refused = seen.refused
    BY <1>14 DEF OnOom, Types
  <2>3. QED BY <1>a, <2>1, <2>2 DEF Returns
<1>15. ASSUME NEW t \in Threads, WatermarkAdd(t) PROVE Schedule'
  <2>1. Moves(t, "watermark", "capacity", wm'.allocated) \/ Returns(t, "watermark")
    BY <1>15, Journeys
  <2>2. UNCHANGED <<conf, counter>>
        /\ seen'.granted = seen.granted /\ seen'.refused = seen.refused
    BY <1>15 DEF WatermarkAdd, Types
  <2>3. QED BY <1>a, <2>1, <2>2 DEF Moves, Returns
<1>16. ASSUME NEW t \in Threads, CheckCapacity(t) PROVE Schedule'
  <2>1. \/ \E to \in {"fire_critical", "fire_warn"} : Moves(t, "capacity", to, 0)
        \/ Returns(t, "capacity")
    BY <1>16, Journeys
  <2>2. UNCHANGED <<conf, counter, seen>>
    BY <1>16 DEF CheckCapacity
  <2>3. QED BY <1>a, <2>1, <2>2 DEF Moves, Returns
<1>17. ASSUME NEW t \in Threads, NEW l \in {"warn", "critical"}, Fire(t, l) PROVE Schedule'
  <2>1. \E from \in {"fire_critical", "fire_warn"} :
          \/ \E to \in {"warn", "critical"} : Moves(t, from, to, 0)
          \/ Returns(t, from)
    BY <1>17, Journeys
  <2>2. UNCHANGED <<conf, counter, seen>>
    BY <1>17 DEF Fire
  <2>3. QED BY <1>a, <2>1, <2>2 DEF Moves, Returns
<1>18. ASSUME NEW t \in Threads, OnWarn(t) PROVE Schedule'
  <2>1. Returns(t, "warn") BY <1>18, Journeys
  <2>2. UNCHANGED <<conf, counter>>
        /\ seen'.granted = seen.granted /\ seen'.refused = seen.refused
    BY <1>18 DEF OnWarn, Types
  <2>3. QED BY <1>a, <2>1, <2>2 DEF Returns
<1>19. ASSUME NEW t \in Threads, OnCritical(t) PROVE Schedule'
  <2>1. Returns(t, "critical") BY <1>19, Journeys
  <2>2. UNCHANGED <<conf, counter>>
        /\ seen'.granted = seen.granted /\ seen'.refused = seen.refused
    BY <1>19 DEF OnCritical, Types
  <2>3. QED BY <1>a, <2>1, <2>2 DEF Returns
<1>20. ASSUME NEW t \in Threads, WatermarkSub(t) PROVE Schedule'
  <2>1. Moves(t, "wm_sub", "count_free", 0) BY <1>20, Journeys
  <2>2. UNCHANGED <<conf, counter, seen>>
    BY <1>20 DEF WatermarkSub
  <2>3. QED BY <1>a, <2>1, <2>2 DEF Moves
<1>21. ASSUME NEW t \in Threads, CountFree(t) PROVE Schedule'
  <2>1. Moves(t, "count_free", "sub_bytes", 0) BY <1>21, Journeys
  <2>2. UNCHANGED <<conf, counter, seen>>
    BY <1>21 DEF CountFree
  <2>3. QED BY <1>a, <2>1, <2>2 DEF Moves
<1>22. ASSUME NEW t \in Threads, SubBytes(t) PROVE Schedule'
  <2>1. Moves(t, "sub_bytes", "free_mirror", 0) BY <1>22, Journeys
  <2>2. UNCHANGED <<conf, counter, seen>>
    BY <1>22 DEF SubBytes
  <2>3. QED BY <1>a, <2>1, <2>2 DEF Moves
<1>23. ASSUME NEW t \in Threads, InnerDeallocate(t) PROVE Schedule'
  <2>1. Returns(t, "free") BY <1>23, Journeys
  <2>2. UNCHANGED <<conf, counter, seen>>
    BY <1>23 DEF InnerDeallocate
  <2>3. QED BY <1>a, <2>1, <2>2 DEF Returns
<1>24. QED
  BY <1>1, <1>2, <1>3, <1>4, <1>5, <1>6, <1>7, <1>8, <1>9, <1>10, <1>11, <1>12, <1>13, <1>14,
     <1>15, <1>16, <1>17, <1>18, <1>19, <1>20, <1>21, <1>22, <1>23 DEF Next

(* should_fail under contention: FailAfter(n) grants exactly n requests and*)
(* refuses none before, FailEveryNth(n) refuses exactly every n-th.        *)
THEOREM FaultsOnScheduleAlways == Spec => []FaultsOnSchedule
<1>1. Init => Types /\ Schedule BY TypesInit, ScheduleInit
<1>2. Types /\ Schedule /\ [Next]_vars => (Types /\ Schedule)' BY TypesStep, ScheduleStep
<1>3. Schedule => FaultsOnSchedule BY DEF Schedule
<1>4. QED BY <1>1, <1>2, <1>3, PTL DEF Spec

-----------------------------------------------------------------------------
(* The levels of Watermark. *)
LEMMA PercentAtLeast ==
  ASSUME NEW b \in Nat, NEW cap \in Nat, cap > 0, NEW k \in 0..255
  PROVE  Percent(b, cap) >= k <=> b * 100 >= k * cap
<1> DEFINE q == (b * 100) \div cap
<1>1. b * 100 \in Nat /\ q \in Nat BY DivMod
<1>2. q >= k <=> b * 100 >= k * cap BY <1>1, DivAtLeast
<1>3. Percent(b, cap) = Smaller(q, 255) BY DEF Percent
<1> HIDE DEF q
<1>4. Smaller(q, 255) >= k <=> q >= k BY <1>1 DEF Smaller
<1>5. QED BY <1>2, <1>3, <1>4

(* A total that reaches a threshold of the capacity of the moment has      *)
(* reached the gate taken from the capacity at construction.               *)
LEMMA GateReached ==
  ASSUME conf \in Configs, conf.cap < UsizeMax, NEW a \in Nat, NEW cap \in Nat, conf.cap <= cap,
         NEW k \in {conf.warn, conf.crit}, a * 100 >= k * cap
  PROVE  a >= Gate(conf)
<1> DEFINE m == Smaller(Smaller(conf.warn, 100), Smaller(conf.crit, 100))
           c == conf.cap
<1>1. c \in Nat /\ conf.warn \in 0..255 /\ conf.crit \in 0..255 /\ UsizeMax \in Nat
  BY ConfigIs, ObserversAssumption
<1>2. m \in Nat /\ m <= k /\ k \in Nat
  <2>1. \A x, y \in 0..255 : /\ Smaller(Smaller(x, 100), Smaller(y, 100)) \in Nat
                             /\ Smaller(Smaller(x, 100), Smaller(y, 100)) <= x
                             /\ Smaller(Smaller(x, 100), Smaller(y, 100)) <= y
    BY DEF Smaller
  <2>2. m \in Nat /\ m <= conf.warn /\ m <= conf.crit BY <1>1, <2>1
  <2> HIDE DEF m
  <2>3. QED BY <1>1, <2>2
<1>3. Gate(conf) = (c * m) \div 100 BY <1>1 DEF Gate
<1> HIDE DEF m, c
<1>4. c * m <= k * cap
  <2>1. c * m <= c * k BY <1>1, <1>2
  <2>2. c * k <= cap * k BY <1>1, <1>2 DEF c
  <2>3. c * m \in Nat /\ c * k \in Nat /\ cap * k \in Nat /\ cap * k = k * cap BY <1>1, <1>2
  <2>4. QED BY <2>1, <2>2, <2>3
<1>5. c * m \in Nat /\ k * cap \in Nat BY <1>1, <1>2
<1>6. c * m <= a * 100 BY <1>4, <1>5
<1> DEFINE n == c * m
<1>7. n \in Nat /\ n <= a * 100 BY <1>5, <1>6
<1> HIDE DEF n
<1>8. n \div 100 <= a BY <1>7
<1>9. QED BY <1>3, <1>8 DEF n

(* Handlers run at most once per arming, and what has fired is handled or  *)
(* about to be.                                                            *)
Armed(level) == IF level \in wm.fired THEN 0 ELSE 1

Handlers ==
  /\ seen.warns + Count(call, {"warn"}) + Armed("warn") <= seen.rearms + 1
  /\ seen.criticals + Count(call, {"critical"}) + Armed("critical") <= seen.rearms + 1
  /\ "critical" \in wm.fired => "warn" \in wm.fired
  /\ "warn" \in wm.fired =>
       seen.warns + seen.criticals > 0 \/ \E t \in Threads : call[t].pc \in {"warn", "critical"}
  /\ "critical" \in wm.fired => seen.criticals > 0 \/ \E t \in Threads : At(t, "critical")

(* A crossing that has not fired is in the hands of a thread that will fire*)
(* it.                                                                     *)
Crossed(k) == seen.maxWm > 0 /\ seen.maxWm * 100 >= k * inner.cap

Checking(t) == At(t, "capacity") /\ call[t].val >= seen.maxWm

Crossings ==
  conf.cap < UsizeMax =>
    /\ Crossed(conf.crit) => \/ "critical" \in wm.fired
                             \/ \E t \in Threads : Checking(t) \/ At(t, "fire_critical")
    /\ Crossed(conf.warn) => \/ "warn" \in wm.fired
                             \/ \E t \in Threads : \/ Checking(t)
                                                   \/ At(t, "fire_critical")
                                                   \/ At(t, "fire_warn")

LEMMA EdgesInit == Init => Handlers /\ Crossings
<1> SUFFICES ASSUME Init PROVE Handlers /\ Crossings OBVIOUS
<1>1. Types BY TypesInit
<1>2. Quiet BY DEF Init, Quiet, At, Idle
<1>3. Count(call, {"warn"}) = 0 /\ Count(call, {"critical"}) = 0 BY <1>1, <1>2, QuietSums
<1>4. /\ wm.fired = {} /\ seen.warns = 0 /\ seen.criticals = 0 /\ seen.rearms = 0
      /\ seen.maxWm = 0
  BY DEF Init
<1>5. QED BY <1>3, <1>4 DEF Handlers, Armed, Crossings, Crossed

(* A step away from the levels, during which the capacity may grow. *)
Away == {"capacity", "fire_critical", "fire_warn", "warn", "critical"}

LEMMA EdgesKept ==
  ASSUME Types, Types', Highs, Handlers, Crossings, NEW t \in Threads,
         \A u \in Threads : u # t => call'[u] = call[u],
         call[t].pc \notin Away, call'[t].pc \notin {"warn", "critical"},
         conf' = conf, wm'.fired = wm.fired, inner'.cap >= inner.cap,
         seen'.warns = seen.warns, seen'.criticals = seen.criticals,
         seen'.rearms = seen.rearms, seen'.maxWm = seen.maxWm
  PROVE  Handlers' /\ Crossings'
<1>1. call \in [Threads -> Calls] /\ call' \in [Threads -> Calls] BY DEF Types
<1>2. \A P \in {{"warn"}, {"critical"}} : Count(call', P) = Count(call, P)
  <2>1. ASSUME NEW P \in {{"warn"}, {"critical"}} PROVE Count(call', P) = Count(call, P)
    <3>1. One(call[t], P) = 0 /\ One(call'[t], P) = 0 BY DEF One, Away
    <3>2. Count(call, P) \in Nat BY SumTypes
    <3>3. Count(call', P) = Count(call, P) - One(call[t], P) + One(call'[t], P)
      BY <1>1, SumMove
    <3>4. QED BY <3>1, <3>2, <3>3
  <2>2. QED BY <2>1
<1>3. Handlers' BY <1>2 DEF Handlers, Armed, At, Away
<1>4. ASSUME NEW k \in {conf.warn, conf.crit}, Crossed(k)' PROVE Crossed(k)
  <2>1. inner.cap \in Nat /\ inner'.cap \in Nat /\ seen.maxWm \in Nat /\ k \in Nat
    BY ConfigIs DEF Types, Highs, LevelsHold
  <2>2. k * inner.cap <= k * inner'.cap BY <2>1
  <2>3. k * inner.cap \in Nat /\ k * inner'.cap \in Nat BY <2>1
  <2>4. seen.maxWm > 0 /\ seen.maxWm * 100 >= k * inner'.cap
    BY <1>4 DEF Crossed
  <2>5. QED BY <2>1, <2>2, <2>3, <2>4 DEF Crossed
<1>5. \A u \in Threads : /\ Checking(u) => Checking(u)'
                         /\ At(u, "fire_critical") => At(u, "fire_critical")'
                         /\ At(u, "fire_warn") => At(u, "fire_warn")'
  BY DEF Checking, At, Away
<1>6. Crossings' BY <1>4, <1>5 DEF Crossings
<1>7. QED BY <1>3, <1>6

LEMMA EdgesStep ==
  Types /\ Books /\ Highs /\ Handlers /\ Crossings /\ [Next]_vars => Handlers' /\ Crossings'
<1> SUFFICES ASSUME Types, Books, Highs, Handlers, Crossings, [Next]_vars
             PROVE  Handlers' /\ Crossings'
  OBVIOUS
<1>0. Types' /\ Books' /\ Highs' BY TypesStep, BooksStep, HighsStep
<1>a. /\ inner.cap \in Nat /\ seen.maxWm \in Int /\ seen.warns \in Nat /\ seen.criticals \in Nat
      /\ seen.rearms \in Nat /\ conf.warn \in 0..255 /\ conf.crit \in 0..255
      /\ wm'.allocated \in Int /\ wm.fired \subseteq {"warn", "critical"}
      /\ \A t \in Threads : call[t].val \in Int
  BY <1>0, ConfigIs DEF Types, Calls
<1>b. /\ Count(call, {"warn"}) \in Nat /\ Count(call, {"critical"}) \in Nat BY SumTypes
<1>c. ASSUME NEW t \in Threads, \A u \in Threads : u # t => call'[u] = call[u],
             NEW P \in {{"warn"}, {"critical"}}
      PROVE  Count(call', P) = Count(call, P) - One(call[t], P) + One(call'[t], P)
  BY <1>0, <1>c, SumMove DEF Types
<1>d. ASSUME NEW t \in Threads, NEW k \in {conf.warn, conf.crit}, Checking(t), Crossed(k)
      PROVE  /\ inner.cap > 0 /\ Percent(call[t].val, inner.cap) \in Int
             /\ Percent(call[t].val, inner.cap) >= k
  <2>1. /\ call[t].val \in Nat /\ call[t].val * 100 >= k * inner.cap
        /\ seen.maxWm > 0 /\ seen.maxWm <= inner.cap
    <3> DEFINE n == k * inner.cap
    <3>1. n \in Nat BY <1>a
    <3>2. /\ call[t].val >= seen.maxWm /\ seen.maxWm > 0 /\ seen.maxWm * 100 >= n
          /\ seen.maxWm <= inner.cap
      BY <1>d DEF Checking, Crossed, Highs, LevelsHold
    <3> HIDE DEF n
    <3>3. QED BY <1>a, <3>1, <3>2 DEF n
  <2>2. inner.cap > 0 BY <1>a, <2>1
  <2>3. Percent(call[t].val, inner.cap) >= k BY <1>a, <2>1, <2>2, PercentAtLeast
  <2>4. Percent(call[t].val, inner.cap) \in Int
    <3>1. (call[t].val * 100) \div inner.cap \in Nat BY <1>a, <2>1, <2>2, DivMod
    <3>2. QED BY <3>1 DEF Percent, Smaller
  <2>5. QED BY <2>2, <2>3, <2>4
<1>1. CASE UNCHANGED vars
  <2>1. Handlers' BY <1>1 DEF vars, Handlers, Armed, At
  <2>2. Crossings' BY <1>1 DEF vars, Crossings, Crossed, Checking, At
  <2>3. QED BY <2>1, <2>2
<1>2. CASE Rearm
  <2>1. wm'.fired = {} /\ UNCHANGED <<conf, call>> BY <1>2 DEF Rearm, Types
  <2>2. /\ seen'.rearms = seen.rearms + 1 /\ seen'.maxWm = 0
        /\ seen'.warns = seen.warns /\ seen'.criticals = seen.criticals
    BY <1>2 DEF Rearm, Types
  <2>3. Handlers' BY <1>a, <1>b, <2>1, <2>2 DEF Handlers, Armed
  <2>4. Crossings' BY <2>2 DEF Crossings, Crossed
  <2>5. QED BY <2>3, <2>4
<1>3. ASSUME NEW t \in Threads, NEW s \in Sizes, StartAllocate(t, s) PROVE Handlers' /\ Crossings'
  <2>1. Enters(t, "policy", s) BY <1>3, Entries DEF PCs
  <2>2. UNCHANGED <<conf, inner, wm>>
        /\ seen'.warns = seen.warns /\ seen'.criticals = seen.criticals
        /\ seen'.rearms = seen.rearms /\ seen'.maxWm = seen.maxWm
    BY <1>3 DEF StartAllocate, Types
  <2>3. QED BY <1>0, <1>a, <2>1, <2>2, EdgesKept DEF Enters, Away
<1>4. ASSUME NEW t \in Threads, NEW s \in Sizes, StartDeallocate(t, s) PROVE Handlers' /\ Crossings'
  <2>1. Enters(t, "wm_sub", s) BY <1>4, Entries DEF PCs
  <2>2. UNCHANGED <<conf, inner, wm, seen>>
    BY <1>4 DEF StartDeallocate, Types
  <2>3. QED BY <1>0, <1>a, <2>1, <2>2, EdgesKept DEF Enters, Away
<1>5. ASSUME NEW t \in Threads, AskPolicy(t) PROVE Handlers' /\ Crossings'
  <2>1. \E to \in {"err_mirror", "inner"} : Moves(t, "policy", to, 0) BY <1>5, Journeys DEF PCs
  <2>2. UNCHANGED <<conf, inner, wm>>
        /\ seen'.warns = seen.warns /\ seen'.criticals = seen.criticals
        /\ seen'.rearms = seen.rearms /\ seen'.maxWm = seen.maxWm
    BY <1>5 DEF AskPolicy, Types
  <2>3. QED BY <1>0, <1>a, <2>1, <2>2, EdgesKept DEF Moves, Away
<1>6. ASSUME NEW t \in Threads, FailAfterLoad(t) PROVE Handlers' /\ Crossings'
  <2>1. \E to \in {"err_mirror", "cas"}, v \in Int : Moves(t, "policy", to, v)
    BY <1>6, Journeys DEF PCs
  <2>2. UNCHANGED <<conf, inner, wm>>
        /\ seen'.warns = seen.warns /\ seen'.criticals = seen.criticals
        /\ seen'.rearms = seen.rearms /\ seen'.maxWm = seen.maxWm
    BY <1>6 DEF FailAfterLoad, Types
  <2>3. QED BY <1>0, <1>a, <2>1, <2>2, EdgesKept DEF Moves, Away
<1>7. ASSUME NEW t \in Threads, FailAfterCas(t) PROVE Handlers' /\ Crossings'
  <2>1. \E to \in {"inner", "policy"} : Moves(t, "cas", to, 0) BY <1>7, Journeys DEF PCs
  <2>2. UNCHANGED <<conf, inner, wm>>
        /\ seen'.warns = seen.warns /\ seen'.criticals = seen.criticals
        /\ seen'.rearms = seen.rearms /\ seen'.maxWm = seen.maxWm
    BY <1>7 DEF FailAfterCas, Types
  <2>3. QED BY <1>0, <1>a, <2>1, <2>2, EdgesKept DEF Moves, Away
<1>8. ASSUME NEW t \in Threads, InnerAllocate(t) PROVE Handlers' /\ Crossings'
  <2>1. \E to \in {"mirror", "err_mirror"} : Moves(t, "inner", to, inner'.corrupt)
    BY <1>8, Journeys
  <2>2. UNCHANGED <<conf, wm>> BY <1>8 DEF InnerAllocate
  <2>3. /\ seen'.warns = seen.warns /\ seen'.criticals = seen.criticals
        /\ seen'.rearms = seen.rearms /\ seen'.maxWm = seen.maxWm
    BY <1>8, Served DEF Types
  <2>4. inner'.cap >= inner.cap BY <1>8, <1>a, Served, ConfigIs DEF Types, Highs, LevelsHold
  <2>5. QED BY <1>0, <2>1, <2>2, <2>3, <2>4, EdgesKept DEF Moves, Away
<1>9. ASSUME NEW t \in Threads, Mirror(t) PROVE Handlers' /\ Crossings'
  <2>1. \/ Moves(t, "mirror", "count", 0)
        \/ Moves(t, "err_mirror", "failure", 0)
        \/ Moves(t, "free_mirror", "free", 0)
    BY <1>9, Journeys DEF PCs
  <2>2. UNCHANGED <<conf, inner, wm, seen>>
    BY <1>9 DEF Mirror, Types
  <2>3. QED BY <1>0, <1>a, <2>1, <2>2, EdgesKept DEF Moves, Away
<1>10. ASSUME NEW t \in Threads, CountAllocation(t) PROVE Handlers' /\ Crossings'
  <2>1. Moves(t, "count", "bytes", 0) BY <1>10, Journeys DEF PCs
  <2>2. UNCHANGED <<conf, inner, wm, seen>>
    BY <1>10 DEF CountAllocation, Types
  <2>3. QED BY <1>0, <1>a, <2>1, <2>2, EdgesKept DEF Moves, Away
<1>11. ASSUME NEW t \in Threads, AddBytes(t) PROVE Handlers' /\ Crossings'
  <2>1. Moves(t, "bytes", "peak", st'.bytes) BY <1>11, Journeys DEF PCs
  <2>2. UNCHANGED <<conf, inner, wm>>
        /\ seen'.warns = seen.warns /\ seen'.criticals = seen.criticals
        /\ seen'.rearms = seen.rearms /\ seen'.maxWm = seen.maxWm
    BY <1>11 DEF AddBytes, Types
  <2>3. QED BY <1>0, <1>a, <2>1, <2>2, EdgesKept DEF Moves, Away
<1>12. ASSUME NEW t \in Threads, RaisePeak(t) PROVE Handlers' /\ Crossings'
  <2>1. Moves(t, "peak", "watermark", 0) BY <1>12, Journeys DEF PCs
  <2>2. UNCHANGED <<conf, inner, wm, seen>>
    BY <1>12 DEF RaisePeak, Types
  <2>3. QED BY <1>0, <1>a, <2>1, <2>2, EdgesKept DEF Moves, Away
<1>13. ASSUME NEW t \in Threads, CountFailure(t) PROVE Handlers' /\ Crossings'
  <2>1. Moves(t, "failure", "oom", 0) BY <1>13, Journeys DEF PCs
  <2>2. UNCHANGED <<conf, inner, wm, seen>>
    BY <1>13 DEF CountFailure, Types
  <2>3. QED BY <1>0, <1>a, <2>1, <2>2, EdgesKept DEF Moves, Away
<1>14. ASSUME NEW t \in Threads, OnOom(t) PROVE Handlers' /\ Crossings'
  <2>1. Returns(t, "oom") BY <1>14, Journeys DEF PCs
  <2>2. UNCHANGED <<conf, inner, wm>>
        /\ seen'.warns = seen.warns /\ seen'.criticals = seen.criticals
        /\ seen'.rearms = seen.rearms /\ seen'.maxWm = seen.maxWm
    BY <1>14 DEF OnOom, Types
  <2>3. QED BY <1>0, <1>a, <2>1, <2>2, EdgesKept DEF Returns, Away
<1>15. ASSUME NEW t \in Threads, WatermarkAdd(t) PROVE Handlers' /\ Crossings'
  <2>1. Moves(t, "watermark", "capacity", wm'.allocated) \/ Returns(t, "watermark")
    BY <1>15, Journeys
  <2>2. /\ seen'.maxWm = Bigger(seen.maxWm, wm'.allocated) /\ wm'.fired = wm.fired
        /\ seen'.warns = seen.warns /\ seen'.criticals = seen.criticals
        /\ seen'.rearms = seen.rearms /\ UNCHANGED <<conf, inner>>
    BY <1>15 DEF WatermarkAdd, Types
  <2>3. wm'.allocated >= Gate(conf) => Moves(t, "watermark", "capacity", wm'.allocated)
    <3>1. wm'.allocated >= Gate(conf) => Goto(t, "capacity", wm'.allocated)
      BY <1>15 DEF WatermarkAdd
    <3>2. call \in [Threads -> Calls] /\ call[t].pc = "watermark"
      BY <2>1 DEF Types, Moves, Returns
    <3>3. QED BY <1>a, <3>1, <3>2, GotoIs DEF PCs
  <2>4. call[t].pc = "watermark" /\ call'[t].pc \in {"capacity", "idle"}
        /\ \A u \in Threads : u # t => call'[u] = call[u]
    BY <2>1 DEF Moves, Returns
  <2>5. CASE wm'.allocated <= seen.maxWm
    BY <1>0, <1>a, <2>2, <2>4, <2>5, EdgesKept DEF Bigger, Away
  <2>6. CASE wm'.allocated > seen.maxWm
    <3>1. Handlers'
      <4>1. \A P \in {{"warn"}, {"critical"}} : Count(call', P) = Count(call, P)
        <5>1. ASSUME NEW P \in {{"warn"}, {"critical"}} PROVE Count(call', P) = Count(call, P)
          <6>1. One(call[t], P) = 0 /\ One(call'[t], P) = 0 /\ Count(call, P) \in Nat
            BY <1>b, <2>4 DEF One
          <6>2. \A u \in Threads : u # t => call'[u] = call[u] BY <2>4
          <6>3. Count(call', P) = Count(call, P) - One(call[t], P) + One(call'[t], P)
            BY <1>c, <6>2
          <6>4. QED BY <6>1, <6>3
        <5>2. QED BY <5>1
      <4>2. QED BY <2>2, <2>4, <4>1 DEF Handlers, Armed, At
    <3>2. seen'.maxWm = wm'.allocated BY <1>a, <2>2, <2>6 DEF Bigger
    <3>3. ASSUME NEW k \in {conf.warn, conf.crit}, conf.cap < UsizeMax, Crossed(k)'
          PROVE  Checking(t)'
      <4>1. wm'.allocated \in Nat /\ wm'.allocated * 100 >= k * inner.cap
        BY <1>a, <2>2, <3>2, <3>3 DEF Crossed
      <4>2. conf \in Configs /\ conf.cap <= inner.cap BY DEF Types, Highs, LevelsHold
      <4>3. wm'.allocated >= Gate(conf) BY <1>a, <3>3, <4>1, <4>2, GateReached
      <4>4. QED BY <1>a, <2>3, <3>2, <4>3 DEF Checking, At, Moves
    <3>4. Crossings' BY <2>2, <3>3 DEF Crossings
    <3>5. QED BY <3>1, <3>4
  <2>7. QED BY <1>a, <2>5, <2>6
<1>16. ASSUME NEW t \in Threads, CheckCapacity(t) PROVE Handlers' /\ Crossings'
  <2>1. UNCHANGED <<conf, inner, wm, seen>> BY <1>16 DEF CheckCapacity
  <2>2. call[t].pc = "capacity" /\ call'[t].pc \in {"fire_critical", "fire_warn", "idle"}
        /\ \A u \in Threads : u # t => call'[u] = call[u]
    BY <1>16, Journeys DEF Moves, Returns
  <2>3. Handlers'
    <3>1. \A P \in {{"warn"}, {"critical"}} : Count(call', P) = Count(call, P)
      <4>1. ASSUME NEW P \in {{"warn"}, {"critical"}} PROVE Count(call', P) = Count(call, P)
        <5>1. One(call[t], P) = 0 /\ One(call'[t], P) = 0 /\ Count(call, P) \in Nat
          BY <1>b, <2>2 DEF One
        <5>2. QED BY <1>c, <2>2, <5>1
      <4>2. QED BY <4>1
    <3>2. QED BY <2>1, <2>2, <3>1 DEF Handlers, Armed, At
  <2> DEFINE pct == Percent(call[t].val, inner.cap)
  <2>a. inner.cap > 0 =>
          \/ pct >= conf.crit /\ Goto(t, "fire_critical", 0)
          \/ pct < conf.crit /\ pct >= conf.warn /\ Goto(t, "fire_warn", 0)
          \/ pct < conf.crit /\ pct < conf.warn
    BY <1>a, <1>16 DEF CheckCapacity
  <2> HIDE DEF pct
  <2>b. \A pc \in {"fire_critical", "fire_warn"} : Goto(t, pc, 0) => At(t, pc)'
    BY GotoIs DEF Types, PCs, Moves, At
  <2>4. ASSUME Checking(t), Crossed(conf.crit) PROVE At(t, "fire_critical")'
    <3>1. pct >= conf.crit /\ pct \in Int /\ inner.cap > 0 BY <1>d, <2>4 DEF pct
    <3>2. QED BY <1>a, <2>a, <2>b, <3>1
  <2>5. ASSUME Checking(t), Crossed(conf.warn)
        PROVE  At(t, "fire_critical")' \/ At(t, "fire_warn")'
    <3>1. pct >= conf.warn /\ pct \in Int /\ inner.cap > 0 BY <1>d, <2>5 DEF pct
    <3>2. QED BY <1>a, <2>a, <2>b, <3>1
  <2>6. Crossed(conf.crit)' = Crossed(conf.crit) /\ Crossed(conf.warn)' = Crossed(conf.warn)
    BY <2>1 DEF Crossed
  <2>7. ASSUME NEW u \in Threads, u # t
        PROVE  /\ Checking(u) => Checking(u)'
               /\ At(u, "fire_critical") => At(u, "fire_critical")'
               /\ At(u, "fire_warn") => At(u, "fire_warn")'
    BY <2>1, <2>2, <2>7 DEF Checking, At
  <2>8. ~At(t, "fire_critical") /\ ~At(t, "fire_warn") BY <2>2 DEF At
  <2>9. Crossings' BY <2>1, <2>4, <2>5, <2>6, <2>7, <2>8 DEF Crossings
  <2>10. QED BY <2>3, <2>9
<1>17. ASSUME NEW t \in Threads, NEW l \in {"warn", "critical"}, Fire(t, l)
      PROVE  Handlers' /\ Crossings'
  <2>1. /\ wm'.fired = wm.fired \cup Bits(l) /\ UNCHANGED <<conf, inner, seen>>
    BY <1>17 DEF Fire, Types
  <2>2. \/ l \in wm.fired /\ call'[t].pc = "idle"
        \/ l \notin wm.fired /\ call'[t].pc = l
    BY <1>17, <1>0, GotoIs, ReturnIs DEF Fire, Types, PCs, Moves, Returns
  <2>3. /\ call[t].pc = IF l = "critical" THEN "fire_critical" ELSE "fire_warn"
        /\ \A u \in Threads : u # t => call'[u] = call[u]
    BY <1>17, Journeys DEF Moves, Returns
  <2>4. /\ Count(call', {"warn"}) = Count(call, {"warn"}) + One(call'[t], {"warn"})
        /\ Count(call', {"critical"}) = Count(call, {"critical"}) + One(call'[t], {"critical"})
    <3>1. One(call[t], {"warn"}) = 0 /\ One(call[t], {"critical"}) = 0 BY <2>3 DEF One
    <3>2. One(call'[t], {"warn"}) \in Nat /\ One(call'[t], {"critical"}) \in Nat BY DEF One
    <3>3. QED BY <1>b, <1>c, <2>3, <3>1, <3>2
  <2>5. Handlers'
    <3>1. CASE l = "warn"
      BY <1>a, <1>b, <2>1, <2>2, <2>3, <2>4, <3>1 DEF Handlers, Armed, At, Bits, One
    <3>2. CASE l = "critical"
      BY <1>a, <1>b, <2>1, <2>2, <2>3, <2>4, <3>2 DEF Handlers, Armed, At, Bits, One
    <3>3. QED BY <3>1, <3>2
  <2>6. Crossings'
    BY <2>1, <2>3 DEF Crossings, Crossed, Checking, At, Bits
  <2>7. QED BY <2>5, <2>6
<1>18. ASSUME NEW t \in Threads, OnWarn(t) PROVE Handlers' /\ Crossings'
  <2>1. Returns(t, "warn") BY <1>18, Journeys
  <2>2. /\ seen'.warns = seen.warns + 1 /\ seen'.criticals = seen.criticals
        /\ seen'.rearms = seen.rearms /\ seen'.maxWm = seen.maxWm
        /\ UNCHANGED <<conf, inner, wm>>
    BY <1>18 DEF OnWarn, Types
  <2>3. /\ Count(call', {"warn"}) = Count(call, {"warn"}) - 1
        /\ Count(call', {"critical"}) = Count(call, {"critical"})
    BY <1>b, <1>c, <2>1 DEF One, Returns
  <2>4. Handlers' BY <1>a, <1>b, <2>1, <2>2, <2>3 DEF Handlers, Armed, At, Returns
  <2>5. Crossings' BY <2>1, <2>2 DEF Crossings, Crossed, Checking, At, Returns
  <2>6. QED BY <2>4, <2>5
<1>19. ASSUME NEW t \in Threads, OnCritical(t) PROVE Handlers' /\ Crossings'
  <2>1. Returns(t, "critical") BY <1>19, Journeys
  <2>2. /\ seen'.criticals = seen.criticals + 1 /\ seen'.warns = seen.warns
        /\ seen'.rearms = seen.rearms /\ seen'.maxWm = seen.maxWm
        /\ UNCHANGED <<conf, inner, wm>>
    BY <1>19 DEF OnCritical, Types
  <2>3. /\ Count(call', {"critical"}) = Count(call, {"critical"}) - 1
        /\ Count(call', {"warn"}) = Count(call, {"warn"})
    BY <1>b, <1>c, <2>1 DEF One, Returns
  <2>4. Handlers' BY <1>a, <1>b, <2>1, <2>2, <2>3 DEF Handlers, Armed, At, Returns
  <2>5. Crossings' BY <2>1, <2>2 DEF Crossings, Crossed, Checking, At, Returns
  <2>6. QED BY <2>4, <2>5
<1>20. ASSUME NEW t \in Threads, WatermarkSub(t) PROVE Handlers' /\ Crossings'
  <2>1. Moves(t, "wm_sub", "count_free", 0) BY <1>20, Journeys DEF PCs
  <2>2. UNCHANGED <<conf, inner, seen>> /\ wm'.fired = wm.fired
    BY <1>20 DEF WatermarkSub, Types
  <2>3. QED BY <1>0, <1>a, <2>1, <2>2, EdgesKept DEF Moves, Away
<1>21. ASSUME NEW t \in Threads, CountFree(t) PROVE Handlers' /\ Crossings'
  <2>1. Moves(t, "count_free", "sub_bytes", 0) BY <1>21, Journeys DEF PCs
  <2>2. UNCHANGED <<conf, inner, wm, seen>>
    BY <1>21 DEF CountFree, Types
  <2>3. QED BY <1>0, <1>a, <2>1, <2>2, EdgesKept DEF Moves, Away
<1>22. ASSUME NEW t \in Threads, SubBytes(t) PROVE Handlers' /\ Crossings'
  <2>1. Moves(t, "sub_bytes", "free_mirror", 0) BY <1>22, Journeys DEF PCs
  <2>2. UNCHANGED <<conf, inner, wm, seen>>
    BY <1>22 DEF SubBytes, Types
  <2>3. QED BY <1>0, <1>a, <2>1, <2>2, EdgesKept DEF Moves, Away
<1>23. ASSUME NEW t \in Threads, InnerDeallocate(t) PROVE Handlers' /\ Crossings'
  <2>1. Returns(t, "free") BY <1>23, Journeys DEF PCs
  <2>2. UNCHANGED <<conf, wm, seen>> /\ inner'.cap = inner.cap
    BY <1>23 DEF InnerDeallocate, Types
  <2>3. QED BY <1>0, <1>a, <2>1, <2>2, EdgesKept DEF Returns, Away
<1>24. QED
  BY <1>1, <1>2, <1>3, <1>4, <1>5, <1>6, <1>7, <1>8, <1>9, <1>10, <1>11, <1>12, <1>13, <1>14,
     <1>15, <1>16, <1>17, <1>18, <1>19, <1>20, <1>21, <1>22, <1>23 DEF Next

(* check_and_fire: threads that cross a threshold together call its handler*)
(* once per arming, and no crossing is missed.                             *)
THEOREM RisingEdgesAlways == Spec => []RisingEdges
<1>1. Types /\ Highs /\ Handlers /\ Crossings => RisingEdges
  <2> SUFFICES ASSUME Types, Highs, Handlers, Crossings PROVE RisingEdges OBVIOUS
  <2>1. /\ Count(call, {"warn"}) \in Nat /\ Count(call, {"critical"}) \in Nat BY SumTypes
  <2>2. /\ seen.warns \in Nat /\ seen.criticals \in Nat /\ seen.rearms \in Nat
        /\ inner.cap \in Nat /\ seen.maxWm \in Nat
        /\ conf.warn \in 0..255 /\ conf.crit \in 0..255
    BY ConfigIs DEF Types, Highs, LevelsHold
  <2>3. /\ seen.criticals <= seen.rearms + 1 /\ seen.warns <= seen.rearms + 1
        /\ "critical" \in wm.fired => "warn" \in wm.fired
    BY <2>1, <2>2 DEF Handlers, Armed
  <2>4. ASSUME Quiet, inner.cap > 0, conf.cap < UsizeMax, seen.maxWm > 0,
               Percent(seen.maxWm, inner.cap) >= conf.crit
        PROVE  "critical" \in wm.fired /\ seen.criticals > 0
    <3>1. Crossed(conf.crit) BY <2>2, <2>4, PercentAtLeast DEF Crossed
    <3>2. QED BY <2>4, <3>1 DEF Crossings, Handlers, Checking, Quiet, At
  <2>5. ASSUME Quiet, inner.cap > 0, conf.cap < UsizeMax, seen.maxWm > 0,
               Percent(seen.maxWm, inner.cap) >= conf.warn
        PROVE  "warn" \in wm.fired
    <3>1. Crossed(conf.warn) BY <2>2, <2>5, PercentAtLeast DEF Crossed
    <3>2. QED BY <2>5, <3>1 DEF Crossings, Checking, Quiet, At
  <2>6. ASSUME Quiet, "warn" \in wm.fired PROVE seen.warns + seen.criticals > 0
    BY <2>6 DEF Handlers, Quiet, At
  <2>7. QED BY <2>3, <2>4, <2>5, <2>6 DEF RisingEdges
<1>2. Init => Handlers /\ Crossings BY EdgesInit
<1>3. Types /\ Books /\ Highs /\ Handlers /\ Crossings /\ [Next]_vars => (Handlers /\ Crossings)'
  BY EdgesStep
<1>4. QED BY <1>1, <1>2, <1>3, CountersInvariant, PTL DEF Spec
=============================================================================
