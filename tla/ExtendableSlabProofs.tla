------------------------- MODULE ExtendableSlabProofs -------------------------
(***************************************************************************)
(* Proofs about ExtendableSlab, for any number of threads, any capacity of *)
(* a segment and any number of segments: no block is handed out twice      *)
(* however the threads race through growth, and the vector grows only for  *)
(* demand, by at most one segment per thread beyond it.                    *)
(***************************************************************************)
EXTENDS ExtendableSlab, SlabOpsProofs, SequenceTheorems

-----------------------------------------------------------------------------
(* Numbers.                                                                *)

LEMMA MinIsMember ==
  ASSUME NEW S \in SUBSET Nat, S # {}
  PROVE  Min(S) \in S
BY LeastNat DEF Min

LEMMA DivType ==
  ASSUME NEW a \in Nat, NEW n \in Nat, n > 0
  PROVE  (a \div n) \in Nat
OBVIOUS

LEMMA DivAtLeast ==
  ASSUME NEW a \in Nat, NEW k \in Nat, NEW n \in Nat, n > 0, a >= k * n
  PROVE  (a \div n) >= k
  <1> DEFINE q == a \div n
             m == a % n
  <1>1. q \in Nat /\ m \in Nat /\ m < n /\ a = n * q + m
    OBVIOUS
  <1> HIDE DEF q, m
  <1>2. SUFFICES ASSUME q < k PROVE FALSE
    BY <1>1 DEF q
  <1>3. n * (q + 1) <= n * k
    BY <1>1, <1>2
  <1>4. n * (q + 1) = n * q + n
    BY <1>1
  <1>5. n * k = k * n
    OBVIOUS
  <1> DEFINE u == n * q
             v == k * n
  <1>6. u \in Nat /\ v \in Nat
    BY <1>1
  <1>7. u + n <= v /\ a >= v /\ a = u + m
    BY <1>1, <1>3, <1>4, <1>5
  <1> HIDE DEF u, v
  <1> QED BY <1>1, <1>6, <1>7

LEMMA DivMonotone ==
  ASSUME NEW a \in Nat, NEW b \in Nat, NEW n \in Nat, n > 0, a <= b
  PROVE  (a \div n) <= (b \div n)
  <1> DEFINE q == a \div n
             m == a % n
  <1>1. q \in Nat /\ m \in Nat /\ a = n * q + m /\ n * q = q * n
    OBVIOUS
  <1> DEFINE u == q * n
  <1>2. u \in Nat
    BY <1>1
  <1>3. b >= u
    <2>1. a = u + m
      BY <1>1
    <2> HIDE DEF u
    <2> QED BY <1>1, <1>2, <2>1
  <1>4. (b \div n) >= q
    BY <1>1, <1>3, DivAtLeast
  <1>5. (b \div n) \in Nat
    BY DivType
  <1> QED BY <1>1, <1>4, <1>5

-----------------------------------------------------------------------------
(* The inductive invariant.                                                *)

Types ==
  /\ segments \in Seq(SlabRecord)
  /\ first_open_hint \in 0 .. MaxSegments
  /\ pc \in [Threads -> {"idle", "build", "install"}]
  /\ fits \in [Threads -> BOOLEAN]
  /\ len_before_drop \in [Threads -> 0 .. MaxSegments]
  /\ held \in [Blocks -> {0, 1}]
  /\ peak \in 0 .. Cardinality(Blocks)

(* Who owns the slots of segment i, by the count of the callers. *)
Own(i) == [s \in Slots |-> held[<<i, s>>]]

(* Every segment's list agrees with what the callers hold, and nobody      *)
(* holds a block of a segment that is not there.                           *)
SegmentsSound ==
  /\ \A i \in 0 .. (Len(segments) - 1) : Sound(Segment(i), Own(i))
  /\ \A i \in 0 .. (MaxSegments - 1), s \in Slots :
       i >= Len(segments) => held[<<i, s>>] = 0

(* The segments mapped and not yet installed have room in the vector. *)
Room == Len(segments) + Cardinality(Building) <= MaxSegments

PeakHolds == HeldCount <= peak

(* The threads that may still append a segment. *)
Growing == {t \in Threads : pc[t] # "idle" /\ fits[t]}

(* GrowthBounded, with the segments on their way counted in. *)
Growth ==
  Len(segments) + Cardinality(Growing) <= (peak \div Capacity) + Cardinality(Threads)

IndInv == Types /\ SegmentsSound /\ Room /\ PeakHolds /\ Growth

LEMMA Constants ==
  /\ MaxSegments \in Nat /\ MaxSegments > 0
  /\ Capacity \in Nat /\ Capacity > 0
  /\ IsFiniteSet(Threads)
  /\ Cardinality(Threads) \in Nat
  /\ Cardinality(Threads) > 0
  /\ IsFiniteSet(Blocks)
  /\ Cardinality(Blocks) \in Nat
  <1>1. IsFiniteSet(0 .. (MaxSegments - 1)) /\ IsFiniteSet(Slots)
    BY ExtendableAssumption, CapacityAssumption, FS_Interval DEF Slots
  <1>2. IsFiniteSet(Blocks)
    BY <1>1, FS_Product DEF Blocks
  <1>3. Cardinality(Threads) \in Nat /\ Cardinality(Threads) # 0
    BY ExtendableAssumption, FS_CardinalityType, FS_EmptySet
  <1> QED BY <1>2, <1>3, FS_CardinalityType, ExtendableAssumption, CapacityAssumption

(* Subsets of the threads and of the blocks are counted by numbers. *)
LEMMA ThreadSets ==
  ASSUME NEW S \in SUBSET Threads, NEW T \in SUBSET S
  PROVE  /\ IsFiniteSet(S) /\ IsFiniteSet(T)
         /\ Cardinality(S) \in Nat /\ Cardinality(T) \in Nat
         /\ Cardinality(T) <= Cardinality(S)
         /\ Cardinality(S) <= Cardinality(Threads)
  <1>1. IsFiniteSet(S) /\ Cardinality(S) <= Cardinality(Threads)
    BY Constants, FS_Subset
  <1>2. IsFiniteSet(T) /\ Cardinality(T) <= Cardinality(S)
    BY <1>1, FS_Subset
  <1> QED BY <1>1, <1>2, FS_CardinalityType

LEMMA BlockSets ==
  ASSUME NEW S \in SUBSET Blocks, NEW T \in SUBSET S
  PROVE  /\ Cardinality(S) \in Nat /\ Cardinality(T) \in Nat
         /\ Cardinality(T) <= Cardinality(S)
         /\ Cardinality(S) <= Cardinality(Blocks)
  <1>1. IsFiniteSet(S) /\ Cardinality(S) <= Cardinality(Blocks)
    BY Constants, FS_Subset
  <1>2. IsFiniteSet(T) /\ Cardinality(T) <= Cardinality(S)
    BY <1>1, FS_Subset
  <1> QED BY <1>1, <1>2, FS_CardinalityType

(* The length of the vector is a number the vector has room for. *)
LEMMA LenRange ==
  ASSUME Types, Room
  PROVE  /\ Len(segments) \in 0 .. MaxSegments
         /\ Cardinality(Building) \in Nat
         /\ DOMAIN segments = 1 .. Len(segments)
         /\ \A i \in 0 .. (Len(segments) - 1) :
              /\ i \in 0 .. (MaxSegments - 1)
              /\ i + 1 \in 1 .. Len(segments)
              /\ Segment(i) \in SlabRecord
  <1>1. Len(segments) \in Nat /\ DOMAIN segments = 1 .. Len(segments)
    BY LenProperties DEF Types
  <1>2. Building \in SUBSET Threads
    BY DEF Building
  <1>3. Cardinality(Building) \in Nat
    BY <1>2, ThreadSets
  <1>4. Len(segments) <= MaxSegments
    BY <1>1, <1>3, Constants DEF Room
  <1>5. \A i \in 0 .. (Len(segments) - 1) : i + 1 \in 1 .. Len(segments)
    BY <1>1
  <1>6. \A i \in 0 .. (Len(segments) - 1) : Segment(i) \in SlabRecord
    BY <1>5, ElementOfSeq DEF Types, Segment
  <1> QED BY <1>1, <1>3, <1>4, <1>5, <1>6, Constants

LEMMA InitInv == Init => IndInv
  <1> SUFFICES ASSUME Init PROVE IndInv
    OBVIOUS
  <1>0. Sound(NewSlab(FALSE, 0), Nobody)
    BY NewSlabSound
  <1> DEFINE x == NewSlab(FALSE, 0)
  <1> HIDE DEF x
  <1>1. /\ segments \in {<<>>, <<x>>}
        /\ first_open_hint = 0
        /\ pc = [t \in Threads |-> "idle"]
        /\ fits = [t \in Threads |-> TRUE]
        /\ len_before_drop = [t \in Threads |-> 0]
        /\ held = [b \in Blocks |-> 0]
        /\ peak = 0
    BY DEF Init, x
  <1>2. x \in SlabRecord
    BY <1>0 DEF Sound, x
  <1>3. /\ segments \in Seq(SlabRecord)
        /\ Len(segments) \in 0 .. 1
        /\ Len(segments) = 1 => segments[1] = x
    <2>1. CASE segments = <<>>
      BY <2>1
    <2>2. CASE segments = <<x>>
      <3>1. <<x>> \in Seq(SlabRecord) /\ Len(<<x>>) = 1 /\ <<x>>[1] = x
        BY <1>2
      <3> QED BY <2>2, <3>1
    <2> QED BY <1>1, <2>1, <2>2
  <1> DEFINE n == Len(segments)
  <1>31. n \in Nat /\ (n = 0 \/ n = 1)
    BY <1>3
  <1>32. \A i \in 0 .. (n - 1) : i = 0 /\ n = 1
    <2> HIDE DEF n
    <2> QED BY <1>31
  <1>4. pc \in [Threads -> {"idle", "build", "install"}]
        /\ len_before_drop \in [Threads -> 0 .. MaxSegments]
        /\ first_open_hint \in 0 .. MaxSegments
        /\ held \in [Blocks -> {0, 1}]
        /\ peak \in 0 .. Cardinality(Blocks)
    BY <1>1, Constants
  <1>5. fits \in [Threads -> BOOLEAN]
    BY <1>1
  <1>6. Types
    BY <1>3, <1>4, <1>5 DEF Types
  <1>7. ASSUME NEW i \in 0 .. (MaxSegments - 1)
        PROVE  Own(i) = Nobody
    BY <1>1 DEF Own, Nobody, Blocks
  <1>8. SegmentsSound
    <2>1. ASSUME NEW i \in 0 .. (Len(segments) - 1) PROVE Sound(Segment(i), Own(i))
      <3>1. i = 0 /\ Len(segments) = 1
        BY <1>32
      <3>2. Segment(i) = x
        BY <3>1, <1>3 DEF Segment
      <3>3. Own(i) = Nobody
        BY <3>1, <1>7, Constants
      <3> QED BY <1>0, <3>2, <3>3 DEF x
    <2>2. \A i \in 0 .. (MaxSegments - 1), s \in Slots : held[<<i, s>>] = 0
      BY <1>1 DEF Blocks
    <2> QED BY <2>1, <2>2 DEF SegmentsSound
  <1>9. Building = {} /\ Growing = {}
    BY <1>1 DEF Building, Growing
  <1>10. {b \in Blocks : held[b] > 0} = {}
    BY <1>1
  <1>11. PeakHolds
    BY <1>1, <1>10, FS_EmptySet DEF PeakHolds, HeldCount
  <1>12. Cardinality(Building) = 0 /\ Cardinality(Growing) = 0
    BY <1>9, FS_EmptySet
  <1>13. Room /\ Growth
    <2>1. (peak \div Capacity) \in Nat
      BY <1>1, Constants, DivType
    <2>2. n + Cardinality(Building) <= MaxSegments
      <3> HIDE DEF n
      <3> QED BY <1>31, <1>12, Constants
    <2>3. n + Cardinality(Growing) <= (peak \div Capacity) + Cardinality(Threads)
      <3> HIDE DEF n
      <3> QED BY <1>31, <1>12, <2>1, Constants
    <2> QED BY <2>2, <2>3 DEF Room, Growth
  <1> QED BY <1>6, <1>8, <1>11, <1>13 DEF IndInv

-----------------------------------------------------------------------------
(* What the steps do.                                                      *)

(* The types of the locals once allocate has returned, and that a thread   *)
(* that returned neither builds nor grows.                                 *)
LEMMA ReturnEffect ==
  ASSUME Types, NEW t \in Threads, Return(t)
  PROVE  /\ pc' \in [Threads -> {"idle", "build", "install"}]
         /\ fits' \in [Threads -> BOOLEAN]
         /\ len_before_drop' \in [Threads -> 0 .. MaxSegments]
         /\ Building' = Building \ {t}
         /\ Growing' = Growing \ {t}
  <1>1. pc' = [pc EXCEPT ![t] = "idle"] /\ pc \in [Threads -> {"idle", "build", "install"}]
    BY DEF Return, Types
  <1>2. fits' = [fits EXCEPT ![t] = TRUE] /\ fits \in [Threads -> BOOLEAN]
    BY DEF Return, Types
  <1>3. len_before_drop' \in [Threads -> 0 .. MaxSegments]
    BY Constants DEF Return, Types
  <1>4. fits' \in [Threads -> BOOLEAN]
    BY <1>2
  <1>5. \A u \in Threads \ {t} : fits'[u] = fits[u]
    BY <1>2
  <1>6. pc' \in [Threads -> {"idle", "build", "install"}] /\ pc'[t] = "idle"
        /\ \A u \in Threads \ {t} : pc'[u] = pc[u]
    BY <1>1
  <1>7. Building' = Building \ {t}
    BY <1>6 DEF Building
  <1>8. Growing' = Growing \ {t}
    BY <1>5, <1>6 DEF Growing
  <1> QED BY <1>3, <1>4, <1>6, <1>7, <1>8

(* A caller receives a block nobody held. *)
LEMMA HoldEffect ==
  ASSUME Types, NEW i \in 0 .. (MaxSegments - 1), NEW s \in Slots,
         held[<<i, s>>] = 0, Hold(i, s)
  PROVE  /\ held' = [held EXCEPT ![<<i, s>>] = 1]
         /\ held' \in [Blocks -> {0, 1}]
         /\ \A u \in Slots : held'[<<i, u>>] = IF u = s THEN 1 ELSE held[<<i, u>>]
         /\ \A j \in 0 .. (MaxSegments - 1), u \in Slots :
              j # i => held'[<<j, u>>] = held[<<j, u>>]
         /\ peak' \in 0 .. Cardinality(Blocks)
         /\ peak <= peak'
         /\ PeakHolds'
  <1> DEFINE b == <<i, s>>
  <1>1. b \in Blocks
    BY DEF Blocks
  <1>2. held' = [held EXCEPT ![b] = 1]
    BY DEF Hold
  <1>3. held' \in [Blocks -> {0, 1}]
    BY <1>1, <1>2 DEF Types
  <1>4. \A j \in 0 .. (MaxSegments - 1), u \in Slots :
          held'[<<j, u>>] = IF <<j, u>> = b THEN 1 ELSE held[<<j, u>>]
    BY <1>2 DEF Types, Blocks
  <1>5. HeldCount' \in Nat /\ HeldCount' <= Cardinality(Blocks)
    <2>1. {c \in Blocks : held'[c] > 0} \in SUBSET Blocks
      OBVIOUS
    <2> QED BY <2>1, BlockSets DEF HeldCount
  <1>6. peak' = MaxOf(peak, HeldCount') /\ peak \in 0 .. Cardinality(Blocks)
    BY DEF Hold, Types
  <1>7. peak' \in 0 .. Cardinality(Blocks) /\ peak <= peak' /\ HeldCount' <= peak'
    BY <1>5, <1>6, Constants DEF MaxOf
  <1> QED BY <1>2, <1>3, <1>4, <1>7 DEF PeakHolds

(* A vector of which one segment changed along with who owns its slots. *)
LEMMA SegmentChanged ==
  ASSUME Types, Room, SegmentsSound,
         NEW i \in 0 .. (Len(segments) - 1), NEW y, Sound(y, Own(i)'),
         segments' = [segments EXCEPT ![i + 1] = y],
         \A j \in 0 .. (MaxSegments - 1), u \in Slots :
           j # i => held'[<<j, u>>] = held[<<j, u>>]
  PROVE  /\ segments' \in Seq(SlabRecord)
         /\ Len(segments') = Len(segments)
         /\ SegmentsSound'
  <1>1. y \in SlabRecord
    BY DEF Sound
  <1>2. i + 1 \in 1 .. Len(segments) /\ segments \in Seq(SlabRecord)
    BY LenRange DEF Types
  <1>3. /\ segments' \in Seq(SlabRecord)
        /\ Len(segments') = Len(segments)
        /\ \A j \in 1 .. Len(segments) : segments'[j] = IF j = i + 1 THEN y ELSE segments[j]
    BY <1>1, <1>2, ExceptSeq
  <1> DEFINE n == Len(segments)
  <1>4. n \in 0 .. MaxSegments
    BY LenRange
  <1>5. ASSUME NEW j \in 0 .. (n - 1) PROVE Sound(Segment(j)', Own(j)')
    <2>1. j + 1 \in 1 .. n /\ j \in 0 .. (MaxSegments - 1)
      BY LenRange
    <2>2. CASE j = i
      <3>1. Segment(j)' = y
        BY <2>1, <2>2, <1>3 DEF Segment
      <3> QED BY <2>2, <3>1
    <2>3. CASE j # i
      <3>0. i + 1 # j + 1
        BY <2>3, <1>4, LenRange
      <3>1. Segment(j)' = Segment(j)
        BY <2>1, <3>0, <1>3 DEF Segment
      <3>2. Own(j)' = Own(j)
        BY <2>1, <2>3 DEF Own
      <3>3. Sound(Segment(j), Own(j))
        BY DEF SegmentsSound
      <3> QED BY <3>1, <3>2, <3>3
    <2> QED BY <2>2, <2>3
  <1>6. ASSUME NEW j \in 0 .. (MaxSegments - 1), NEW u \in Slots, j >= n
        PROVE  held'[<<j, u>>] = 0
    <2>1. j # i
      BY <1>4, <1>6
    <2> QED BY <2>1, <1>6 DEF SegmentsSound
  <1> QED BY <1>3, <1>5, <1>6 DEF SegmentsSound

(* The bounds on growth hold when no thread started to grow. *)
LEMMA GrowthKept ==
  ASSUME Types, Room, Growth,
         Building' \subseteq Building, Growing' \subseteq Growing,
         Len(segments') = Len(segments), peak' \in Nat, peak <= peak'
  PROVE  Room' /\ Growth'
  <1>1. Building \in SUBSET Threads /\ Growing \in SUBSET Threads
    BY DEF Building, Growing
  <1>2. /\ Cardinality(Building) \in Nat /\ Cardinality(Building') \in Nat
        /\ Cardinality(Building') <= Cardinality(Building)
        /\ Cardinality(Growing) \in Nat /\ Cardinality(Growing') \in Nat
        /\ Cardinality(Growing') <= Cardinality(Growing)
    BY <1>1, ThreadSets
  <1>3. peak \in Nat
    BY Constants DEF Types
  <1> DEFINE p == peak \div Capacity
             q == peak' \div Capacity
  <1>4. p \in Nat /\ q \in Nat /\ p <= q
    BY <1>3, Constants, DivType, DivMonotone
  <1>5. Len(segments) \in Nat
    BY LenRange
  <1>6. Room'
    BY <1>2, <1>5, Constants DEF Room
  <1> HIDE DEF p, q
  <1>7. Len(segments) + Cardinality(Growing) <= p + Cardinality(Threads)
    BY DEF Growth, p
  <1>8. Len(segments') + Cardinality(Growing') <= q + Cardinality(Threads)
    BY <1>2, <1>4, <1>5, <1>7, Constants
  <1> QED BY <1>6, <1>8 DEF Growth, q

(* A block passes between the pool and one caller, or none does. *)
PoolStep ==
  \/ \E b \in Blocks : held[b] = 0 /\ held' = [held EXCEPT ![b] = 1]
  \/ \E b \in Blocks : held[b] = 1 /\ held' = [held EXCEPT ![b] = 0]
  \/ held' = held

(* allocate serves the request from segment i. *)
LEMMA TakeFromStep ==
  ASSUME IndInv, NEW t \in Threads, NEW i \in 0 .. (Len(segments) - 1),
         Allocate(Segment(i), TRUE).slot # NoSlot,
         TakeFrom(t, i), first_open_hint' \in 0 .. MaxSegments
  PROVE  IndInv' /\ PoolStep
  <1> DEFINE a == Allocate(Segment(i), TRUE)
  <1>1. Types /\ SegmentsSound /\ Room /\ PeakHolds /\ Growth
    BY DEF IndInv
  <1>2. i \in 0 .. (MaxSegments - 1)
    BY <1>1, LenRange
  <1>3. Sound(Segment(i), Own(i))
    BY <1>1 DEF SegmentsSound
  <1>4. /\ segments' = [segments EXCEPT ![i + 1] = a.slab]
        /\ Hold(i, a.slot)
        /\ Return(t)
    BY DEF TakeFrom
  <1>5. /\ a.slot \in Slots
        /\ Own(i)[a.slot] = 0
        /\ Sound(a.slab, [Own(i) EXCEPT ![a.slot] = 1])
    BY <1>3, AllocateSound
  <1> DEFINE s == a.slot
             y == a.slab
  <1> HIDE DEF a
  <1>6. held[<<i, s>>] = 0
    BY <1>5 DEF Own
  <1>7. /\ held' = [held EXCEPT ![<<i, s>>] = 1]
        /\ held' \in [Blocks -> {0, 1}]
        /\ \A u \in Slots : held'[<<i, u>>] = IF u = s THEN 1 ELSE held[<<i, u>>]
        /\ \A j \in 0 .. (MaxSegments - 1), u \in Slots :
             j # i => held'[<<j, u>>] = held[<<j, u>>]
        /\ peak' \in 0 .. Cardinality(Blocks)
        /\ peak <= peak'
        /\ PeakHolds'
    BY <1>1, <1>2, <1>4, <1>5, <1>6, HoldEffect
  <1>8. Own(i)' = [Own(i) EXCEPT ![s] = 1]
    <2> HIDE DEF s
    <2>1. Own(i)' = [u \in Slots |-> IF u = s THEN 1 ELSE held[<<i, u>>]]
      BY <1>7 DEF Own
    <2>2. [Own(i) EXCEPT ![s] = 1] = [u \in Slots |-> IF u = s THEN 1 ELSE held[<<i, u>>]]
      BY DEF Own
    <2> QED BY <2>1, <2>2
  <1>9. /\ segments' \in Seq(SlabRecord)
        /\ Len(segments') = Len(segments)
        /\ SegmentsSound'
    <2>1. Sound(y, Own(i)')
      BY <1>5, <1>8
    <2>2. segments' = [segments EXCEPT ![i + 1] = y]
      BY <1>4
    <2> HIDE DEF y
    <2> QED BY <1>1, <1>7, <2>1, <2>2, SegmentChanged
  <1>10. /\ pc' \in [Threads -> {"idle", "build", "install"}]
         /\ fits' \in [Threads -> BOOLEAN]
         /\ len_before_drop' \in [Threads -> 0 .. MaxSegments]
         /\ Building' = Building \ {t}
         /\ Growing' = Growing \ {t}
    BY <1>1, <1>4, ReturnEffect
  <1>11. Types'
    BY <1>7, <1>9, <1>10 DEF Types
  <1>12. Room' /\ Growth'
    <2>1. Building' \subseteq Building /\ Growing' \subseteq Growing
      BY <1>10
    <2>2. peak' \in Nat
      BY <1>7, Constants
    <2> QED BY <1>1, <1>7, <1>9, <2>1, <2>2, GrowthKept
  <1>13. <<i, s>> \in Blocks
    BY <1>2, <1>5 DEF Blocks
  <1>14. PoolStep
    BY <1>6, <1>7, <1>13 DEF PoolStep
  <1> QED BY <1>7, <1>9, <1>11, <1>12, <1>14 DEF IndInv

(* The segments that serve a request are in the vector, and the request    *)
(* fits them.                                                              *)
LEMMA ServingRange ==
  ASSUME IndInv, NEW f \in BOOLEAN, NEW lo \in Nat, NEW hi \in Nat,
         hi <= Len(segments), Serving(f, lo, hi) # {}
  PROVE  LET i == Min(Serving(f, lo, hi))
         IN  /\ i \in 0 .. (Len(segments) - 1)
             /\ i \in Nat /\ i < hi
             /\ Allocate(Segment(i), TRUE).slot # NoSlot
  <1> DEFINE S == Serving(f, lo, hi)
             i == Min(S)
  <1>1. Len(segments) \in Nat
    BY LenRange DEF IndInv
  <1>2. S \subseteq lo .. (hi - 1)
    BY DEF Serving
  <1>3. S \in SUBSET Nat
    BY <1>2
  <1>4. i \in S
    <2>1. S # {}
      OBVIOUS
    <2> HIDE DEF S
    <2> QED BY <1>3, <2>1, MinIsMember
  <1>5. i \in Nat /\ i < hi /\ i \in 0 .. (Len(segments) - 1)
    <2> HIDE DEF i, S
    <2> QED BY <1>1, <1>2, <1>4
  <1>6. Allocate(Segment(i), f).slot # NoSlot
    <2> HIDE DEF i
    <2> QED BY <1>4 DEF Serving
  <1>7. Allocate(Segment(i), TRUE).slot # NoSlot
    BY <1>6, AllocateUnfit
  <1> QED BY <1>5, <1>7

(* Phase 1 fails for a request that fits only if every block is held. *)
LEMMA FullMeansHeld ==
  ASSUME IndInv, NEW f \in BOOLEAN, f,
         Serving(f, Start, Len(segments)) = {}, Rewalk(f) = {}
  PROVE  \A i \in 0 .. (Len(segments) - 1), s \in Slots : held[<<i, s>>] = 1
  <1> SUFFICES ASSUME NEW i \in 0 .. (Len(segments) - 1), NEW s \in Slots
               PROVE  held[<<i, s>>] = 1
    OBVIOUS
  <1>1. Len(segments) \in Nat /\ first_open_hint \in Nat
    BY LenRange, Constants DEF IndInv, Types
  <1>2. Start \in Nat /\ Start <= Len(segments)
    BY <1>1 DEF Start, MinOf
  <1>3. i \in 0 .. (Start - 1) \/ i \in Start .. (Len(segments) - 1)
    BY <1>1, <1>2
  <1>4. Allocate(Segment(i), f).slot = NoSlot
    <2>1. CASE i \in 0 .. (Start - 1)
      BY <2>1 DEF Rewalk, Serving
    <2>2. CASE i \in Start .. (Len(segments) - 1)
      BY <2>2 DEF Serving
    <2> QED BY <1>3, <2>1, <2>2
  <1>5. f = TRUE
    OBVIOUS
  <1>6. Allocate(Segment(i), TRUE).slot = NoSlot
    BY <1>4, <1>5
  <1>7. Sound(Segment(i), Own(i))
    BY DEF IndInv, SegmentsSound
  <1>8. Own(i)[s] = 1
    BY <1>6, <1>7, AllocateSound
  <1> QED BY <1>8 DEF Own

(* Then the peak is at least what the segments hold. *)
LEMMA FullPeak ==
  ASSUME IndInv,
         \A i \in 0 .. (Len(segments) - 1), s \in Slots : held[<<i, s>>] = 1
  PROVE  Len(segments) <= (peak \div Capacity)
  <1> DEFINE n == Len(segments)
             F == (0 .. (n - 1)) \X Slots
             H == {b \in Blocks : held[b] > 0}
  <1>1. n \in 0 .. MaxSegments /\ n \in Nat
    BY LenRange DEF IndInv
  <1>2. F \subseteq Blocks
    BY <1>1, Constants DEF Blocks
  <1>3. ASSUME NEW b \in F PROVE held[b] > 0
    <2>1. PICK i \in 0 .. (n - 1), s \in Slots : b = <<i, s>>
      OBVIOUS
    <2>2. held[<<i, s>>] = 1
      OBVIOUS
    <2> QED BY <2>1, <2>2
  <1>4. F \in SUBSET H /\ H \in SUBSET Blocks
    BY <1>2, <1>3
  <1>5. Cardinality(F) = n * Capacity
    <2>1. IsFiniteSet(0 .. (n - 1)) /\ Cardinality(0 .. (n - 1)) = n
      BY <1>1, FromZero
    <2>2. IsFiniteSet(Slots) /\ Cardinality(Slots) = Capacity
      BY Constants, FromZero DEF Slots
    <2> HIDE DEF n
    <2> QED BY <2>1, <2>2, FS_Product
  <1>6. Cardinality(F) <= Cardinality(H) /\ Cardinality(F) \in Nat /\ Cardinality(H) \in Nat
    <2> HIDE DEF F, H
    <2> QED BY <1>4, BlockSets
  <1>7. HeldCount = Cardinality(H)
    BY DEF HeldCount
  <1>8. HeldCount <= peak /\ peak \in Nat
    BY Constants DEF IndInv, PeakHolds, Types
  <1> HIDE DEF n, F, H
  <1> DEFINE m == n * Capacity
  <1>9. m \in Nat
    BY <1>5, <1>6
  <1>10. peak >= m
    <2> HIDE DEF m
    <2>1. Cardinality(F) = m
      BY <1>5 DEF m
    <2> QED BY <2>1, <1>6, <1>7, <1>8, <1>9
  <1>11. (peak \div Capacity) >= n
    BY <1>1, <1>8, <1>10, Constants, DivAtLeast
  <1>12. (peak \div Capacity) \in Nat
    BY <1>8, Constants, DivType
  <1> QED BY <1>1, <1>11, <1>12 DEF n

LEMMA Phase1FullStep ==
  ASSUME IndInv, NEW t \in Threads, NEW f \in BOOLEAN, pc[t] = "idle", Phase1Full(t, f)
  PROVE  IndInv' /\ PoolStep
  <1>1. Types /\ SegmentsSound /\ Room /\ PeakHolds /\ Growth
    BY DEF IndInv
  <1>2. /\ len_before_drop' = [len_before_drop EXCEPT ![t] = Len(segments)]
        /\ pc' = [pc EXCEPT ![t] = "build"]
        /\ UNCHANGED <<segments, first_open_hint, held, peak>>
    BY DEF Phase1Full
  <1>3. fits' = [fits EXCEPT ![t] = f] /\ fits \in [Threads -> BOOLEAN]
    BY <1>1 DEF Phase1Full, Types
  <1>4. fits' \in [Threads -> BOOLEAN] /\ (fits'[t] <=> f)
    BY <1>3
  <1>5. \A u \in Threads \ {t} : fits'[u] = fits[u]
    BY <1>3
  <1>6. Len(segments) \in 0 .. MaxSegments
    BY <1>1, LenRange
  <1>7. /\ pc' \in [Threads -> {"idle", "build", "install"}]
        /\ pc'[t] = "build" /\ \A u \in Threads \ {t} : pc'[u] = pc[u]
        /\ len_before_drop' \in [Threads -> 0 .. MaxSegments]
    BY <1>1, <1>2, <1>6 DEF Types
  <1>8. Types'
    BY <1>1, <1>2, <1>4, <1>7 DEF Types
  <1>9. SegmentsSound' /\ PeakHolds'
    BY <1>1, <1>2 DEF SegmentsSound, PeakHolds, HeldCount, Segment, Own
  <1>10. Building' \subseteq Building
    BY <1>7 DEF Building
  <1>11. t \notin Growing
    BY DEF Growing
  <1>12. Room'
    <2>1. Building \in SUBSET Threads
      BY DEF Building
    <2>2. /\ Cardinality(Building) \in Nat /\ Cardinality(Building') \in Nat
          /\ Cardinality(Building') <= Cardinality(Building)
      BY <1>10, <2>1, ThreadSets
    <2> QED BY <1>1, <1>2, <1>6, <2>2, Constants DEF Room
  <1>13. Growth'
    <2>1. CASE f
      <3>1. Len(segments) <= (peak \div Capacity)
        <4>1. \A i \in 0 .. (Len(segments) - 1), s \in Slots : held[<<i, s>>] = 1
          BY <2>1, FullMeansHeld DEF Phase1Full
        <4> QED BY <4>1, FullPeak
      <3>2. Growing' \in SUBSET Threads
        BY DEF Growing
      <3>3. Cardinality(Growing') <= Cardinality(Threads) /\ Cardinality(Growing') \in Nat
        BY <3>2, ThreadSets
      <3>4. (peak \div Capacity) \in Nat
        <4>1. peak \in Nat
          BY <1>1, Constants DEF Types
        <4> QED BY <4>1, Constants, DivType
      <3> QED BY <1>2, <1>6, <3>1, <3>3, <3>4, Constants DEF Growth
    <2>2. CASE ~f
      <3>1. Growing' = Growing
        BY <2>2, <1>4, <1>5, <1>7, <1>11 DEF Growing
      <3> QED BY <1>1, <1>2, <3>1 DEF Growth
    <2> QED BY <2>1, <2>2
  <1> QED BY <1>2, <1>8, <1>9, <1>12, <1>13 DEF IndInv, PoolStep

LEMMA Phase1Step ==
  ASSUME IndInv, NEW t \in Threads, NEW f \in BOOLEAN, Phase1(t, f)
  PROVE  IndInv' /\ PoolStep
  <1>1. Len(segments) \in 0 .. MaxSegments /\ first_open_hint \in 0 .. MaxSegments
    BY LenRange DEF IndInv, Types
  <1>2. Start \in Nat /\ Start <= Len(segments) /\ Len(segments) \in Nat
    BY <1>1, Constants DEF Start, MinOf
  <1>3. CASE Phase1Forward(t, f)
    <2> DEFINE S == Serving(f, Start, Len(segments))
               i == Min(S)
    <2>1. /\ S # {}
          /\ TakeFrom(t, i)
          /\ first_open_hint' = IF i > Start THEN MaxOf(first_open_hint, i)
                                             ELSE first_open_hint
      BY <1>3 DEF Phase1Forward
    <2>2. /\ i \in 0 .. (Len(segments) - 1)
          /\ Allocate(Segment(i), TRUE).slot # NoSlot
      <3>1. Len(segments) <= Len(segments) /\ S # {}
        BY <1>2, <2>1
      <3> QED BY <1>2, <3>1, ServingRange
    <2> HIDE DEF i
    <2>3. first_open_hint' \in 0 .. MaxSegments
      BY <1>1, <2>1, <2>2, Constants DEF MaxOf
    <2> QED BY <2>1, <2>2, <2>3, TakeFromStep
  <1>4. CASE Phase1Backward(t, f)
    <2> DEFINE S == Serving(f, 0, Start)
               i == Min(S)
    <2>1. S # {} /\ TakeFrom(t, i) /\ first_open_hint' = MinOf(first_open_hint, i)
      BY <1>4 DEF Phase1Backward, Rewalk
    <2>2. /\ i \in 0 .. (Len(segments) - 1)
          /\ Allocate(Segment(i), TRUE).slot # NoSlot
      <3>1. 0 \in Nat
        OBVIOUS
      <3> QED BY <1>2, <2>1, <3>1, ServingRange
    <2> HIDE DEF i
    <2>3. first_open_hint' \in 0 .. MaxSegments
      BY <1>1, <2>1, <2>2, Constants DEF MinOf
    <2> QED BY <2>1, <2>2, <2>3, TakeFromStep
  <1>5. CASE Phase1Full(t, f)
    <2>1. pc[t] = "idle"
      BY DEF Phase1
    <2> QED BY <1>5, <2>1, Phase1FullStep
  <1> QED BY <1>3, <1>4, <1>5 DEF Phase1

LEMMA Phase2Step ==
  ASSUME IndInv, NEW t \in Threads, Phase2(t)
  PROVE  IndInv' /\ PoolStep
  <1>1. Types /\ SegmentsSound /\ Room /\ PeakHolds /\ Growth
    BY DEF IndInv
  <1>2. pc[t] = "build" /\ UNCHANGED <<segments, first_open_hint, held, peak>>
    BY DEF Phase2
  <1>3. SegmentsSound' /\ PeakHolds' /\ PoolStep
    BY <1>1, <1>2 DEF SegmentsSound, PeakHolds, HeldCount, Segment, Own, PoolStep
  <1>4. peak \in Nat /\ Len(segments) \in Nat
    BY <1>1, Constants, LenRange DEF Types
  <1>5. CASE Return(t)
    <2>1. /\ pc' \in [Threads -> {"idle", "build", "install"}]
          /\ fits' \in [Threads -> BOOLEAN]
          /\ len_before_drop' \in [Threads -> 0 .. MaxSegments]
          /\ Building' = Building \ {t}
          /\ Growing' = Growing \ {t}
      BY <1>1, <1>5, ReturnEffect
    <2>2. Types'
      BY <1>1, <1>2, <2>1 DEF Types
    <2>3. Building' \subseteq Building /\ Growing' \subseteq Growing
      BY <2>1
    <2>4. Room' /\ Growth'
      BY <1>1, <1>2, <1>4, <2>3, GrowthKept
    <2> QED BY <1>3, <2>2, <2>4 DEF IndInv
  <1>6. CASE /\ Len(segments) + Cardinality(Building) < MaxSegments
             /\ pc' = [pc EXCEPT ![t] = "install"]
             /\ UNCHANGED <<fits, len_before_drop>>
    <2>1. /\ pc' \in [Threads -> {"idle", "build", "install"}]
          /\ pc'[t] = "install" /\ \A u \in Threads \ {t} : pc'[u] = pc[u]
      BY <1>1, <1>6 DEF Types
    <2>2. Types'
      BY <1>1, <1>2, <1>6, <2>1 DEF Types
    <2>3. Building' = Building \cup {t} /\ t \notin Building
      BY <1>2, <2>1 DEF Building
    <2>4. Growing' = Growing
      BY <1>2, <1>6, <2>1 DEF Growing
    <2>5. Cardinality(Building') = Cardinality(Building) + 1 /\ Cardinality(Building) \in Nat
      <3>1. Building \in SUBSET Threads
        BY DEF Building
      <3>2. IsFiniteSet(Building) /\ Cardinality(Building) \in Nat
        BY <3>1, ThreadSets
      <3> QED BY <3>2, <2>3, FS_AddElement
    <2>6. Room'
      BY <1>2, <1>4, <1>6, <2>5, Constants DEF Room
    <2>7. Growth'
      BY <1>1, <1>2, <2>4 DEF Growth
    <2> QED BY <1>3, <2>2, <2>6, <2>7 DEF IndInv
  <1> QED BY <1>5, <1>6 DEF Phase2

(* Appending a segment that serves its first request. *)
LEMMA InstallStep ==
  ASSUME IndInv, NEW t \in Threads, pc[t] = "install", Phase3Install(t)
  PROVE  IndInv' /\ PoolStep
  <1> DEFINE f == fits[t]
             n == Len(segments)
  <1>1. Types /\ SegmentsSound /\ Room /\ PeakHolds /\ Growth
    BY DEF IndInv
  <1>2. f \in BOOLEAN
    BY <1>1 DEF Types
  <1>3. /\ pc' \in [Threads -> {"idle", "build", "install"}]
        /\ fits' \in [Threads -> BOOLEAN]
        /\ len_before_drop' \in [Threads -> 0 .. MaxSegments]
        /\ Building' = Building \ {t}
        /\ Growing' = Growing \ {t}
    BY <1>1, ReturnEffect DEF Phase3Install
  <1>4. n \in 0 .. MaxSegments /\ n \in Nat /\ peak \in Nat
    BY <1>1, LenRange, Constants DEF Types
  <1>5. CASE Allocate(NewSlab(FALSE, 0), f).slot = NoSlot
    <2>1. UNCHANGED <<segments, first_open_hint, held, peak>>
      BY <1>5 DEF Phase3Install
    <2>2. SegmentsSound' /\ PeakHolds' /\ PoolStep
      BY <1>1, <2>1 DEF SegmentsSound, PeakHolds, HeldCount, Segment, Own, PoolStep
    <2>3. Types'
      BY <1>1, <1>3, <2>1 DEF Types
    <2>4. Building' \subseteq Building /\ Growing' \subseteq Growing
      BY <1>3
    <2>5. Room' /\ Growth'
      BY <1>1, <1>4, <2>1, <2>4, GrowthKept
    <2> QED BY <2>2, <2>3, <2>5 DEF IndInv
  <1>6. CASE Allocate(NewSlab(FALSE, 0), f).slot # NoSlot
    <2> DEFINE a == Allocate(NewSlab(FALSE, 0), TRUE)
    <2>1. f /\ Allocate(NewSlab(FALSE, 0), f) = a
      BY <1>2, <1>6, AllocateUnfit
    <2>2. a.slot # NoSlot
      BY <1>6, <2>1
    <2>3. /\ segments' = Append(segments, a.slab)
          /\ Hold(n, a.slot)
          /\ first_open_hint' = n
      BY <1>6, <2>1 DEF Phase3Install
    <2>4. /\ a.slot \in Slots
          /\ Sound(a.slab, [Nobody EXCEPT ![a.slot] = 1])
      BY <2>2, NewSlabSound, AllocateSound
    <2> DEFINE s == a.slot
               y == a.slab
    <2> HIDE DEF a
    <2>5. t \in Building /\ t \in Growing
      BY <2>1 DEF Building, Growing
    <2>6. /\ Cardinality(Building') = Cardinality(Building) - 1
          /\ Cardinality(Growing') = Cardinality(Growing) - 1
          /\ Cardinality(Building) \in Nat /\ Cardinality(Growing) \in Nat
          /\ Cardinality(Building) > 0
      <3>1. Building \in SUBSET Threads /\ Growing \in SUBSET Threads
        BY DEF Building, Growing
      <3>2. /\ IsFiniteSet(Building) /\ Cardinality(Building) \in Nat
            /\ IsFiniteSet(Growing) /\ Cardinality(Growing) \in Nat
        BY <3>1, ThreadSets
      <3>3. Cardinality(Building) # 0
        BY <2>5, <3>2, FS_EmptySet
      <3>4. /\ Cardinality(Building \ {t}) = Cardinality(Building) - 1
            /\ Cardinality(Growing \ {t}) = Cardinality(Growing) - 1
        BY <2>5, <3>2, FS_RemoveElement
      <3>5. Building' = Building \ {t} /\ Growing' = Growing \ {t}
        BY <1>3
      <3> QED BY <3>2, <3>3, <3>4, <3>5
    <2>7. n < MaxSegments /\ n \in 0 .. (MaxSegments - 1)
      BY <1>1, <1>4, <2>6, Constants DEF Room
    <2>8. \A u \in Slots : held[<<n, u>>] = 0
      BY <1>1, <1>4, <2>7 DEF SegmentsSound
    <2>9. /\ held' = [held EXCEPT ![<<n, s>>] = 1]
          /\ held' \in [Blocks -> {0, 1}]
          /\ \A u \in Slots : held'[<<n, u>>] = IF u = s THEN 1 ELSE held[<<n, u>>]
          /\ \A j \in 0 .. (MaxSegments - 1), u \in Slots :
               j # n => held'[<<j, u>>] = held[<<j, u>>]
          /\ peak' \in 0 .. Cardinality(Blocks)
          /\ peak <= peak'
          /\ PeakHolds'
      BY <1>1, <2>3, <2>4, <2>7, <2>8, HoldEffect
    <2>10. y \in SlabRecord
      BY <2>4 DEF Sound
    <2> HIDE DEF s, y
    <2>11. /\ segments' \in Seq(SlabRecord)
           /\ Len(segments') = n + 1
           /\ \A j \in 1 .. n : segments'[j] = segments[j]
           /\ segments'[n + 1] = y
      <3>1. segments \in Seq(SlabRecord) /\ segments' = Append(segments, y)
        BY <1>1, <2>3 DEF Types, y
      <3> QED BY <2>10, <3>1, AppendProperties
    <2>12. ASSUME NEW j \in 0 .. n PROVE Sound(Segment(j)', Own(j)')
      <3>1. CASE j = n
        <4>1. [u \in Slots |-> held'[<<n, u>>]] = [Nobody EXCEPT ![s] = 1]
          BY <2>8, <2>9 DEF Nobody
        <4>2. Own(j)' = [Nobody EXCEPT ![s] = 1]
          BY <3>1, <4>1 DEF Own
        <4>3. Segment(j)' = y
          BY <3>1, <2>11 DEF Segment
        <4> QED BY <2>4, <4>2, <4>3 DEF s, y
      <3>2. CASE j # n
        <4>1. j \in 0 .. (n - 1) /\ j + 1 \in 1 .. n /\ j \in 0 .. (MaxSegments - 1)
          BY <3>2, <1>4, Constants
        <4>2. Segment(j)' = Segment(j)
          BY <4>1, <2>11 DEF Segment
        <4>3. Own(j)' = Own(j)
          BY <3>2, <4>1, <2>9 DEF Own
        <4>4. Sound(Segment(j), Own(j))
          BY <1>1, <4>1 DEF SegmentsSound
        <4> QED BY <4>2, <4>3, <4>4
      <3> QED BY <3>1, <3>2
    <2>13. ASSUME NEW j \in 0 .. (MaxSegments - 1), NEW u \in Slots, j >= n + 1
           PROVE  held'[<<j, u>>] = 0
      <3>1. j # n /\ j >= n
        BY <1>4, <2>13
      <3> QED BY <1>1, <2>9, <3>1 DEF SegmentsSound
    <2>14. SegmentsSound'
      <3>1. \A j \in 0 .. (Len(segments') - 1) : j \in 0 .. n
        BY <1>4, <2>11
      <3> QED BY <2>11, <2>12, <2>13, <3>1 DEF SegmentsSound
    <2>15. Types'
      BY <1>3, <1>4, <2>3, <2>9, <2>11 DEF Types
    <2>16. Room'
      BY <1>1, <1>4, <2>6, <2>11, Constants DEF Room
    <2>17. Growth'
      <3> DEFINE p == peak \div Capacity
                 q == peak' \div Capacity
      <3>1. peak' \in Nat
        BY <2>9, Constants
      <3>2. p \in Nat /\ q \in Nat /\ p <= q
        BY <1>4, <2>9, <3>1, Constants, DivType, DivMonotone
      <3> HIDE DEF p, q
      <3>3. n + Cardinality(Growing) <= p + Cardinality(Threads)
        BY <1>1 DEF Growth, p
      <3>4. (n + 1) + Cardinality(Growing') <= q + Cardinality(Threads)
        BY <1>4, <2>6, <3>2, <3>3, Constants
      <3> QED BY <2>11, <3>4 DEF Growth, q
    <2>18. PoolStep
      <3>1. <<n, s>> \in Blocks /\ held[<<n, s>>] = 0
        BY <2>4, <2>7, <2>8 DEF Blocks, s
      <3> QED BY <2>9, <3>1 DEF PoolStep
    <2> QED BY <2>9, <2>14, <2>15, <2>16, <2>17, <2>18 DEF IndInv
  <1> QED BY <1>5, <1>6

LEMMA Phase3Step ==
  ASSUME IndInv, NEW t \in Threads, Phase3(t)
  PROVE  IndInv' /\ PoolStep
  <1>1. CASE Phase3Reuse(t)
    <2> DEFINE f == fits[t]
               lo == len_before_drop[t]
               S == Serving(f, lo, Len(segments))
               i == Min(S)
    <2>1. S # {} /\ TakeFrom(t, i) /\ first_open_hint' = MaxOf(first_open_hint, i)
      BY <1>1 DEF Phase3Reuse
    <2>2. f \in BOOLEAN
      BY DEF IndInv, Types
    <2>3. /\ lo \in Nat /\ Len(segments) \in 0 .. MaxSegments
          /\ Len(segments) \in Nat /\ Len(segments) <= Len(segments)
          /\ first_open_hint \in 0 .. MaxSegments
      BY LenRange, Constants DEF IndInv, Types
    <2>4. S # {}
      BY <2>1
    <2>5. /\ i \in 0 .. (Len(segments) - 1)
          /\ Allocate(Segment(i), TRUE).slot # NoSlot
      <3> HIDE DEF f, lo
      <3> QED BY <2>2, <2>3, <2>4, ServingRange
    <2> HIDE DEF i
    <2>6. first_open_hint' \in 0 .. MaxSegments
      BY <2>1, <2>3, <2>5, Constants DEF MaxOf
    <2> QED BY <2>1, <2>5, <2>6, TakeFromStep
  <1>2. CASE Phase3Install(t)
    <2>1. pc[t] = "install"
      BY DEF Phase3
    <2> QED BY <1>2, <2>1, InstallStep
  <1> QED BY <1>1, <1>2 DEF Phase3

LEMMA DeallocateStep ==
  ASSUME IndInv, NEW i \in 0 .. (MaxSegments - 1), NEW s \in Slots, Deallocate(i, s)
  PROVE  IndInv' /\ PoolStep
  <1> DEFINE b == <<i, s>>
  <1>1. Types /\ SegmentsSound /\ Room /\ PeakHolds /\ Growth
    BY DEF IndInv
  <1>2. b \in Blocks
    BY DEF Blocks
  <1>3. held[b] = 1
    BY <1>1, <1>2 DEF Deallocate, Types
  <1>4. Len(segments) \in 0 .. MaxSegments /\ Len(segments) \in Nat
    BY <1>1, LenRange
  <1>5. i \in 0 .. (Len(segments) - 1)
    BY <1>1, <1>3, <1>4 DEF SegmentsSound
  <1>6. /\ held' = [held EXCEPT ![b] = 0]
        /\ first_open_hint' = MinOf(first_open_hint, i)
        /\ UNCHANGED <<pc, fits, len_before_drop, peak>>
    BY <1>3 DEF Deallocate
  <1>7. held' \in [Blocks -> {0, 1}] /\ held \in [Blocks -> {0, 1}]
    BY <1>1, <1>2, <1>6 DEF Types
  <1>8. \A j \in 0 .. (MaxSegments - 1), u \in Slots :
          held'[<<j, u>>] = IF <<j, u>> = b THEN 0 ELSE held[<<j, u>>]
    BY <1>6, <1>7 DEF Blocks
  <1>9. Own(i)' = [Own(i) EXCEPT ![s] = 0]
    <2>1. Own(i)' = [u \in Slots |-> IF u = s THEN 0 ELSE held[<<i, u>>]]
      BY <1>8 DEF Own
    <2>2. [Own(i) EXCEPT ![s] = 0] = [u \in Slots |-> IF u = s THEN 0 ELSE held[<<i, u>>]]
      BY DEF Own
    <2> QED BY <2>1, <2>2
  <1> DEFINE y == Push(Segment(i), s)
  <1>10. segments' = [segments EXCEPT ![i + 1] = y]
    BY DEF Deallocate, Segment
  <1>11. Sound(y, Own(i)')
    <2>1. Sound(Segment(i), Own(i))
      BY <1>1, <1>5 DEF SegmentsSound
    <2>2. Own(i)[s] = 1
      BY <1>3 DEF Own
    <2>3. Sound(y, [Own(i) EXCEPT ![s] = 0])
      BY <2>1, <2>2, PushSound
    <2> QED BY <2>3, <1>9
  <1> HIDE DEF y
  <1>12. /\ segments' \in Seq(SlabRecord)
         /\ Len(segments') = Len(segments)
         /\ SegmentsSound'
    <2>1. \A j \in 0 .. (MaxSegments - 1), u \in Slots :
            j # i => held'[<<j, u>>] = held[<<j, u>>]
      BY <1>8
    <2> QED BY <1>1, <1>5, <1>10, <1>11, <2>1, SegmentChanged
  <1>13. first_open_hint' \in 0 .. MaxSegments
    BY <1>1, <1>6, Constants DEF Types, MinOf
  <1>14. Types'
    BY <1>1, <1>6, <1>7, <1>12, <1>13 DEF Types
  <1>15. PeakHolds'
    <2> DEFINE H == {c \in Blocks : held[c] > 0}
               K == {c \in Blocks : held'[c] > 0}
    <2>1. K \in SUBSET H /\ H \in SUBSET Blocks
      BY <1>2, <1>6, <1>7
    <2>2. /\ Cardinality(H) \in Nat /\ Cardinality(K) \in Nat
          /\ Cardinality(K) <= Cardinality(H)
      <3> HIDE DEF H, K
      <3> QED BY <2>1, BlockSets
    <2>3. HeldCount = Cardinality(H) /\ HeldCount' = Cardinality(K)
      BY DEF HeldCount
    <2>4. peak \in Nat /\ peak' = peak
      BY <1>1, <1>6, Constants DEF Types
    <2> HIDE DEF H, K
    <2> QED BY <1>1, <2>2, <2>3, <2>4 DEF PeakHolds
  <1>16. Room' /\ Growth'
    <2>1. Building' = Building /\ Growing' = Growing
      BY <1>6 DEF Building, Growing
    <2>2. peak' = peak
      BY <1>6
    <2> QED BY <1>1, <1>12, <2>1, <2>2 DEF Room, Growth
  <1>17. PoolStep
    BY <1>2, <1>3, <1>6 DEF PoolStep
  <1> QED BY <1>12, <1>14, <1>15, <1>16, <1>17 DEF IndInv

LEMMA NextInv == IndInv /\ [Next]_vars => IndInv' /\ PoolStep
  <1> SUFFICES ASSUME IndInv, [Next]_vars PROVE IndInv' /\ PoolStep
    OBVIOUS
  <1>1. ASSUME NEW t \in Threads, NEW f \in BOOLEAN, Phase1(t, f) PROVE IndInv' /\ PoolStep
    BY <1>1, Phase1Step
  <1>2. ASSUME NEW t \in Threads, Phase2(t) PROVE IndInv' /\ PoolStep
    BY <1>2, Phase2Step
  <1>3. ASSUME NEW t \in Threads, Phase3(t) PROVE IndInv' /\ PoolStep
    BY <1>3, Phase3Step
  <1>4. ASSUME NEW i \in 0 .. (MaxSegments - 1), NEW s \in Slots, Deallocate(i, s)
        PROVE  IndInv' /\ PoolStep
    BY <1>4, DeallocateStep
  <1>5. ASSUME UNCHANGED vars PROVE IndInv' /\ PoolStep
    BY <1>5 DEF IndInv, Types, SegmentsSound, Room, PeakHolds, Growth, vars, Segment, Own,
                Building, Growing, HeldCount, PoolStep
  <1> QED BY <1>1, <1>2, <1>3, <1>4, <1>5 DEF Next

LEMMA InductiveInvariant == Spec => []IndInv
BY InitInv, NextInv, PTL DEF Spec

-----------------------------------------------------------------------------
(* The theorems.                                                           *)

(* The vector, the hint, the snapshots of the racing threads and the free  *)
(* list of every segment stay in range (TypeOK), for any number of threads.*)
THEOREM TypesAlways == Spec => []TypeOK
  <1>1. IndInv => TypeOK
    <2> SUFFICES ASSUME IndInv PROVE TypeOK
      OBVIOUS
    <2>1. Types /\ Room
      BY DEF IndInv
    <2>2. Len(segments) \in 0 .. MaxSegments /\ DOMAIN segments = 1 .. Len(segments)
      BY <2>1, LenRange
    <2>3. \A i \in DOMAIN segments : /\ segments[i].free_head \in 0 .. Capacity
                                     /\ segments[i].next_uncarved \in 0 .. Capacity
      <3> SUFFICES ASSUME NEW i \in 1 .. Len(segments)
                   PROVE  /\ segments[i].free_head \in 0 .. Capacity
                          /\ segments[i].next_uncarved \in 0 .. Capacity
        BY <2>2
      <3>1. segments[i] \in SlabRecord
        BY <2>1, ElementOfSeq DEF Types
      <3> QED BY <3>1, RecordFields
    <2>4. held \in [Blocks -> Nat]
      BY <2>1 DEF Types
    <2> QED BY <2>1, <2>2, <2>3, <2>4 DEF TypeOK, Types
  <1> QED BY <1>1, InductiveInvariant, PTL

(* Racing threads over-grow the vector by at most one segment each         *)
(* (GrowthBounded): ExtendableSlab::allocate maps a segment outside the    *)
(* mutex, and the re-check of Phase 3 keeps the excess bounded.            *)
THEOREM GrowthBoundedAlways == Spec => []GrowthBounded
  <1>1. IndInv => GrowthBounded
    <2> SUFFICES ASSUME IndInv PROVE GrowthBounded
      OBVIOUS
    <2>1. Growing \in SUBSET Threads
      BY DEF Growing
    <2>2. Cardinality(Growing) \in Nat
      BY <2>1, ThreadSets
    <2>3. peak \in Nat /\ Len(segments) \in Nat
      BY LenRange, Constants DEF IndInv, Types
    <2>4. (peak \div Capacity) \in Nat
      BY <2>3, Constants, DivType
    <2> DEFINE p == peak \div Capacity
    <2>5. Len(segments) + Cardinality(Growing) <= p + Cardinality(Threads)
      BY DEF IndInv, Growth
    <2> HIDE DEF p
    <2>6. Len(segments) <= p + Cardinality(Threads)
      BY <2>2, <2>3, <2>4, <2>5, Constants DEF p
    <2> QED BY <2>6 DEF GrowthBounded, p
  <1> QED BY <1>1, InductiveInvariant, PTL

(* allocate decides to map a segment for a request that fits only in a     *)
(* state where every slot of every segment is in use, however stale the    *)
(* hint it started from (GrowsOnlyWhenFull).                               *)
THEOREM GrowthNeedsFullSegments == Spec => GrowsOnlyWhenFull
  <1> DEFINE A == \A t \in Threads :
                    pc[t] = "idle" /\ pc'[t] = "build" /\ fits'[t]
                      => \A i \in 0 .. (Len(segments) - 1), s \in Slots : held[<<i, s>>] > 0
  <1>1. IndInv /\ [Next]_vars => [A]_vars
    <2> SUFFICES ASSUME IndInv, Next, NEW t \in Threads,
                        pc[t] = "idle", pc'[t] = "build", fits'[t]
                 PROVE  \A i \in 0 .. (Len(segments) - 1), s \in Slots : held[<<i, s>>] > 0
      OBVIOUS
    <2>0. pc \in [Threads -> {"idle", "build", "install"}]
      BY DEF IndInv, Types
    <2>1. \A u \in Threads : Return(u) => pc'[t] # "build"
      BY <2>0 DEF Return
    <2>2. PICK u \in Threads : \/ \E f \in BOOLEAN : Phase1(u, f)
                               \/ Phase2(u)
                               \/ Phase3(u)
      <3>1. ASSUME NEW i \in 0 .. (MaxSegments - 1), NEW s \in Slots
            PROVE  ~Deallocate(i, s)
        BY DEF Deallocate
      <3> QED BY <3>1 DEF Next
    <2>3. ~Phase3(u)
      BY <2>1 DEF Phase3, Phase3Reuse, Phase3Install, TakeFrom
    <2>4. ~Phase2(u)
      <3>1. pc' # [pc EXCEPT ![u] = "install"]
        BY <2>0
      <3> QED BY <2>1, <3>1 DEF Phase2
    <2>5. PICK f \in BOOLEAN : Phase1(u, f)
      BY <2>2, <2>3, <2>4
    <2>6. Phase1Full(u, f)
      BY <2>1, <2>5 DEF Phase1, Phase1Forward, Phase1Backward, TakeFrom
    <2>7. u = t
      BY <2>0, <2>6 DEF Phase1Full
    <2>8. f
      <3>1. fits' = [fits EXCEPT ![u] = f] /\ fits \in [Threads -> BOOLEAN]
        BY <2>6 DEF Phase1Full, IndInv, Types
      <3> QED BY <3>1, <2>7
    <2>9. \A i \in 0 .. (Len(segments) - 1), s \in Slots : held[<<i, s>>] = 1
      BY <2>6, <2>8, FullMeansHeld DEF Phase1Full
    <2>10. ASSUME NEW i \in 0 .. (Len(segments) - 1), NEW s \in Slots
           PROVE  held[<<i, s>>] > 0
      <3>1. held[<<i, s>>] = 1
        BY <2>9
      <3> QED BY <3>1
    <2> QED BY <2>10
  <1> QED BY <1>1, InductiveInvariant, PTL DEF Spec, GrowsOnlyWhenFull

(* No block is handed out twice, by whatever threads race through growth:  *)
(* the vector of segments implements SlotPool, the contract of allocate    *)
(* and deallocate, with the blocks of all segments as its slots.           *)
THEOREM ImplementsPool == Spec => ImplementsSlotPool
  <1>1. Init => Pool!Init
    BY DEF Init, Pool!Init
  <1>2. IndInv /\ [Next]_vars => [Pool!Next]_held
    <2> SUFFICES ASSUME IndInv, [Next]_vars PROVE Pool!Next \/ held' = held
      OBVIOUS
    <2>1. PoolStep
      BY NextInv
    <2>2. ASSUME NEW b \in Blocks, held[b] = 0, held' = [held EXCEPT ![b] = 1]
          PROVE  Pool!Next
      BY <2>2 DEF Pool!Next, Pool!Grant
    <2>3. ASSUME NEW b \in Blocks, held[b] = 1, held' = [held EXCEPT ![b] = 0]
          PROVE  Pool!Next
      BY <2>3 DEF Pool!Next, Pool!Release
    <2> QED BY <2>1, <2>2, <2>3 DEF PoolStep
  <1> QED BY <1>1, <1>2, InductiveInvariant, PTL DEF Spec, ImplementsSlotPool, Pool!Spec
=============================================================================
