----------------------------- MODULE SlabOpsProofs -----------------------------
(***************************************************************************)
(* Lemmas about the slab of SlabOps, shared by the proofs about the        *)
(* modules that own slabs: what its operations do to its fields, that they *)
(* keep the free list a chain of exactly the free slots, and what the walk *)
(* of Slab::drop finds on such a chain.                                    *)
(***************************************************************************)
EXTENDS SlabOps, FiniteSetTheorems, WellFoundedInduction, TLAPS

-----------------------------------------------------------------------------
(* Numbers.                                                                *)

(* Every set of numbers has a least one: how facts about all numbers are   *)
(* proved below, by looking at the least counterexample.                   *)
LEMMA LeastNat ==
  ASSUME NEW S \in SUBSET Nat, S # {}
  PROVE  \E x \in S : \A y \in S : x <= y
  <1> DEFINE R == OpToRel(<, Nat)
  <1>1. PICK x \in S : \A y \in S : ~(<<y, x>> \in R)
    BY NatLessThanWellFounded, WFMin
  <1>2. \A y \in Nat : y < x => <<y, x>> \in R
    BY DEF OpToRel
  <1> HIDE DEF R
  <1>3. ASSUME NEW y \in S PROVE ~(y < x)
    BY <1>1, <1>2
  <1>4. \A y \in S : x <= y
    BY <1>3
  <1> QED BY <1>4

LEMMA FromZero ==
  ASSUME NEW n \in Nat
  PROVE  IsFiniteSet(0 .. (n - 1)) /\ Cardinality(0 .. (n - 1)) = n
  <1> DEFINE a == 0
             b == n - 1
  <1>1. a \in Int /\ b \in Int /\ (IF a > b THEN 0 ELSE b - a + 1) = n
    OBVIOUS
  <1> HIDE DEF a, b
  <1>2. IsFiniteSet(a .. b) /\ Cardinality(a .. b) = IF a > b THEN 0 ELSE b - a + 1
    BY <1>1, FS_Interval
  <1>3. IsFiniteSet(a .. b) /\ Cardinality(a .. b) = n
    BY <1>1, <1>2
  <1> QED BY <1>3 DEF a, b

-----------------------------------------------------------------------------
(* One slab.                                                               *)

LinkRecord == [next_idx : 0 .. (Capacity + 1), mac : Int \X Int]

SlabRecord ==
  [ protected         : BOOLEAN,
    base              : Int,
    free_head         : 0 .. Capacity,
    next_uncarved     : 0 .. Capacity,
    mem               : [Slots -> LinkRecord],
    corruption_events : Nat ]

(* The place of the head in the list, counted from the end. *)
Depth(x, place) == IF x.free_head = 0 THEN 0 ELSE place[x.free_head - 1]

(* place witnesses that the list of x is a chain without repetition. *)
Linked(x, place) ==
  /\ place \in [Slots -> Nat]
  /\ \A s, u \in Slots : place[s] > 0 /\ place[s] = place[u] => s = u
  /\ \A s \in Slots : place[s] <= Depth(x, place)
  /\ x.free_head # 0 => place[x.free_head - 1] > 0
  /\ \A s \in Slots :
       place[s] > 0 =>
         /\ x.mem[s].next_idx <= Capacity
         /\ x.mem[s].next_idx = 0 => place[s] = 1
         /\ x.mem[s].next_idx # 0 =>
              place[s] > 1 /\ place[x.mem[s].next_idx - 1] = place[s] - 1

(* The list is a chain of exactly the slots that are carved and not owned. *)
Chain(x, own, place) ==
  /\ Linked(x, place)
  /\ \A s \in Slots : place[s] > 0 <=> s < x.next_uncarved /\ own[s] = 0

(* A slab whose slots have the owners own says. *)
Sound(x, own) ==
  /\ x \in SlabRecord
  /\ ~x.protected
  /\ own \in [Slots -> {0, 1}]
  /\ \A s \in Slots : own[s] = 1 => s < x.next_uncarved
  /\ \E place \in [Slots -> Nat] : Chain(x, own, place)

LEMMA SlotBounds ==
  /\ \A s \in Slots : s \in Nat /\ s < Capacity /\ s + 1 \in 1 .. Capacity
  /\ \A n \in 1 .. Capacity : n - 1 \in Slots
  /\ \A n \in 0 .. Capacity : n < Capacity => n \in Slots
  /\ 0 \in Slots
  /\ NoSlot \notin Slots
BY CapacityAssumption DEF Slots, NoSlot

LEMMA RecordFields ==
  ASSUME NEW x \in SlabRecord
  PROVE  /\ x.free_head \in 0 .. Capacity
         /\ x.next_uncarved \in 0 .. Capacity
         /\ x.corruption_events \in Nat
         /\ x.mem \in [Slots -> LinkRecord]
         /\ \A s \in Slots : x.mem[s].next_idx \in 0 .. (Capacity + 1)
BY DEF SlabRecord, LinkRecord

LEMMA PushFields ==
  ASSUME NEW x \in SlabRecord, NEW s \in Slots, ~x.protected
  PROVE  /\ Push(x, s) \in SlabRecord
         /\ ~Push(x, s).protected
         /\ Push(x, s).free_head = s + 1
         /\ Push(x, s).next_uncarved = x.next_uncarved
         /\ Push(x, s).mem[s].next_idx = x.free_head
         /\ \A u \in Slots \ {s} : Push(x, s).mem[u] = x.mem[u]
  <1> DEFINE link == [next_idx |-> x.free_head, mac |-> Sign(x.protected, x.free_head, s)]
             m == [x.mem EXCEPT ![s] = link]
             h == s + 1
  <1>1. link \in LinkRecord
    BY RecordFields, SlotBounds, CapacityAssumption DEF LinkRecord, Sign, NoTag
  <1>2. m \in [Slots -> LinkRecord] /\ m[s].next_idx = x.free_head
        /\ \A u \in Slots \ {s} : m[u] = x.mem[u]
    BY <1>1, RecordFields
  <1>3. Push(x, s) = [x EXCEPT !.mem = m, !.free_head = h]
    BY DEF Push, Nonce, SlabRecord
  <1>4. h \in 0 .. Capacity
    BY SlotBounds
  <1> HIDE DEF m, h
  <1>5. Push(x, s) \in SlabRecord
    BY <1>2, <1>3, <1>4 DEF SlabRecord
  <1>6. /\ Push(x, s).free_head = h
        /\ Push(x, s).next_uncarved = x.next_uncarved
        /\ Push(x, s).mem = m
    BY <1>3 DEF SlabRecord
  <1>7. Push(x, s).protected = x.protected
    BY <1>3 DEF SlabRecord
  <1>8. ~Push(x, s).protected
    BY <1>7
  <1> QED BY <1>2, <1>5, <1>6, <1>8 DEF h

LEMMA TakeHeadFields ==
  ASSUME NEW x \in SlabRecord, x.free_head # 0, ~x.protected,
         x.mem[x.free_head - 1].next_idx <= Capacity
  PROVE  LET h == x.free_head - 1
         IN  /\ TakeHead(x) \in SlabRecord
             /\ ~TakeHead(x).protected
             /\ TakeHead(x).free_head = x.mem[h].next_idx
             /\ TakeHead(x).next_uncarved = x.next_uncarved
             /\ \A u \in Slots \ {h} : TakeHead(x).mem[u] = x.mem[u]
  <1> DEFINE h == x.free_head - 1
             m == [x.mem EXCEPT ![h] = Payload]
             n == x.mem[h].next_idx
  <1>1. Payload \in LinkRecord
    BY CapacityAssumption DEF LinkRecord, Payload, NoTag
  <1>2. h \in Slots
    BY RecordFields, SlotBounds, CapacityAssumption
  <1>3. m \in [Slots -> LinkRecord] /\ \A u \in Slots \ {h} : m[u] = x.mem[u]
    BY <1>1, RecordFields
  <1>4. n \in 0 .. Capacity
    BY <1>2, RecordFields, CapacityAssumption
  <1>5. TakeHead(x) = [x EXCEPT !.free_head = n, !.mem = m]
    BY DEF TakeHead, SlabRecord
  <1> HIDE DEF m, n
  <1>6. TakeHead(x) \in SlabRecord
    BY <1>3, <1>4, <1>5 DEF SlabRecord
  <1>7. /\ TakeHead(x).free_head = n
        /\ TakeHead(x).next_uncarved = x.next_uncarved
        /\ TakeHead(x).mem = m
    BY <1>5 DEF SlabRecord
  <1>8. TakeHead(x).protected = x.protected
    BY <1>5 DEF SlabRecord
  <1>9. ~TakeHead(x).protected
    BY <1>8
  <1> QED BY <1>3, <1>6, <1>7, <1>9 DEF n

(* Carving with an empty list, which Abandon leaves alone. *)
LEMMA CarveFields ==
  ASSUME NEW x \in SlabRecord, x.free_head = 0, ~x.protected,
         x.next_uncarved < Capacity
  PROVE  /\ Carve(Abandon(x)) \in SlabRecord
         /\ ~Carve(Abandon(x)).protected
         /\ Carve(Abandon(x)).free_head = 0
         /\ Carve(Abandon(x)).next_uncarved = x.next_uncarved + 1
         /\ Carve(Abandon(x)).mem = x.mem
  <1> DEFINE n == x.next_uncarved + 1
             e == x.corruption_events + (IF x.free_head = 0 THEN 0 ELSE 1)
             z == 0
             y == Abandon(x)
  <1>1. n \in 0 .. Capacity /\ e \in Nat /\ z \in 0 .. Capacity
    BY RecordFields, CapacityAssumption
  <1>2. y = [x EXCEPT !.free_head = z, !.corruption_events = e]
    BY DEF Abandon, SlabRecord
  <1> HIDE DEF e, z, y
  <1>3. /\ y \in SlabRecord
        /\ y.free_head = z
        /\ y.next_uncarved = x.next_uncarved
        /\ y.mem = x.mem
    BY <1>1, <1>2 DEF SlabRecord
  <1>4. y.protected = x.protected
    BY <1>2 DEF SlabRecord
  <1>5. Carve(y) = [y EXCEPT !.next_uncarved = n]
    BY <1>3 DEF Carve, SlabRecord
  <1> HIDE DEF n
  <1>6. /\ Carve(y) \in SlabRecord
        /\ Carve(y).free_head = z
        /\ Carve(y).next_uncarved = n
        /\ Carve(y).mem = x.mem
    BY <1>1, <1>3, <1>5 DEF SlabRecord
  <1>7. Carve(y).protected = y.protected
    BY <1>3, <1>5 DEF SlabRecord
  <1>8. ~Carve(y).protected
    BY <1>4, <1>7
  <1> QED BY <1>6, <1>8 DEF n, z, y

-----------------------------------------------------------------------------
(* The operations keep a slab sound.                                       *)

Nobody == [s \in Slots |-> 0]

LEMMA NewSlabSound ==
  Sound(NewSlab(FALSE, 0), Nobody)
  <1> DEFINE x == NewSlab(FALSE, 0)
  <1>1. Payload \in LinkRecord
    BY CapacityAssumption DEF LinkRecord, Payload, NoTag
  <1>2. x \in SlabRecord
    BY <1>1, CapacityAssumption DEF NewSlab, SlabRecord
  <1>3. ~x.protected
    BY DEF NewSlab
  <1>4. x.free_head = 0 /\ x.next_uncarved = 0
    BY DEF NewSlab
  <1> HIDE DEF x
  <1>5. Chain(x, Nobody, Nobody)
    BY <1>4, SlotBounds DEF Chain, Linked, Nobody, Depth
  <1>6. Nobody \in [Slots -> Nat] /\ Nobody \in [Slots -> {0, 1}]
        /\ \A s \in Slots : Nobody[s] # 1
    BY DEF Nobody
  <1>7. Sound(x, Nobody)
    BY <1>2, <1>3, <1>5, <1>6 DEF Sound
  <1> QED BY <1>7 DEF x

(* deallocate of an owned slot. *)
LEMMA PushSound ==
  ASSUME NEW x, NEW own, Sound(x, own), NEW s \in Slots, own[s] = 1
  PROVE  Sound(Push(x, s), [own EXCEPT ![s] = 0])
  <1> DEFINE y == Push(x, s)
             o == [own EXCEPT ![s] = 0]
  <1>1. PICK r \in [Slots -> Nat] : Chain(x, own, r)
    BY DEF Sound
  <1> DEFINE d == Depth(x, r) + 1
             q == [r EXCEPT ![s] = d]
  <1>2. x \in SlabRecord /\ ~x.protected /\ own \in [Slots -> {0, 1}]
        /\ \A u \in Slots : own[u] = 1 => u < x.next_uncarved
    BY DEF Sound
  <1>3. /\ y \in SlabRecord
        /\ ~y.protected
        /\ y.free_head = s + 1
        /\ y.next_uncarved = x.next_uncarved
        /\ y.mem[s].next_idx = x.free_head
        /\ \A u \in Slots \ {s} : y.mem[u] = x.mem[u]
    BY <1>2, PushFields
  <1>4. x.free_head \in 0 .. Capacity /\ x.next_uncarved \in 0 .. Capacity
    BY <1>2, RecordFields
  <1>5. Depth(x, r) \in Nat /\ d \in Nat /\ d > 0
    BY <1>4, SlotBounds, CapacityAssumption DEF Depth
  <1>6. r[s] = 0
    BY <1>1, SlotBounds DEF Chain, Linked
  <1>7. \A u \in Slots : r[u] < d
    BY <1>1, <1>5 DEF Chain, Linked
  <1>8. q \in [Slots -> Nat] /\ q[s] = d /\ \A u \in Slots \ {s} : q[u] = r[u]
    BY <1>5
  <1>9. o \in [Slots -> {0, 1}] /\ o[s] = 0 /\ \A u \in Slots \ {s} : o[u] = own[u]
    BY <1>2
  <1> HIDE DEF y, o, q
  <1>10. Depth(y, q) = d
    BY <1>3, <1>8, SlotBounds DEF Depth
  <1>11. \A u \in Slots : q[u] > 0 <=> u < y.next_uncarved /\ o[u] = 0
    BY <1>1, <1>2, <1>3, <1>5, <1>8, <1>9 DEF Chain, Linked
  <1>12. \A u, v \in Slots : q[u] > 0 /\ q[u] = q[v] => u = v
    <2> SUFFICES ASSUME NEW u \in Slots, NEW v \in Slots, q[u] > 0, q[u] = q[v]
                 PROVE  u = v
      OBVIOUS
    <2>1. CASE u # s /\ v # s
      BY <2>1, <1>1, <1>8 DEF Chain, Linked
    <2>2. CASE u = s \/ v = s
      BY <2>2, <1>5, <1>7, <1>8
    <2> QED BY <2>1, <2>2
  <1>13. \A u \in Slots : q[u] <= d
    BY <1>5, <1>7, <1>8
  <1>14. y.free_head # 0 => q[y.free_head - 1] > 0
    BY <1>3, <1>5, <1>8, SlotBounds
  <1>15. ASSUME NEW u \in Slots, q[u] > 0
         PROVE  /\ y.mem[u].next_idx <= Capacity
                /\ y.mem[u].next_idx = 0 => q[u] = 1
                /\ y.mem[u].next_idx # 0 =>
                     q[u] > 1 /\ q[y.mem[u].next_idx - 1] = q[u] - 1
    <2>1. CASE u = s
      <3>1. x.free_head = 0 => d = 1
        BY DEF Depth
      <3>2. ASSUME x.free_head # 0
            PROVE  /\ x.free_head - 1 \in Slots \ {s}
                   /\ r[x.free_head - 1] = d - 1
                   /\ d > 1
        <4>1. x.free_head - 1 \in Slots
          BY <3>2, <1>4, SlotBounds, CapacityAssumption
        <4>2. r[x.free_head - 1] > 0 /\ Depth(x, r) = r[x.free_head - 1]
          BY <3>2, <1>1 DEF Chain, Linked, Depth
        <4> QED BY <4>1, <4>2, <1>5, <1>6
      <3> QED BY <2>1, <3>1, <3>2, <1>3, <1>4, <1>8
    <2>2. CASE u # s
      <3> DEFINE n == x.mem[u].next_idx
      <3>1. /\ n \in 0 .. (Capacity + 1)
            /\ n <= Capacity
            /\ n = 0 => r[u] = 1
            /\ n # 0 => r[u] > 1 /\ r[n - 1] = r[u] - 1
        BY <2>2, <1>1, <1>2, <1>8, <1>15, RecordFields DEF Chain, Linked
      <3>2. ASSUME n # 0 PROVE n - 1 \in Slots \ {s}
        <4>1. n - 1 \in Slots
          BY <3>1, <3>2, SlotBounds, CapacityAssumption
        <4> QED BY <4>1, <3>1, <3>2, <1>6
      <3>3. q[u] = r[u] /\ y.mem[u] = x.mem[u]
        BY <2>2, <1>3, <1>8
      <3> HIDE DEF n
      <3>4. n # 0 => q[n - 1] = r[n - 1]
        BY <3>2, <1>8
      <3>5. y.mem[u].next_idx = n
        BY <3>3 DEF n
      <3> QED BY <3>1, <3>3, <3>4, <3>5
    <2> QED BY <2>1, <2>2
  <1>16. Chain(y, o, q)
    BY <1>8, <1>10, <1>11, <1>12, <1>13, <1>14, <1>15 DEF Chain, Linked
  <1>17. Sound(y, o)
    BY <1>2, <1>3, <1>8, <1>9, <1>16 DEF Sound
  <1> QED BY <1>17 DEF y, o

(* allocate taking the head of the list. *)
LEMMA TakeHeadSound ==
  ASSUME NEW x, NEW own, Sound(x, own), x.free_head # 0
  PROVE  /\ x.mem[x.free_head - 1].next_idx <= Capacity
         /\ x.free_head - 1 \in Slots
         /\ own[x.free_head - 1] = 0
         /\ Sound(TakeHead(x), [own EXCEPT ![x.free_head - 1] = 1])
  <1> DEFINE h == x.free_head - 1
             y == TakeHead(x)
             o == [own EXCEPT ![h] = 1]
             n == x.mem[h].next_idx
  <1>1. PICK r \in [Slots -> Nat] : Chain(x, own, r)
    BY DEF Sound
  <1> DEFINE q == [r EXCEPT ![h] = 0]
  <1>2. x \in SlabRecord /\ ~x.protected /\ own \in [Slots -> {0, 1}]
        /\ \A u \in Slots : own[u] = 1 => u < x.next_uncarved
    BY DEF Sound
  <1>3. x.free_head \in 0 .. Capacity /\ x.next_uncarved \in 0 .. Capacity
    BY <1>2, RecordFields
  <1>4. h \in Slots
    BY <1>3, SlotBounds, CapacityAssumption
  <1>5. /\ r[h] > 0 /\ \A u \in Slots : r[u] <= r[h]
        /\ h < x.next_uncarved /\ own[h] = 0
    BY <1>1, <1>4 DEF Chain, Linked, Depth
  <1>6. /\ n \in 0 .. Capacity
        /\ n = 0 => r[h] = 1
        /\ n # 0 => r[h] > 1 /\ r[n - 1] = r[h] - 1
    BY <1>1, <1>2, <1>4, <1>5, RecordFields, CapacityAssumption DEF Chain, Linked
  <1>7. /\ y \in SlabRecord
        /\ ~y.protected
        /\ y.free_head = n
        /\ y.next_uncarved = x.next_uncarved
        /\ \A u \in Slots \ {h} : y.mem[u] = x.mem[u]
    BY <1>2, <1>6, TakeHeadFields
  <1>8. q \in [Slots -> Nat] /\ q[h] = 0 /\ \A u \in Slots \ {h} : q[u] = r[u]
    BY <1>4
  <1>9. o \in [Slots -> {0, 1}] /\ o[h] = 1 /\ \A u \in Slots \ {h} : o[u] = own[u]
    BY <1>2, <1>4
  <1>10. \A u \in Slots \ {h} : r[u] < r[h]
    BY <1>1, <1>4, <1>5 DEF Chain, Linked
  <1>11. n # 0 => n - 1 \in Slots \ {h}
    <2> SUFFICES ASSUME n # 0 PROVE n - 1 \in Slots \ {h}
      OBVIOUS
    <2>1. n - 1 \in Slots
      BY <1>6, SlotBounds, CapacityAssumption
    <2> QED BY <2>1, <1>4, <1>6
  <1> HIDE DEF y, o, q, n
  <1>12. Depth(y, q) = r[h] - 1
    BY <1>6, <1>7, <1>8, <1>11 DEF Depth
  <1>13. \A u \in Slots : q[u] > 0 <=> u < y.next_uncarved /\ o[u] = 0
    BY <1>1, <1>4, <1>7, <1>8, <1>9 DEF Chain, Linked
  <1>14. \A u, v \in Slots : q[u] > 0 /\ q[u] = q[v] => u = v
    BY <1>1, <1>4, <1>8 DEF Chain, Linked
  <1>15. \A u \in Slots : q[u] <= r[h] - 1
    BY <1>4, <1>5, <1>8, <1>10
  <1>16. y.free_head # 0 => q[y.free_head - 1] > 0
    BY <1>4, <1>6, <1>7, <1>8, <1>11
  <1>17. ASSUME NEW u \in Slots, q[u] > 0
         PROVE  /\ y.mem[u].next_idx <= Capacity
                /\ y.mem[u].next_idx = 0 => q[u] = 1
                /\ y.mem[u].next_idx # 0 =>
                     q[u] > 1 /\ q[y.mem[u].next_idx - 1] = q[u] - 1
    <2> DEFINE m == x.mem[u].next_idx
    <2>1. u \in Slots \ {h} /\ q[u] = r[u] /\ y.mem[u] = x.mem[u]
      BY <1>7, <1>8, <1>17
    <2>2. /\ m \in 0 .. (Capacity + 1)
          /\ m <= Capacity
          /\ m = 0 => r[u] = 1
          /\ m # 0 => r[u] > 1 /\ r[m - 1] = r[u] - 1
      BY <2>1, <1>1, <1>2, <1>17, RecordFields DEF Chain, Linked
    <2>3. ASSUME m # 0 PROVE m - 1 \in Slots \ {h}
      <3>1. m - 1 \in Slots
        BY <2>2, <2>3, SlotBounds, CapacityAssumption
      <3> QED BY <3>1, <2>1, <2>2, <2>3, <1>4, <1>5
    <2>4. y.mem[u].next_idx = m
      BY <2>1
    <2> HIDE DEF m
    <2>5. m # 0 => q[m - 1] = r[m - 1]
      BY <2>3, <1>8
    <2> QED BY <2>1, <2>2, <2>4, <2>5
  <1>18. Chain(y, o, q)
    BY <1>8, <1>12, <1>13, <1>14, <1>15, <1>16, <1>17 DEF Chain, Linked
  <1>19. Sound(y, o)
    BY <1>2, <1>4, <1>5, <1>7, <1>8, <1>9, <1>18 DEF Sound
  <1> QED BY <1>4, <1>5, <1>6, <1>19, CapacityAssumption DEF y, o, n

(* allocate carving the next slot. *)
LEMMA CarveSound ==
  ASSUME NEW x, NEW own, Sound(x, own), x.free_head = 0, x.next_uncarved < Capacity
  PROVE  /\ x.next_uncarved \in Slots
         /\ own[x.next_uncarved] = 0
         /\ Sound(Carve(Abandon(x)), [own EXCEPT ![x.next_uncarved] = 1])
  <1> DEFINE c == x.next_uncarved
             y == Carve(Abandon(x))
             o == [own EXCEPT ![c] = 1]
  <1>1. PICK r \in [Slots -> Nat] : Chain(x, own, r)
    BY DEF Sound
  <1>2. x \in SlabRecord /\ ~x.protected /\ own \in [Slots -> {0, 1}]
        /\ \A u \in Slots : own[u] = 1 => u < x.next_uncarved
    BY DEF Sound
  <1>3. c \in Slots /\ c \in Nat
    BY <1>2, RecordFields, SlotBounds
  <1>4. own[c] = 0
    BY <1>2, <1>3
  <1>5. /\ y \in SlabRecord
        /\ ~y.protected
        /\ y.free_head = 0
        /\ y.next_uncarved = c + 1
        /\ y.mem = x.mem
    BY <1>2, CarveFields
  <1>6. \A u \in Slots : r[u] = 0
    BY <1>1 DEF Chain, Linked, Depth
  <1>7. o \in [Slots -> {0, 1}] /\ o[c] = 1 /\ \A u \in Slots \ {c} : o[u] = own[u]
    BY <1>2, <1>3
  <1> HIDE DEF y, o, c
  <1>8. \A u \in Slots : o[u] = 1 => u < y.next_uncarved
    BY <1>2, <1>3, <1>5, <1>7, SlotBounds DEF c
  <1>9. \A u \in Slots : ~(u < y.next_uncarved /\ o[u] = 0)
    BY <1>1, <1>3, <1>5, <1>6, <1>7, SlotBounds DEF Chain, Linked, c
  <1>10. Chain(y, o, r)
    BY <1>5, <1>6, <1>9 DEF Chain, Linked, Depth
  <1>11. Sound(y, o)
    BY <1>5, <1>7, <1>8, <1>10 DEF Sound
  <1> QED BY <1>3, <1>4, <1>11 DEF y, o, c

(* Slab::allocate of a layout that fits: it refuses only when every slot   *)
(* is owned, and hands out a slot nobody owns.                             *)
LEMMA AllocateSound ==
  ASSUME NEW x, NEW own, Sound(x, own)
  PROVE  LET a == Allocate(x, TRUE)
         IN  /\ a.slot = NoSlot => \A s \in Slots : own[s] = 1
             /\ a.slot # NoSlot => /\ a.slot \in Slots
                                   /\ own[a.slot] = 0
                                   /\ Sound(a.slab, [own EXCEPT ![a.slot] = 1])
  <1> DEFINE a == Allocate(x, TRUE)
  <1> HIDE DEF a
  <1>1. PICK r \in [Slots -> Nat] : Chain(x, own, r)
    BY DEF Sound
  <1>2. x \in SlabRecord /\ ~x.protected /\ own \in [Slots -> {0, 1}]
    BY DEF Sound
  <1> SUFFICES
        /\ a.slot = NoSlot => \A s \in Slots : own[s] = 1
        /\ a.slot # NoSlot => /\ a.slot \in Slots
                              /\ own[a.slot] = 0
                              /\ Sound(a.slab, [own EXCEPT ![a.slot] = 1])
    BY DEF a
  <1>3. CASE x.free_head # 0
    <2> DEFINE h == x.free_head - 1
    <2>1. /\ x.mem[h].next_idx <= Capacity
          /\ h \in Slots
          /\ own[h] = 0
          /\ Sound(TakeHead(x), [own EXCEPT ![h] = 1])
      BY <1>3, TakeHeadSound
    <2>2. HeadIntact(x)
      BY <1>2, <1>3, <2>1 DEF HeadIntact, Verify
    <2>3. a = Result(TakeHead(x), h)
      BY <2>2 DEF Allocate, a
    <2>4. a.slab = TakeHead(x) /\ a.slot = h
      BY <2>3 DEF Result
    <2> QED BY <2>1, <2>4, SlotBounds
  <1>4. CASE x.free_head = 0 /\ x.next_uncarved < Capacity
    <2> DEFINE c == x.next_uncarved
    <2>1. c \in Slots /\ own[c] = 0 /\ Sound(Carve(Abandon(x)), [own EXCEPT ![c] = 1])
      BY <1>4, CarveSound
    <2>2. ~HeadIntact(x)
      BY <1>4 DEF HeadIntact
    <2>3. a = Result(Carve(Abandon(x)), c)
      BY <1>4, <2>2 DEF Allocate, a
    <2>4. a.slab = Carve(Abandon(x)) /\ a.slot = c
      BY <2>3 DEF Result
    <2> QED BY <2>1, <2>4, SlotBounds
  <1>5. CASE x.free_head = 0 /\ ~(x.next_uncarved < Capacity)
    <2>1. ~HeadIntact(x)
      BY <1>5 DEF HeadIntact
    <2>2. a = Result(Abandon(x), NoSlot)
      BY <1>5, <2>1 DEF Allocate, a
    <2>3. a.slot = NoSlot
      BY <2>2 DEF Result
    <2>4. \A s \in Slots : r[s] = 0 /\ s < x.next_uncarved
      BY <1>1, <1>2, <1>5, RecordFields, SlotBounds, CapacityAssumption DEF Chain, Linked, Depth
    <2>5. \A s \in Slots : own[s] = 1
      BY <1>1, <1>2, <2>4 DEF Chain, Linked
    <2> QED BY <2>3, <2>5
  <1> QED BY <1>3, <1>4, <1>5

(* Slab::allocate of a layout that does not fit. *)
LEMMA AllocateUnfit ==
  ASSUME NEW x, NEW f \in BOOLEAN, Allocate(x, f).slot # NoSlot
  PROVE  f /\ Allocate(x, f) = Allocate(x, TRUE)
  <1>1. CASE ~f
    <2>1. Allocate(x, f) = Result(x, NoSlot)
      BY <1>1 DEF Allocate
    <2>2. Allocate(x, f).slot = NoSlot
      BY <2>1 DEF Result
    <2> QED BY <2>2
  <1>2. CASE f
    <2>1. f = TRUE
      BY <1>2
    <2> QED BY <1>2, <2>1
  <1> QED BY <1>1, <1>2

-----------------------------------------------------------------------------
(* The walk of Slab::drop.                                                 *)

(* What is behind head h of the list of x. *)
Behind(x, h) == IF h \in 1 .. Capacity THEN x.mem[h - 1].next_idx ELSE h

(* The first k steps of w walk the list of x. *)
Walks(x, w, k) == \A n \in 0 .. k : w[n] = IF n = 0 THEN x.free_head ELSE Behind(x, w[n - 1])

(* A walk of every length exists. *)
LEMMA WalkExists ==
  ASSUME NEW x, x.free_head \in Nat, \A s \in Slots : x.mem[s].next_idx \in Nat
  PROVE  \E w \in [0 .. Capacity -> Nat] : Walks(x, w, Capacity)
  <1> DEFINE S == {k \in 0 .. Capacity : ~\E w \in [0 .. Capacity -> Nat] : Walks(x, w, k)}
  <1>1. \A h \in Nat : Behind(x, h) \in Nat
    BY SlotBounds DEF Behind
  <1>2. ASSUME S # {} PROVE FALSE
    <2>1. S \in SUBSET Nat
      BY CapacityAssumption
    <2>2. PICK k \in S : \A j \in S : k <= j
      BY <1>2, <2>1, LeastNat
    <2>3. k \in 0 .. Capacity /\ k \in Nat
      BY CapacityAssumption
    <2>4. CASE k = 0
      <3> DEFINE w == [n \in 0 .. Capacity |-> x.free_head]
      <3>1. w \in [0 .. Capacity -> Nat] /\ Walks(x, w, k)
        BY <2>4, CapacityAssumption DEF Walks
      <3> QED BY <3>1
    <2>5. CASE k > 0
      <3>1. k - 1 \in 0 .. Capacity /\ ~(k <= k - 1)
        BY <2>3, <2>5, CapacityAssumption
      <3>2. k - 1 \notin S
        BY <2>2, <3>1
      <3>3. PICK w \in [0 .. Capacity -> Nat] : Walks(x, w, k - 1)
        BY <3>1, <3>2
      <3> DEFINE b == Behind(x, w[k - 1])
                 v == [w EXCEPT ![k] = b]
      <3>4. b \in Nat
        BY <1>1, <3>1
      <3>5. v \in [0 .. Capacity -> Nat] /\ v[k] = b
            /\ \A n \in 0 .. (k - 1) : v[n] = w[n]
        BY <2>3, <3>4
      <3> HIDE DEF v
      <3>6. ASSUME NEW n \in 0 .. k
            PROVE  v[n] = IF n = 0 THEN x.free_head ELSE Behind(x, v[n - 1])
        <4>1. CASE n = k
          BY <4>1, <2>3, <2>5, <3>5
        <4>2. CASE n # k
          <5>1. n \in 0 .. (k - 1) /\ (n # 0 => n - 1 \in 0 .. (k - 1))
            BY <4>2, <2>3
          <5>2. w[n] = IF n = 0 THEN x.free_head ELSE Behind(x, w[n - 1])
            BY <3>3, <5>1 DEF Walks
          <5> QED BY <3>5, <5>1, <5>2
        <4> QED BY <4>1, <4>2
      <3>7. Walks(x, v, k)
        BY <3>6 DEF Walks
      <3> QED BY <3>5, <3>7
    <2> QED BY <2>3, <2>4, <2>5
  <1>3. Capacity \in 0 .. Capacity
    BY CapacityAssumption
  <1> QED BY <1>2, <1>3

(* So Walk is one. *)
LEMMA WalkIsWalk ==
  ASSUME NEW x, x.free_head \in Nat, \A s \in Slots : x.mem[s].next_idx \in Nat
  PROVE  /\ Walk(x)[0] = x.free_head
         /\ \A n \in 1 .. Capacity : Walk(x)[n] = Behind(x, Walk(x)[n - 1])
  <1>1. PICK w \in [0 .. Capacity -> Nat] : Walks(x, w, Capacity)
    BY WalkExists
  <1>2. w = [n \in 0 .. Capacity |->
               IF n = 0 THEN x.free_head
               ELSE IF w[n - 1] \in 1 .. Capacity THEN x.mem[w[n - 1] - 1].next_idx
                    ELSE w[n - 1]]
    BY <1>1 DEF Walks, Behind
  <1>3. Walk(x) = [n \in 0 .. Capacity |->
                     IF n = 0 THEN x.free_head
                     ELSE IF Walk(x)[n - 1] \in 1 .. Capacity
                          THEN x.mem[Walk(x)[n - 1] - 1].next_idx ELSE Walk(x)[n - 1]]
    BY <1>2, Zenon DEF Walk
  <1> DEFINE v == Walk(x)
  <1> HIDE DEF v
  <1>4. v = [n \in 0 .. Capacity |->
               IF n = 0 THEN x.free_head
               ELSE IF v[n - 1] \in 1 .. Capacity THEN x.mem[v[n - 1] - 1].next_idx
                    ELSE v[n - 1]]
    BY <1>3 DEF v
  <1>5. 0 \in 0 .. Capacity /\ \A n \in 1 .. Capacity : n \in 0 .. Capacity /\ n # 0
    BY CapacityAssumption
  <1>6. v[0] = x.free_head
    BY <1>4, <1>5
  <1>7. ASSUME NEW n \in 1 .. Capacity PROVE v[n] = Behind(x, v[n - 1])
    BY <1>4, <1>5 DEF Behind
  <1> QED BY <1>6, <1>7 DEF v

(* The walk goes down the places of a chain and stops at its end. *)
LEMMA WalkOnChain ==
  ASSUME NEW x, x.free_head \in 0 .. Capacity, \A s \in Slots : x.mem[s].next_idx \in Nat,
         NEW p, Linked(x, p)
  PROVE  /\ Depth(x, p) \in Nat
         /\ \A n \in 0 .. Capacity :
              /\ n < Depth(x, p) => Walk(x)[n] \in 1 .. Capacity
                                    /\ p[Walk(x)[n] - 1] = Depth(x, p) - n
              /\ n >= Depth(x, p) => Walk(x)[n] = 0
  <1> DEFINE d == Depth(x, p)
             w == Walk(x)
             Good(n) == /\ n < d => w[n] \in 1 .. Capacity /\ p[w[n] - 1] = d - n
                        /\ n >= d => w[n] = 0
             S == {n \in 0 .. Capacity : ~Good(n)}
  <1>0. p \in [Slots -> Nat] /\ x.free_head \in Nat
    BY CapacityAssumption DEF Linked
  <1>1. w[0] = x.free_head /\ \A n \in 1 .. Capacity : w[n] = Behind(x, w[n - 1])
    BY <1>0, WalkIsWalk
  <1>2. /\ d \in Nat
        /\ x.free_head = 0 => d = 0
        /\ x.free_head # 0 => /\ d > 0 /\ d = p[x.free_head - 1]
                              /\ x.free_head \in 1 .. Capacity
    <2>1. CASE x.free_head = 0
      BY <2>1 DEF Depth
    <2>2. CASE x.free_head # 0
      <3>1. x.free_head \in 1 .. Capacity
        BY <2>2, CapacityAssumption
      <3>2. d = p[x.free_head - 1] /\ x.free_head - 1 \in Slots
        BY <2>2, <3>1, SlotBounds DEF Depth
      <3>3. p[x.free_head - 1] > 0
        BY <2>2 DEF Linked
      <3> QED BY <2>2, <1>0, <3>1, <3>2, <3>3
    <2> QED BY <2>1, <2>2
  <1> HIDE DEF d, w
  <1>3. Good(0)
    BY <1>1, <1>2
  <1>4. ASSUME NEW n \in 1 .. Capacity, Good(n - 1) PROVE Good(n)
    <2>0. n \in Nat /\ n - 1 \in Nat /\ n > n - 1
      BY CapacityAssumption
    <2>1. CASE n - 1 >= d
      <3>1. w[n - 1] = 0 /\ w[n] = Behind(x, w[n - 1])
        BY <1>1, <1>4, <2>1
      <3>2. w[n] = 0
        BY <3>1 DEF Behind
      <3> QED BY <2>0, <2>1, <3>2, <1>2
    <2>2. CASE n - 1 < d
      <3> DEFINE h == w[n - 1]
                 s == h - 1
                 m == x.mem[s].next_idx
      <3>1. h \in 1 .. Capacity /\ p[s] = d - (n - 1) /\ w[n] = Behind(x, h)
        BY <1>1, <1>4, <2>2
      <3>2. s \in Slots
        BY <3>1, SlotBounds
      <3>3. w[n] = m
        BY <3>1 DEF Behind
      <3>4. p[s] > 0 /\ p[s] = d - n + 1
        BY <2>0, <2>2, <3>1, <1>2
      <3>5. /\ m <= Capacity /\ m \in Nat
            /\ m = 0 => p[s] = 1
            /\ m # 0 => p[s] > 1 /\ p[m - 1] = p[s] - 1
        BY <3>2, <3>4 DEF Linked
      <3> HIDE DEF m, s
      <3> QED BY <2>0, <3>3, <3>4, <3>5, <1>2, CapacityAssumption
    <2> QED BY <2>0, <2>1, <2>2, <1>2
  <1>5. ASSUME S # {} PROVE FALSE
    <2>1. S \in SUBSET Nat
      BY CapacityAssumption
    <2>2. PICK k \in S : \A j \in S : k <= j
      <3> HIDE DEF S
      <3> QED BY <1>5, <2>1, LeastNat
    <2>3. k \in 0 .. Capacity /\ ~Good(k)
      OBVIOUS
    <2> HIDE DEF Good
    <2>4. k # 0
      BY <1>3, <2>3
    <2>5. k \in 1 .. Capacity /\ k - 1 \in 0 .. Capacity /\ ~(k <= k - 1)
      BY <2>3, <2>4, CapacityAssumption
    <2>6. Good(k - 1)
      BY <2>2, <2>5
    <2> QED BY <1>4, <2>3, <2>5, <2>6
  <1>6. ASSUME NEW n \in 0 .. Capacity PROVE Good(n)
    BY <1>5
  <1> QED BY <1>2, <1>6 DEF d, w

(* A chain has no more places than the slab has slots. *)
LEMMA DepthBound ==
  ASSUME NEW x, x.free_head \in 0 .. Capacity, \A s \in Slots : x.mem[s].next_idx \in Nat,
         NEW p, Linked(x, p)
  PROVE  Depth(x, p) <= Capacity
  <1> DEFINE d == Depth(x, p)
             w == Walk(x)
             N == 0 .. ((Capacity + 1) - 1)
             f == [n \in N |-> w[n] - 1]
  <1>0. Capacity \in Nat /\ Capacity + 1 \in Nat /\ \A n \in N : n \in 0 .. Capacity
    BY CapacityAssumption
  <1>1. d \in Nat /\ \A n \in 0 .. Capacity :
          n < d => w[n] \in 1 .. Capacity /\ p[w[n] - 1] = d - n
    BY WalkOnChain
  <1> HIDE DEF d, w
  <1>2. SUFFICES ASSUME d > Capacity PROVE FALSE
    BY <1>0, <1>1 DEF d
  <1>3. \A n \in N : n < d /\ n \in Nat
    BY <1>0, <1>1, <1>2
  <1>4. \A n \in N : w[n] - 1 \in Slots /\ p[w[n] - 1] = d - n
    BY <1>0, <1>1, <1>3, SlotBounds
  <1>5. f \in [N -> Slots]
    BY <1>4
  <1>6. \A a, b \in N : f[a] = f[b] => a = b
    BY <1>1, <1>3, <1>4
  <1>7. f \in Injection(N, Slots)
    BY <1>5, <1>6 DEF Injection, IsInjective
  <1>8. IsFiniteSet(Slots) /\ Cardinality(Slots) = Capacity
    BY <1>0, FromZero DEF Slots
  <1>9. Cardinality(N) = Capacity + 1
    BY <1>0, FromZero
  <1>10. Cardinality(N) <= Cardinality(Slots)
    <2> HIDE DEF N, f
    <2> QED BY <1>7, <1>8, FS_Injection
  <1> QED BY <1>0, <1>8, <1>9, <1>10

(* The walk finds exactly the slots that have a place. *)
LEMMA WalkFindsChain ==
  ASSUME NEW x, x.free_head \in 0 .. Capacity, \A s \in Slots : x.mem[s].next_idx \in Nat,
         NEW p, Linked(x, p)
  PROVE  /\ \A s \in Slots : p[s] > 0 <=> \E n \in 0 .. Capacity : Walk(x)[n] = s + 1
         /\ \A n, m \in 0 .. Capacity :
              Walk(x)[n] \in 1 .. Capacity /\ Walk(x)[n] = Walk(x)[m] => n = m
  <1> DEFINE d == Depth(x, p)
             w == Walk(x)
  <1>1. d \in Nat /\ \A n \in 0 .. Capacity :
          /\ n < d => w[n] \in 1 .. Capacity /\ p[w[n] - 1] = d - n
          /\ n >= d => w[n] = 0
    BY WalkOnChain
  <1>2. d <= Capacity
    BY DepthBound
  <1>3. /\ p \in [Slots -> Nat]
        /\ \A s \in Slots : p[s] <= d
        /\ \A s, u \in Slots : p[s] > 0 /\ p[s] = p[u] => s = u
    BY DEF Linked
  <1> HIDE DEF d, w
  <1>4. ASSUME NEW s \in Slots, p[s] > 0 PROVE \E n \in 0 .. Capacity : w[n] = s + 1
    <2> DEFINE n == d - p[s]
    <2>1. n \in 0 .. Capacity /\ n < d /\ d - n = p[s]
      BY <1>1, <1>2, <1>3, <1>4, CapacityAssumption
    <2>2. w[n] \in 1 .. Capacity /\ p[w[n] - 1] = p[s]
      BY <1>1, <2>1
    <2>3. w[n] - 1 \in Slots
      BY <2>2, SlotBounds
    <2>4. w[n] - 1 = s
      BY <1>3, <1>4, <2>2, <2>3
    <2>5. w[n] = s + 1
      BY <2>2, <2>4, SlotBounds
    <2> QED BY <2>1, <2>5
  <1>5. ASSUME NEW s \in Slots, NEW n \in 0 .. Capacity, w[n] = s + 1 PROVE p[s] > 0
    <2>1. s + 1 # 0 /\ (s + 1) - 1 = s
      BY SlotBounds
    <2>2. n < d /\ n \in Nat
      BY <1>1, <1>5, <2>1, CapacityAssumption
    <2>3. p[s] = d - n
      BY <1>1, <1>5, <2>1, <2>2
    <2> QED BY <1>1, <2>2, <2>3
  <1>6. ASSUME NEW n \in 0 .. Capacity, NEW m \in 0 .. Capacity,
               w[n] \in 1 .. Capacity, w[n] = w[m]
        PROVE  n = m
    <2>1. n \in Nat /\ m \in Nat /\ w[n] # 0
      BY <1>6, CapacityAssumption
    <2>2. n < d /\ m < d
      BY <1>1, <1>6, <2>1
    <2>3. d - n = d - m
      BY <1>1, <1>6, <2>2
    <2> QED BY <1>1, <2>1, <2>3
  <1> QED BY <1>4, <1>5, <1>6 DEF w

LEMMA FreeSlotsAreLinked ==
  ASSUME NEW x, x.free_head \in 0 .. Capacity, \A s \in Slots : x.mem[s].next_idx \in Nat,
         NEW p, Linked(x, p)
  PROVE  FreeSlots(x) = {s \in Slots : p[s] > 0}
BY WalkFindsChain DEF FreeSlots

LEMMA FreelistLenCounts ==
  ASSUME NEW x, x.free_head \in 0 .. Capacity, \A s \in Slots : x.mem[s].next_idx \in Nat,
         NEW p, Linked(x, p)
  PROVE  FreelistLen(x) = Cardinality({s \in Slots : p[s] > 0})
  <1> DEFINE w == Walk(x)
             N == {n \in 0 .. Capacity : w[n] \in 1 .. Capacity}
             P == {s \in Slots : p[s] > 0}
             g == [n \in N |-> w[n] - 1]
  <1>1. /\ \A s \in Slots : p[s] > 0 <=> \E n \in 0 .. Capacity : w[n] = s + 1
        /\ \A n, m \in 0 .. Capacity : w[n] \in 1 .. Capacity /\ w[n] = w[m] => n = m
    BY WalkFindsChain
  <1> HIDE DEF w
  <1>2. \A n \in N : w[n] - 1 \in Slots /\ w[n] = (w[n] - 1) + 1 /\ w[n] \in Nat
    BY SlotBounds, CapacityAssumption
  <1>3. \A n \in N : w[n] - 1 \in P
    BY <1>1, <1>2
  <1>4. g \in [N -> P]
    BY <1>3
  <1>5. \A s \in P : \E n \in N : g[n] = s
    <2> SUFFICES ASSUME NEW s \in P PROVE \E n \in N : g[n] = s
      OBVIOUS
    <2>1. PICK n \in 0 .. Capacity : w[n] = s + 1
      BY <1>1
    <2>2. s + 1 \in 1 .. Capacity /\ (s + 1) - 1 = s
      BY SlotBounds
    <2>3. n \in N /\ g[n] = s
      BY <2>1, <2>2
    <2> QED BY <2>3
  <1>6. \A n, m \in N : g[n] = g[m] => n = m
    BY <1>1, <1>2
  <1>7. g \in Surjection(N, P) /\ g \in Injection(N, P)
    BY <1>4, <1>5, <1>6 DEF Surjection, Injection, IsInjective
  <1>8. IsFiniteSet(N)
    <2>1. IsFiniteSet(0 .. Capacity)
      BY CapacityAssumption, FS_Interval
    <2> QED BY <2>1, FS_Subset
  <1>9. Cardinality(P) = Cardinality(N)
    <2> HIDE DEF N, P, g
    <2> QED BY <1>7, <1>8, FS_Surjection
  <1> QED BY <1>9 DEF FreelistLen, w
=============================================================================
