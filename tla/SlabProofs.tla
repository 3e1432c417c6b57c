------------------------------ MODULE SlabProofs ------------------------------
(***************************************************************************)
(* Proofs about Slab, for every capacity and every number of stray writes: *)
(* the free list keeps its shape, so that a slot is never handed out       *)
(* twice, none is lost, no false alarm is raised, and the leak report of   *)
(* drop is exact.                                                          *)
(***************************************************************************)
EXTENDS Slab, SlabOpsProofs

-----------------------------------------------------------------------------
(* Facts about types. *)

LEMMA SlotRange ==
  /\ \A s \in Slots : s \in Nat /\ s < Capacity /\ s + 1 \in 1 .. Capacity
  /\ \A n \in 1 .. Capacity : n - 1 \in Slots
  /\ \A n \in 0 .. Capacity : n < Capacity => n \in Slots
BY CapacityAssumption DEF Slots

LEMMA SlabFields ==
  ASSUME NEW x \in SlabType
  PROVE  /\ x.protected \in BOOLEAN
         /\ x.free_head \in 0 .. Capacity
         /\ x.next_uncarved \in 0 .. Capacity
         /\ x.corruption_events \in Nat
         /\ x.mem \in [Slots -> Link]
         /\ \A s \in Slots : /\ x.mem[s].next_idx \in 0 .. (Capacity + 1)
                             /\ x.mem[s].mac \in Int \X Int
BY DEF SlabType, Link

(* A tag that deallocate wrote is not NoTag. *)
LEMMA TagsDiffer ==
  ASSUME NEW n \in Int, NEW s \in Slots
  PROVE  <<n, s>> # NoTag
BY SlotRange DEF NoTag

-----------------------------------------------------------------------------
(* What each operation of the slab does to its fields. *)

LEMMA PushEffect ==
  ASSUME NEW x \in SlabType, NEW s \in Slots
  PROVE  /\ Push(x, s) \in SlabType
         /\ Push(x, s).protected = x.protected
         /\ Push(x, s).free_head = s + 1
         /\ Push(x, s).next_uncarved = x.next_uncarved
         /\ Push(x, s).corruption_events = x.corruption_events
         /\ Push(x, s).mem[s].next_idx = x.free_head
         /\ Push(x, s).mem[s].mac = Sign(x.protected, x.free_head, s)
         /\ \A u \in Slots \ {s} : Push(x, s).mem[u] = x.mem[u]
  <1> DEFINE link == [next_idx |-> x.free_head, mac |-> Sign(x.protected, x.free_head, s)]
             m == [x.mem EXCEPT ![s] = link]
  <1>1. link \in Link
    BY SlabFields, SlotRange, CapacityAssumption DEF Link, Sign, NoTag
  <1>2. m \in [Slots -> Link] /\ m[s] = link /\ \A u \in Slots \ {s} : m[u] = x.mem[u]
    BY <1>1, SlabFields
  <1>3. Push(x, s) = [x EXCEPT !.mem = m, !.free_head = s + 1]
    BY DEF Push, Nonce, SlabType
  <1>4. s + 1 \in 0 .. Capacity
    BY SlotRange
  <1> HIDE DEF m
  <1>5. Push(x, s) \in SlabType
    BY <1>2, <1>3, <1>4 DEF SlabType
  <1> QED BY <1>2, <1>3, <1>5 DEF SlabType

LEMMA TakeHeadEffect ==
  ASSUME NEW x \in SlabType, x.free_head # 0,
         x.mem[x.free_head - 1].next_idx <= Capacity
  PROVE  LET h == x.free_head - 1
         IN  /\ TakeHead(x) \in SlabType
             /\ TakeHead(x).protected = x.protected
             /\ TakeHead(x).free_head = x.mem[h].next_idx
             /\ TakeHead(x).next_uncarved = x.next_uncarved
             /\ TakeHead(x).corruption_events = x.corruption_events
             /\ \A u \in Slots \ {h} : TakeHead(x).mem[u] = x.mem[u]
  <1> DEFINE h == x.free_head - 1
             m == [x.mem EXCEPT ![h] = Payload]
             n == x.mem[h].next_idx
  <1>1. Payload \in Link
    BY CapacityAssumption DEF Link, Payload, NoTag
  <1>2. h \in Slots
    BY SlabFields, SlotRange, CapacityAssumption
  <1>3. m \in [Slots -> Link] /\ \A u \in Slots \ {h} : m[u] = x.mem[u]
    BY <1>1, SlabFields
  <1>4. n \in 0 .. Capacity
    BY <1>2, SlabFields, CapacityAssumption
  <1>5. TakeHead(x) = [x EXCEPT !.free_head = n, !.mem = m]
    BY DEF TakeHead, SlabType
  <1> HIDE DEF m, n
  <1>6. TakeHead(x) \in SlabType
    BY <1>3, <1>4, <1>5 DEF SlabType
  <1>7. /\ TakeHead(x).protected = x.protected
        /\ TakeHead(x).free_head = n
        /\ TakeHead(x).next_uncarved = x.next_uncarved
        /\ TakeHead(x).corruption_events = x.corruption_events
        /\ TakeHead(x).mem = m
    BY <1>5 DEF SlabType
  <1> QED BY <1>3, <1>6, <1>7 DEF n

LEMMA AbandonEffect ==
  ASSUME NEW x \in SlabType
  PROVE  /\ Abandon(x) \in SlabType
         /\ Abandon(x).protected = x.protected
         /\ Abandon(x).free_head = 0
         /\ Abandon(x).next_uncarved = x.next_uncarved
         /\ x.free_head = 0 => Abandon(x).corruption_events = x.corruption_events
         /\ x.free_head # 0 => Abandon(x).corruption_events = x.corruption_events + 1
  <1> DEFINE n == x.corruption_events + (IF x.free_head = 0 THEN 0 ELSE 1)
  <1>1. n \in Nat /\ 0 \in 0 .. Capacity
    BY SlabFields, CapacityAssumption
  <1>2. Abandon(x) = [x EXCEPT !.free_head = 0, !.corruption_events = n]
    BY DEF Abandon, SlabType
  <1>3. (x.free_head = 0 => n = x.corruption_events)
        /\ (x.free_head # 0 => n = x.corruption_events + 1)
    BY SlabFields
  <1> HIDE DEF n
  <1> QED BY <1>1, <1>2, <1>3 DEF SlabType

LEMMA CarveEffect ==
  ASSUME NEW x \in SlabType, x.next_uncarved < Capacity
  PROVE  /\ Carve(x) \in SlabType
         /\ Carve(x).protected = x.protected
         /\ Carve(x).free_head = x.free_head
         /\ Carve(x).next_uncarved = x.next_uncarved + 1
         /\ Carve(x).corruption_events = x.corruption_events
  <1> DEFINE n == x.next_uncarved + 1
  <1>1. n \in 0 .. Capacity
    BY SlabFields, CapacityAssumption
  <1>2. Carve(x) = [x EXCEPT !.next_uncarved = n]
    BY DEF Carve, SlabType
  <1> HIDE DEF n
  <1>3. /\ Carve(x) \in SlabType
        /\ Carve(x).protected = x.protected
        /\ Carve(x).free_head = x.free_head
        /\ Carve(x).next_uncarved = n
        /\ Carve(x).corruption_events = x.corruption_events
    BY <1>1, <1>2 DEF SlabType
  <1> QED BY <1>3 DEF n

-----------------------------------------------------------------------------
(* The head that allocate follows carries the link deallocate wrote. *)
LEMMA FollowedHeadIsIntact ==
  ASSUME TypeOK, ListShape, HeadIntact(slab)
  PROVE  /\ slab.free_head - 1 \in Slots
         /\ rank[slab.free_head - 1] = depth
         /\ depth > 0
         /\ Intact(slab.free_head - 1)
  <1> DEFINE h == slab.free_head - 1
  <1>0. slab \in SlabType
    BY DEF TypeOK
  <1>1. slab.free_head # 0 /\ slab.mem[h].next_idx <= Capacity
        /\ Verify(slab.protected, slab.mem[h], h)
    BY DEF HeadIntact, Nonce
  <1>2. h \in Slots
    BY <1>0, <1>1, SlabFields, SlotRange, CapacityAssumption
  <1>3. rank[h] = depth /\ depth > 0
    BY <1>1 DEF ListShape
  <1>4. ~Broken(h)
    <2>1. CASE slab.protected
      BY <1>0, <1>1, <1>2, <2>1, SlabFields, TagsDiffer, CapacityAssumption DEF Broken, Verify
    <2>2. CASE ~slab.protected
      BY <1>0, <1>1, <1>2, <2>2, SlabFields, CapacityAssumption DEF Broken
    <2> QED BY <2>1, <2>2
  <1>5. Intact(h) \/ Broken(h)
    BY <1>2, <1>3 DEF ListShape
  <1> QED BY <1>2, <1>3, <1>4, <1>5

(* A head that allocate does not follow is not intact. *)
LEMMA RefusedHeadIsNotIntact ==
  ASSUME TypeOK, ListShape, ~HeadIntact(slab), slab.free_head # 0
  PROVE  \E s \in Slots : rank[s] > 0 /\ ~Intact(s)
  <1> DEFINE h == slab.free_head - 1
  <1>0. slab \in SlabType
    BY DEF TypeOK
  <1>1. h \in Slots
    BY <1>0, SlabFields, SlotRange, CapacityAssumption
  <1>2. rank[h] > 0
    BY DEF ListShape
  <1>3. ASSUME Intact(h) PROVE HeadIntact(slab)
    <2>1. slab.mem[h].mac = Sign(slab.protected, slab.mem[h].next_idx, h)
          /\ slab.mem[h].next_idx \in 0 .. Capacity
      BY <1>3 DEF Intact
    <2>2. Verify(slab.protected, slab.mem[h], h)
      BY <2>1 DEF Verify, Sign
    <2> QED BY <2>1, <2>2, CapacityAssumption DEF HeadIntact, Nonce
  <1> QED BY <1>1, <1>2, <1>3

-----------------------------------------------------------------------------
(* The initial state satisfies the inductive invariant. *)
LEMMA InitInv == Init => IndInv
  <1> SUFFICES ASSUME Init PROVE IndInv
    OBVIOUS
  <1>1. PICK p \in BOOLEAN, b \in Bases : slab = NewSlab(p, b)
    BY DEF Init
  <1>2. Payload \in Link
    BY CapacityAssumption DEF Link, Payload, NoTag
  <1>3. slab \in SlabType
    BY <1>1, <1>2, CapacityAssumption DEF NewSlab, SlabType
  <1>4. slab.free_head = 0 /\ slab.next_uncarved = 0 /\ slab.corruption_events = 0
    BY <1>1 DEF NewSlab
  <1>0. /\ held = [s \in Slots |-> 0] /\ rank = [s \in Slots |-> 0]
        /\ strays = 0 /\ depth = 0
        /\ dropped = FALSE /\ imbalance = FALSE
    BY DEF Init
  <1>5. TypeOK
    <2>1. held \in [Slots -> Nat] /\ rank \in [Slots -> Nat]
      BY <1>0
    <2>2. strays \in 0 .. MaxStray /\ depth \in Nat
      BY <1>0, SlabAssumption
    <2>3. dropped \in BOOLEAN /\ imbalance \in BOOLEAN
      BY <1>0
    <2> QED BY <1>3, <2>1, <2>2, <2>3 DEF TypeOK
  <1>6. \A s \in Slots : rank[s] = 0 /\ held[s] = 0 /\ s \in Nat
    BY <1>0, SlotRange
  <1>8. ListShape
    BY <1>0, <1>4, <1>6 DEF ListShape
  <1>9. Ownership /\ Accounting /\ Alarms
    BY <1>0, <1>4, <1>6 DEF Ownership, Accounting, Alarms
  <1> QED BY <1>5, <1>8, <1>9 DEF IndInv

(* Popping the head. *)
LEMMA AllocateFromListInv ==
  ASSUME IndInv, AllocateFromList
  PROVE  IndInv'
  <1> DEFINE h == slab.free_head - 1
             n == slab.mem[h].next_idx
  <1>0. TypeOK /\ ListShape /\ Ownership /\ Accounting /\ Alarms /\ slab \in SlabType
    BY DEF IndInv, TypeOK
  <1>1. HeadIntact(slab) /\ slab.free_head # 0 /\ n <= Capacity
    BY DEF AllocateFromList, HeadIntact
  <1>2. h \in Slots /\ rank[h] = depth /\ depth > 0 /\ Intact(h)
    BY <1>0, <1>1, FollowedHeadIsIntact
  <1>3. slab' = TakeHead(slab) /\ Allocate(slab, TRUE).slot = h
    BY <1>1 DEF AllocateFromList, Allocate, Result
  <1>4. /\ held' = [held EXCEPT ![h] = @ + 1]
        /\ rank' = [rank EXCEPT ![h] = 0]
        /\ depth' = depth - 1
        /\ UNCHANGED <<strays, dropped, imbalance>>
    BY <1>3 DEF AllocateFromList
  <1>5. /\ slab' \in SlabType
        /\ slab'.protected = slab.protected
        /\ slab'.free_head = n
        /\ slab'.next_uncarved = slab.next_uncarved
        /\ slab'.corruption_events = slab.corruption_events
        /\ \A u \in Slots \ {h} : slab'.mem[u] = slab.mem[u]
    BY <1>0, <1>1, <1>3, TakeHeadEffect
  <1>6. /\ held \in [Slots -> Nat] /\ rank \in [Slots -> Nat] /\ depth \in Nat
        /\ slab.next_uncarved \in 0 .. Capacity /\ slab.corruption_events \in Nat
        /\ strays \in Nat /\ n \in Nat
    BY <1>0, <1>2, SlabFields, SlabAssumption, CapacityAssumption DEF TypeOK
  <1>7. \A u \in Slots \ {h} : rank'[u] = rank[u] /\ held'[u] = held[u]
    BY <1>4, <1>6
  <1>8. rank'[h] = 0 /\ held'[h] = held[h] + 1
    BY <1>2, <1>4, <1>6
  <1>9. \A u \in Slots \ {h} : rank[u] > 0 => rank[u] < depth
    BY <1>0, <1>2, <1>6 DEF ListShape
  <1>10. IF depth = 1 THEN n = 0
                      ELSE n \in 1 .. Capacity /\ n - 1 \in Slots /\ rank[n - 1] = depth - 1
    BY <1>2, <1>6, SlotRange, CapacityAssumption DEF Intact
  <1> HIDE DEF h, n
  <1>11. TypeOK'
    BY <1>0, <1>2, <1>4, <1>5, <1>6 DEF TypeOK
  <1>12. \A u \in Slots \ {h} : rank[u] > 0 =>
           (Intact(u) => Intact(u)') /\ (Broken(u) => Broken(u)')
    <2> TAKE u \in Slots \ {h}
    <2> HAVE rank[u] > 0
    <2>1. ASSUME Intact(u) PROVE Intact(u)'
      <3> DEFINE m == slab.mem[u].next_idx
      <3>1. /\ slab.mem[u].mac = Sign(slab.protected, m, u)
            /\ m \in 0 .. Capacity
            /\ rank[u] = 1 => m = 0
            /\ rank[u] # 1 => m > 0 /\ rank[m - 1] = rank[u] - 1
        BY <2>1 DEF Intact
      <3>2. rank[u] # 1 => m - 1 \in Slots /\ m - 1 # h
        BY <1>2, <1>6, <1>9, <3>1, SlotRange, CapacityAssumption
      <3>3. slab'.mem[u] = slab.mem[u] /\ rank'[u] = rank[u]
        BY <1>5, <1>7
      <3>4. rank[u] # 1 => rank'[m - 1] = rank[m - 1]
        BY <1>7, <3>2
      <3> QED BY <1>5, <3>1, <3>3, <3>4 DEF Intact
    <2>2. ASSUME Broken(u) PROVE Broken(u)'
      BY <1>5, <2>2 DEF Broken
    <2> QED BY <2>1, <2>2
  <1>13. ListShape'
    <2>1. \A s \in Slots : rank'[s] <= depth'
      BY <1>4, <1>6, <1>7, <1>8, <1>9, <1>2, <1>0 DEF ListShape
    <2>2. \A s, u \in Slots : rank'[s] = rank'[u] /\ rank'[s] > 0 => s = u
      BY <1>0, <1>7, <1>8 DEF ListShape
    <2>3. slab'.free_head = 0 => depth' = 0
      BY <1>4, <1>5, <1>6, <1>10
    <2>4. slab'.free_head # 0 => rank'[slab'.free_head - 1] = depth' /\ depth' > 0
      BY <1>2, <1>4, <1>5, <1>6, <1>7, <1>10
    <2>5. \A s \in Slots : rank'[s] > 0 => Intact(s)' \/ Broken(s)'
      BY <1>0, <1>7, <1>8, <1>12 DEF ListShape
    <2> QED BY <2>1, <2>2, <2>3, <2>4, <2>5 DEF ListShape
  <1>14. Ownership'
    BY <1>0, <1>2, <1>5, <1>6, <1>7, <1>8, SlotRange DEF Ownership
  <1>15. Accounting'
    BY <1>0, <1>5, <1>6, <1>7, <1>8 DEF Accounting
  <1>16. Alarms'
    BY <1>0, <1>4, <1>5, <1>7, <1>8, <1>12 DEF Alarms
  <1> QED BY <1>11, <1>13, <1>14, <1>15, <1>16 DEF IndInv

(* Abandoning the list, when it is not empty, spends a stray write. *)
LEMMA AbandonAlarm ==
  ASSUME IndInv, ~HeadIntact(slab)
  PROVE  Abandon(slab).corruption_events <= strays
  <1>1. slab \in SlabType /\ strays \in Nat /\ slab.corruption_events \in Nat
    BY SlabFields, SlabAssumption DEF IndInv, TypeOK
  <1>2. slab.free_head # 0 => slab.corruption_events < strays
    BY RefusedHeadIsNotIntact DEF IndInv, Alarms
  <1>3. slab.corruption_events <= strays
    BY DEF IndInv, Alarms
  <1> QED BY <1>1, <1>2, <1>3, AbandonEffect

(* Carving a slot that was never used. *)
LEMMA AllocateByCarvingInv ==
  ASSUME IndInv, AllocateByCarving
  PROVE  IndInv'
  <1> DEFINE s == slab.next_uncarved
  <1>0. TypeOK /\ ListShape /\ Ownership /\ Accounting /\ slab \in SlabType
    BY DEF IndInv, TypeOK
  <1>1. ~HeadIntact(slab) /\ s < Capacity
    BY DEF AllocateByCarving
  <1>2. slab' = Carve(Abandon(slab)) /\ Allocate(slab, TRUE).slot = s
    BY <1>1 DEF AllocateByCarving, Allocate, Result
  <1>3. /\ held' = [held EXCEPT ![s] = @ + 1]
        /\ rank' = [u \in Slots |-> 0]
        /\ depth' = 0
        /\ UNCHANGED <<strays, dropped, imbalance>>
    BY <1>2 DEF AllocateByCarving
  <1>4. Abandon(slab) \in SlabType /\ Abandon(slab).next_uncarved < Capacity
    BY <1>0, <1>1, AbandonEffect
  <1>5. /\ slab' \in SlabType
        /\ slab'.free_head = 0
        /\ slab'.next_uncarved = s + 1
        /\ slab'.corruption_events = Abandon(slab).corruption_events
    BY <1>0, <1>2, <1>4, AbandonEffect, CarveEffect
  <1>6. /\ held \in [Slots -> Nat] /\ rank \in [Slots -> Nat] /\ depth \in Nat
        /\ s \in 0 .. Capacity /\ slab.corruption_events \in Nat
        /\ slab.free_head \in 0 .. Capacity /\ s \in Slots
    BY <1>0, <1>1, SlabFields, SlotRange DEF TypeOK
  <1>7. \A u \in Slots : rank'[u] = 0 /\ u \in Nat
    BY <1>3, SlotRange
  <1>8. held'[s] = held[s] + 1 /\ \A u \in Slots \ {s} : held'[u] = held[u]
    BY <1>3, <1>6
  <1>9. held[s] = 0
    BY <1>0, <1>6 DEF Ownership
  <1>10. slab'.corruption_events = 0 => slab.free_head = 0 /\ slab.corruption_events = 0
    <2>1. /\ slab.free_head = 0 => slab'.corruption_events = slab.corruption_events
          /\ slab.free_head # 0 => slab'.corruption_events = slab.corruption_events + 1
      BY <1>0, <1>5, AbandonEffect
    <2> QED BY <1>6, <2>1
  <1> HIDE DEF s
  <1>11. TypeOK'
    BY <1>0, <1>3, <1>5, <1>6 DEF TypeOK
  <1>12. ListShape'
    BY <1>3, <1>5, <1>7 DEF ListShape
  <1>13. Ownership'
    <2> SUFFICES ASSUME NEW u \in Slots
                 PROVE  /\ held'[u] <= 1
                        /\ held'[u] > 0 \/ rank'[u] > 0 => u < slab'.next_uncarved
      BY <1>7 DEF Ownership
    <2>1. CASE u = s
      BY <1>5, <1>6, <1>8, <1>9, <2>1
    <2>2. CASE u # s
      <3>1. held'[u] = held[u] /\ rank'[u] = 0 /\ held[u] <= 1
            /\ (held[u] > 0 => u < slab.next_uncarved)
        BY <1>0, <1>7, <1>8, <2>2 DEF Ownership
      <3> QED BY <1>5, <1>6, <1>7, <3>1 DEF s
    <2> QED BY <2>1, <2>2
  <1>14. Accounting'
    <2> SUFFICES ASSUME slab'.corruption_events = 0, NEW u \in Slots, u < slab'.next_uncarved
                 PROVE  held'[u] > 0
      BY DEF Accounting
    <2>1. depth = 0 /\ slab.corruption_events = 0
      BY <1>0, <1>10 DEF ListShape
    <2>2. CASE u = s
      BY <1>6, <1>8, <2>2
    <2>3. CASE u # s
      <3>1. u < slab.next_uncarved
        BY <1>5, <1>6, <1>7, <2>3 DEF s
      <3>2. rank[u] = 0
        BY <1>0, <1>6, <2>1 DEF ListShape
      <3> QED BY <1>0, <1>6, <1>8, <2>1, <2>3, <3>1, <3>2 DEF Accounting
    <2> QED BY <2>2, <2>3
  <1>15. Alarms'
    BY <1>1, <1>3, <1>5, <1>7, AbandonAlarm DEF Alarms
  <1> QED BY <1>11, <1>12, <1>13, <1>14, <1>15 DEF IndInv

(* Refusing, with the region carved to its end. *)
LEMMA AllocateFailsInv ==
  ASSUME IndInv, AllocateFails
  PROVE  IndInv'
  <1>0. TypeOK /\ ListShape /\ Ownership /\ Accounting /\ slab \in SlabType
    BY DEF IndInv, TypeOK
  <1>6. /\ held \in [Slots -> Nat] /\ rank \in [Slots -> Nat] /\ depth \in Nat
        /\ slab.next_uncarved \in 0 .. Capacity /\ slab.corruption_events \in Nat
        /\ slab.free_head \in 0 .. Capacity
    BY <1>0, SlabFields DEF TypeOK
  <1>1. ~HeadIntact(slab) /\ ~(slab.next_uncarved < Capacity)
    BY <1>6, CapacityAssumption DEF AllocateFails
  <1>2. slab' = Abandon(slab)
    BY <1>1 DEF AllocateFails, Allocate, Result
  <1>3. /\ rank' = [u \in Slots |-> 0] /\ depth' = 0
        /\ UNCHANGED <<held, strays, dropped, imbalance>>
    BY DEF AllocateFails
  <1>4. \A u \in Slots : rank'[u] = 0 /\ u \in Nat
    BY <1>3, SlotRange
  <1>5. slab' \in SlabType /\ slab'.free_head = 0 /\ slab'.next_uncarved = slab.next_uncarved
    BY <1>0, <1>2, AbandonEffect
  <1>7. TypeOK'
    BY <1>0, <1>3, <1>5 DEF TypeOK
  <1>8. ListShape'
    BY <1>3, <1>4, <1>5 DEF ListShape
  <1>9. Ownership'
    BY <1>0, <1>3, <1>4, <1>5 DEF Ownership
  <1>10. Accounting'
    <2> SUFFICES ASSUME slab'.corruption_events = 0, NEW u \in Slots, u < slab'.next_uncarved
                 PROVE  held'[u] > 0
      BY DEF Accounting
    <2>1. slab.free_head = 0 /\ slab.corruption_events = 0
      BY <1>0, <1>2, <1>6, AbandonEffect
    <2>2. rank[u] = 0
      BY <1>0, <1>6, <2>1 DEF ListShape
    <2> QED BY <1>0, <1>3, <1>5, <1>6, <2>1, <2>2 DEF Accounting
  <1>11. Alarms'
    BY <1>1, <1>2, <1>3, <1>4, AbandonAlarm DEF Alarms
  <1> QED BY <1>7, <1>8, <1>9, <1>10, <1>11 DEF IndInv

(* Pushing a slot its holder returns. *)
LEMMA DeallocateInv ==
  ASSUME IndInv, NEW s \in Slots, Deallocate(s)
  PROVE  IndInv'
  <1>0. TypeOK /\ ListShape /\ Ownership /\ Accounting /\ Alarms /\ slab \in SlabType
    BY DEF IndInv, TypeOK
  <1>1. /\ held[s] > 0 /\ slab' = Push(slab, s)
        /\ held' = [held EXCEPT ![s] = @ - 1]
        /\ rank' = [rank EXCEPT ![s] = depth + 1]
        /\ depth' = depth + 1
        /\ UNCHANGED <<strays, dropped, imbalance>>
    BY DEF Deallocate
  <1>2. /\ slab' \in SlabType
        /\ slab'.protected = slab.protected
        /\ slab'.free_head = s + 1
        /\ slab'.next_uncarved = slab.next_uncarved
        /\ slab'.corruption_events = slab.corruption_events
        /\ slab'.mem[s].next_idx = slab.free_head
        /\ slab'.mem[s].mac = Sign(slab.protected, slab.free_head, s)
        /\ \A u \in Slots \ {s} : slab'.mem[u] = slab.mem[u]
    BY <1>0, <1>1, PushEffect
  <1>3. /\ held \in [Slots -> Nat] /\ rank \in [Slots -> Nat] /\ depth \in Nat
        /\ slab.free_head \in 0 .. Capacity /\ s \in Nat
    BY <1>0, SlabFields, SlotRange DEF TypeOK
  <1>4. held[s] = 1 /\ rank[s] = 0 /\ s < slab.next_uncarved
    BY <1>0, <1>1, <1>3 DEF Ownership
  <1>5. /\ \A u \in Slots \ {s} : rank'[u] = rank[u] /\ held'[u] = held[u]
        /\ rank'[s] = depth + 1 /\ held'[s] = 0
    BY <1>1, <1>3, <1>4
  <1>6. \A u \in Slots : rank[u] <= depth
    BY <1>0 DEF ListShape
  <1>7. TypeOK'
    BY <1>0, <1>1, <1>2, <1>3, <1>4 DEF TypeOK
  <1>8. Intact(s)'
    <2>1. slab.free_head # 0 => /\ slab.free_head - 1 \in Slots
                                /\ rank[slab.free_head - 1] = depth /\ depth > 0
      BY <1>0, <1>3, SlotRange, CapacityAssumption DEF ListShape
    <2>2. slab.free_head # 0 => rank'[slab.free_head - 1] = depth
      BY <1>3, <1>4, <1>5, <2>1
    <2>3. slab.free_head = 0 => depth = 0
      BY <1>0 DEF ListShape
    <2> QED BY <1>2, <1>3, <1>5, <2>1, <2>2, <2>3, CapacityAssumption DEF Intact
  <1>9. \A u \in Slots \ {s} : rank[u] > 0 =>
           (Intact(u) => Intact(u)') /\ (Broken(u) => Broken(u)')
    <2> TAKE u \in Slots \ {s}
    <2> HAVE rank[u] > 0
    <2>1. ASSUME Intact(u) PROVE Intact(u)'
      <3> DEFINE m == slab.mem[u].next_idx
      <3>1. /\ slab.mem[u].mac = Sign(slab.protected, m, u)
            /\ m \in 0 .. Capacity
            /\ rank[u] = 1 => m = 0
            /\ rank[u] # 1 => m > 0 /\ rank[m - 1] = rank[u] - 1
        BY <2>1 DEF Intact
      <3>2. rank[u] # 1 => m - 1 \in Slots /\ m - 1 # s
        <4>1. rank[u] \in Nat /\ (rank[u] # 1 => rank[u] - 1 # rank[s])
          BY <1>3, <1>4
        <4> QED BY <3>1, <4>1, SlotRange, CapacityAssumption
      <3>3. slab'.mem[u] = slab.mem[u] /\ rank'[u] = rank[u]
        BY <1>2, <1>5
      <3>4. rank[u] # 1 => rank'[m - 1] = rank[m - 1]
        BY <1>5, <3>2
      <3> QED BY <1>2, <3>1, <3>3, <3>4 DEF Intact
    <2>2. ASSUME Broken(u) PROVE Broken(u)'
      BY <1>2, <2>2 DEF Broken
    <2> QED BY <2>1, <2>2
  <1>10. ListShape'
    <2>1. \A u \in Slots : rank'[u] <= depth'
      BY <1>1, <1>3, <1>5, <1>6
    <2>2. \A u, v \in Slots : rank'[u] = rank'[v] /\ rank'[u] > 0 => u = v
      BY <1>0, <1>3, <1>5, <1>6 DEF ListShape
    <2>3. slab'.free_head # 0 /\ slab'.free_head - 1 = s
      BY <1>2, <1>3
    <2>4. \A u \in Slots : rank'[u] > 0 => Intact(u)' \/ Broken(u)'
      BY <1>0, <1>5, <1>8, <1>9 DEF ListShape
    <2> QED BY <1>1, <1>3, <1>5, <2>1, <2>2, <2>3, <2>4 DEF ListShape
  <1>11. Ownership'
    BY <1>0, <1>2, <1>3, <1>4, <1>5 DEF Ownership
  <1>12. Accounting'
    BY <1>0, <1>2, <1>3, <1>5 DEF Accounting
  <1>13. Alarms'
    BY <1>0, <1>1, <1>2, <1>5, <1>8, <1>9 DEF Alarms
  <1> QED BY <1>7, <1>10, <1>11, <1>12, <1>13 DEF IndInv

(* Moving the slab changes its address and nothing that a link depends on. *)
LEMMA MoveInv ==
  ASSUME IndInv, NEW b \in Bases, Move(b)
  PROVE  IndInv'
  <1>0. TypeOK /\ ListShape /\ Ownership /\ Accounting /\ Alarms /\ slab \in SlabType
    BY DEF IndInv, TypeOK
  <1>1. slab' = [slab EXCEPT !.base = b]
        /\ UNCHANGED <<held, strays, dropped, imbalance, rank, depth>>
    BY DEF Move, history
  <1>2. /\ slab' \in SlabType
        /\ slab'.protected = slab.protected
        /\ slab'.free_head = slab.free_head
        /\ slab'.next_uncarved = slab.next_uncarved
        /\ slab'.corruption_events = slab.corruption_events
        /\ slab'.mem = slab.mem
    BY <1>0, <1>1 DEF SlabType
  <1>3. \A u \in Slots : (Intact(u)' <=> Intact(u)) /\ (Broken(u)' <=> Broken(u))
    BY <1>1, <1>2 DEF Intact, Broken
  <1>4. TypeOK'
    BY <1>0, <1>1, <1>2 DEF TypeOK
  <1>5. ListShape'
    BY <1>0, <1>1, <1>2, <1>3 DEF ListShape
  <1>6. Ownership' /\ Accounting'
    BY <1>0, <1>1, <1>2 DEF Ownership, Accounting
  <1>7. Alarms'
    BY <1>0, <1>1, <1>2, <1>3 DEF Alarms
  <1> QED BY <1>4, <1>5, <1>6, <1>7 DEF IndInv

(* A stray write breaks the link of a listed slot and nothing else. *)
LEMMA StrayWriteInv ==
  ASSUME IndInv, NEW s \in Slots, NEW n \in 0 .. (Capacity + 1), StrayWrite(s, n)
  PROVE  IndInv'
  <1> DEFINE link == [next_idx |-> n, mac |-> NoTag]
             m == [slab.mem EXCEPT ![s] = link]
  <1>0. TypeOK /\ ListShape /\ Ownership /\ Accounting /\ Alarms /\ slab \in SlabType
    BY DEF IndInv, TypeOK
  <1>1. /\ rank[s] > 0 /\ (slab.protected \/ n > Capacity) /\ strays < MaxStray
        /\ slab' = [slab EXCEPT !.mem[s] = link]
        /\ strays' = strays + 1
        /\ UNCHANGED <<held, dropped, imbalance, rank, depth>>
    BY DEF StrayWrite, history
  <1>2. link \in Link
    BY DEF Link, NoTag
  <1>3. m \in [Slots -> Link] /\ m[s] = link /\ \A u \in Slots \ {s} : m[u] = slab.mem[u]
    BY <1>0, <1>2, SlabFields
  <1>4. slab' = [slab EXCEPT !.mem = m]
    BY <1>1
  <1> HIDE DEF m
  <1>5. /\ slab' \in SlabType
        /\ slab'.protected = slab.protected
        /\ slab'.free_head = slab.free_head
        /\ slab'.next_uncarved = slab.next_uncarved
        /\ slab'.corruption_events = slab.corruption_events
        /\ slab'.mem = m
    BY <1>0, <1>3, <1>4 DEF SlabType
  <1>6. Broken(s)'
    BY <1>1, <1>3, <1>5 DEF Broken
  <1>7. \A u \in Slots \ {s} : (Intact(u)' <=> Intact(u)) /\ (Broken(u)' <=> Broken(u))
    BY <1>1, <1>3, <1>5 DEF Intact, Broken
  <1>8. TypeOK'
    BY <1>0, <1>1, <1>5, SlabAssumption DEF TypeOK
  <1>9. ListShape'
    BY <1>0, <1>1, <1>5, <1>6, <1>7 DEF ListShape
  <1>10. Ownership' /\ Accounting'
    BY <1>0, <1>1, <1>5 DEF Ownership, Accounting
  <1>11. Alarms'
    BY <1>0, <1>1, <1>5, SlabFields, SlabAssumption DEF Alarms, TypeOK
  <1> QED BY <1>8, <1>9, <1>10, <1>11 DEF IndInv

(* A step that leaves slab and history alone. *)
LEMMA QuietStepInv ==
  ASSUME IndInv, UNCHANGED <<slab, held, strays, rank, depth>>,
         dropped' \in BOOLEAN, imbalance' \in BOOLEAN
  PROVE  IndInv'
  <1>1. TypeOK'
    BY DEF IndInv, TypeOK
  <1>2. \A u \in Slots : (Intact(u)' <=> Intact(u)) /\ (Broken(u)' <=> Broken(u))
    BY DEF Intact, Broken
  <1>3. ListShape'
    BY <1>2 DEF IndInv, ListShape
  <1>4. Ownership' /\ Accounting'
    BY DEF IndInv, Ownership, Accounting
  <1>5. Alarms'
    BY <1>2 DEF IndInv, Alarms
  <1> QED BY <1>1, <1>3, <1>4, <1>5 DEF IndInv

(* Every step of Next preserves the inductive invariant. *)
LEMMA NextInv == IndInv /\ [Next]_vars => IndInv'
  <1> SUFFICES ASSUME IndInv, [Next]_vars PROVE IndInv'
    OBVIOUS
  <1>0. dropped \in BOOLEAN /\ imbalance \in BOOLEAN
    BY DEF IndInv, TypeOK
  <1>1. CASE AllocateFromList
    BY <1>1, AllocateFromListInv
  <1>2. CASE AllocateByCarving
    BY <1>2, AllocateByCarvingInv
  <1>3. CASE AllocateFails
    BY <1>3, AllocateFailsInv
  <1>4. CASE \E s \in Slots : Deallocate(s)
    BY <1>4, DeallocateInv
  <1>5. CASE \E b \in Bases : Move(b)
    BY <1>5, MoveInv
  <1>6. CASE \E s \in Slots, n \in 0 .. (Capacity + 1) : StrayWrite(s, n)
    BY <1>6, StrayWriteInv
  <1>7. CASE Drop
    <2>1. imbalance' \in BOOLEAN /\ dropped' \in BOOLEAN
      BY <1>7, Zenon DEF Drop
    <2>2. UNCHANGED <<slab, held, strays, rank, depth>>
      BY <1>7 DEF Drop, history
    <2> QED BY <2>1, <2>2, QuietStepInv
  <1>8. CASE UNCHANGED vars
    <2>1. UNCHANGED <<slab, held, strays, rank, depth>> /\ dropped' = dropped
          /\ imbalance' = imbalance
      BY <1>8 DEF vars
    <2> QED BY <1>0, <2>1, QuietStepInv
  <1> QED BY <1>1, <1>2, <1>3, <1>4, <1>5, <1>6, <1>7, <1>8 DEF Next

(* The inductive invariant holds in every reachable state of a slab. *)
THEOREM Invariance == Spec => []IndInv
BY InitInv, NextInv, PTL DEF Spec

(* Every index the slab follows stays inside the region. *)
THEOREM TypeCorrect == Spec => []TypeOK
  <1>1. IndInv => TypeOK
    BY DEF IndInv
  <1> QED BY <1>1, Invariance, PTL

(* Slab::allocate refuses a fitting request only when every slot is in use.*)
THEOREM NothingLost == Spec => []ExhaustedMeansAllHeld
  <1>1. IndInv => ExhaustedMeansAllHeld
    <2> SUFFICES ASSUME IndInv, slab.free_head = 0, slab.next_uncarved = Capacity,
                        slab.corruption_events = 0, NEW s \in Slots
                 PROVE  held[s] = 1
      BY DEF ExhaustedMeansAllHeld
    <2>1. held[s] \in Nat /\ rank[s] \in Nat /\ depth = 0 /\ s < Capacity
      BY SlotRange DEF IndInv, TypeOK, ListShape
    <2>2. rank[s] = 0
      BY <2>1 DEF IndInv, ListShape
    <2>3. held[s] > 0 /\ held[s] <= 1
      BY <2>1, <2>2 DEF IndInv, Accounting, Ownership
    <2> QED BY <2>1, <2>3
  <1> QED BY <1>1, Invariance, PTL

(* Moves of the slab and any order of calls raise no false alarm. *)
THEOREM AlarmsAreReal == Spec => []NoFalseAlarm
  <1>1. IndInv => NoFalseAlarm
    BY DEF IndInv, Alarms, NoFalseAlarm
  <1> QED BY <1>1, Invariance, PTL

(* With no stray write the list is a chain of the slots the history ranks. *)
LEMMA UntouchedListIsLinked ==
  ASSUME IndInv, strays = 0
  PROVE  Linked(slab, rank) /\ slab.corruption_events = 0
  <1>0. TypeOK /\ ListShape /\ Ownership /\ Alarms /\ slab \in SlabType
    BY DEF IndInv, TypeOK
  <1>1. /\ slab.free_head \in 0 .. Capacity /\ slab.corruption_events \in Nat
        /\ rank \in [Slots -> Nat] /\ depth \in Nat
    BY <1>0, SlabFields DEF TypeOK
  <1>2. slab.corruption_events = 0 /\ \A s \in Slots : rank[s] > 0 => Intact(s)
    BY <1>0, <1>1 DEF Alarms
  <1>3. Depth(slab, rank) = depth
    BY <1>0 DEF Depth, ListShape
  <1>4. ASSUME NEW s \in Slots, rank[s] > 0
        PROVE  /\ slab.mem[s].next_idx <= Capacity
               /\ slab.mem[s].next_idx = 0 => rank[s] = 1
               /\ slab.mem[s].next_idx # 0 =>
                    rank[s] > 1 /\ rank[slab.mem[s].next_idx - 1] = rank[s] - 1
    <2> DEFINE m == slab.mem[s].next_idx
    <2>1. /\ m \in 0 .. Capacity
          /\ rank[s] = 1 => m = 0
          /\ rank[s] # 1 => m > 0 /\ rank[m - 1] = rank[s] - 1
      BY <1>2, <1>4 DEF Intact
    <2>2. rank[s] \in Nat /\ (rank[s] # 1 => rank[s] > 1)
      BY <1>1, <1>4
    <2> HIDE DEF m
    <2>3. m <= Capacity /\ (m = 0 => rank[s] = 1)
          /\ (m # 0 => rank[s] > 1 /\ rank[m - 1] = rank[s] - 1)
      BY <2>1, <2>2, CapacityAssumption
    <2> QED BY <2>3 DEF m
  <1>5. /\ \A s, u \in Slots : rank[s] > 0 /\ rank[s] = rank[u] => s = u
        /\ \A s \in Slots : rank[s] <= Depth(slab, rank)
        /\ slab.free_head # 0 => rank[slab.free_head - 1] > 0
    BY <1>0, <1>3 DEF ListShape
  <1> QED BY <1>1, <1>2, <1>4, <1>5 DEF Linked

(* What drop counts, with no stray write: the slots on the list fall short *)
(* of the slots carved exactly when a slot is held.                        *)
LEMMA CountTellsLeaks ==
  ASSUME IndInv, strays = 0
  PROVE  (FreelistLen(slab) # slab.next_uncarved) <=> \E s \in Slots : held[s] > 0
  <1> DEFINE P == {s \in Slots : rank[s] > 0}
             n == slab.next_uncarved
             C == 0 .. (n - 1)
  <1>0. TypeOK /\ Ownership /\ Accounting /\ slab \in SlabType
    BY DEF IndInv, TypeOK
  <1>1. Linked(slab, rank) /\ slab.corruption_events = 0
    BY UntouchedListIsLinked
  <1>2. /\ slab.free_head \in 0 .. Capacity /\ n \in 0 .. Capacity
        /\ \A s \in Slots : slab.mem[s].next_idx \in Nat
        /\ rank \in [Slots -> Nat] /\ held \in [Slots -> Nat]
    BY <1>0, SlabFields, CapacityAssumption DEF TypeOK
  <1>3. FreelistLen(slab) = Cardinality(P)
    BY <1>1, <1>2, FreelistLenCounts
  <1>4. n \in Nat /\ IsFiniteSet(C) /\ Cardinality(C) = n
    BY <1>2, FromZero, CapacityAssumption
  <1>5. C = {s \in Slots : s < n}
    BY <1>2, CapacityAssumption DEF Slots
  <1>6. P \subseteq C
    BY <1>0, <1>5 DEF Ownership
  <1>7. P = C <=> ~\E s \in Slots : held[s] > 0
    <2>1. ASSUME NEW s \in Slots, held[s] > 0 PROVE P # C
      <3>1. s \in C /\ s \notin P
        BY <1>0, <1>2, <1>5, <2>1 DEF Ownership
      <3> QED BY <3>1
    <2>2. ASSUME ~\E s \in Slots : held[s] > 0 PROVE C \subseteq P
      BY <1>0, <1>1, <1>5, <2>2 DEF Accounting
    <2> QED BY <1>6, <2>1, <2>2
  <1>8. Cardinality(P) = Cardinality(C) <=> P = C
    <2> HIDE DEF P, C
    <2> QED BY <1>4, <1>6, FS_Subset
  <1> QED BY <1>3, <1>4, <1>7, <1>8

(* The leak report of Slab::drop fires if and only if a slot is still      *)
(* held, whatever calls came before, as long as no link was overwritten:   *)
(* the count of the walk is compared with the cursor, and the two agree    *)
(* exactly when every carved slot is back on the list.                     *)
THEOREM DropReportIsExact == Spec => []DropReportExact
  <1>1. Init => DropReportExact
    BY DEF Init, DropReportExact
  <1>2. IndInv /\ DropReportExact /\ [Next]_vars => DropReportExact'
    <2> SUFFICES ASSUME IndInv, DropReportExact, [Next]_vars, dropped', strays' = 0
                 PROVE  imbalance' <=> \E s \in Slots : held'[s] > 0
      BY DEF DropReportExact
    <2>1. CASE Drop
      <3>1. held' = held /\ strays = 0
        BY <2>1 DEF Drop
      <3>2. imbalance' = (FreelistLen(slab) # slab.next_uncarved)
        BY <2>1 DEF Drop
      <3>3. (FreelistLen(slab) # slab.next_uncarved) <=> \E s \in Slots : held[s] > 0
        BY <3>1, CountTellsLeaks
      <3> QED BY <3>1, <3>2, <3>3
    <2>2. CASE UNCHANGED vars
      BY <2>2 DEF vars, DropReportExact
    <2>3. CASE Next /\ ~Drop
      <3>1. ~dropped /\ dropped' = dropped
        BY <2>3 DEF Next, AllocateFromList, AllocateByCarving, AllocateFails, Deallocate,
                    Move, StrayWrite
      <3> QED BY <3>1
    <2> QED BY <2>1, <2>2, <2>3
  <1> QED BY <1>1, <1>2, Invariance, PTL DEF Spec

(* Each step of the slab is a step of the pool or leaves the pool alone. *)
LEMMA StepRefines == IndInv /\ [Next]_vars => [Pool!Next]_held
  <1> SUFFICES ASSUME IndInv, [Next]_vars PROVE [Pool!Next]_held
    OBVIOUS
  <1>0. /\ held \in [Slots -> Nat] /\ slab \in SlabType
        /\ TypeOK /\ ListShape /\ Ownership
    BY DEF IndInv, TypeOK
  <1>a. ASSUME NEW s \in Slots, held[s] = 0, held' = [held EXCEPT ![s] = @ + 1]
        PROVE  Pool!Next
    <2>1. held' = [held EXCEPT ![s] = 1]
      BY <1>0, <1>a
    <2>2. Pool!Grant(s)
      BY <1>a, <2>1 DEF Pool!Grant
    <2> QED BY <2>2 DEF Pool!Next
  <1>1. CASE AllocateFromList
    <2>1. HeadIntact(slab)
      BY <1>1 DEF AllocateFromList
    <2>2. Allocate(slab, TRUE).slot = slab.free_head - 1
      BY <2>1 DEF Allocate, Result
    <2>3. slab.free_head - 1 \in Slots /\ rank[slab.free_head - 1] > 0
      BY <1>0, <2>1, FollowedHeadIsIntact
    <2>4. held[slab.free_head - 1] = 0
      BY <1>0, <2>3 DEF Ownership
    <2> QED BY <1>1, <1>a, <2>2, <2>3, <2>4 DEF AllocateFromList
  <1>2. CASE AllocateByCarving
    <2>1. ~HeadIntact(slab) /\ slab.next_uncarved < Capacity
      BY <1>2 DEF AllocateByCarving
    <2>2. Allocate(slab, TRUE).slot = slab.next_uncarved
      BY <2>1 DEF Allocate, Result
    <2>3. slab.next_uncarved \in Slots /\ slab.next_uncarved \in Nat
      BY <1>0, <2>1, SlabFields, SlotRange
    <2>4. held[slab.next_uncarved] = 0
      BY <1>0, <2>3 DEF Ownership
    <2> QED BY <1>2, <1>a, <2>2, <2>3, <2>4 DEF AllocateByCarving
  <1>3. CASE \E s \in Slots : Deallocate(s)
    <2>1. PICK s \in Slots : Deallocate(s)
      BY <1>3
    <2>2. held[s] = 1 /\ held' = [held EXCEPT ![s] = @ - 1]
      BY <1>0, <2>1 DEF Deallocate, Ownership
    <2>3. held' = [held EXCEPT ![s] = 0]
      BY <1>0, <2>2
    <2>4. Pool!Release(s)
      BY <2>2, <2>3 DEF Pool!Release
    <2> QED BY <2>4 DEF Pool!Next
  <1>4. CASE UNCHANGED held
    BY <1>4
  <1> QED BY <1>1, <1>2, <1>3, <1>4
          DEF Next, AllocateFails, Move, StrayWrite, Drop, vars

(* A slab of any size implements the pool of slots: allocate grants only   *)
(* slots nobody holds, whatever is written over the links of free slots in *)
(* a way the MAC or the range check can tell.                              *)
THEOREM SlabImplementsSlotPool == Spec => ImplementsSlotPool
  <1>1. Init => Pool!Init
    BY DEF Init, Pool!Init
  <1> QED BY <1>1, StepRefines, Invariance, PTL DEF Spec, ImplementsSlotPool, Pool!Spec
=============================================================================
