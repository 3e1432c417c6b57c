---------------------------- MODULE LayoutProofs ----------------------------
(***************************************************************************)
(* Proofs about the two layouts one thread owns with their region, for     *)
(* every value of the constants.                                           *)
(*                                                                         *)
(* GenerationalSlab, for every capacity and every width of the generation, *)
(* whatever handles callers pass to remove: a handle of a slot that no     *)
(* remove revived after its retirement reaches the value it was issued for *)
(* and no other; drop disposes of exactly the values in the slab; and while*)
(* no slot was put on the free list twice, every slot is occupied, retired *)
(* or reached from the head of that list.                                  *)
(*                                                                         *)
(* ArenaPool, for every stack of backings and every way the system calls   *)
(* fail: each arena keeps its mappings to itself and in order, so that the *)
(* blocks in use stay usable; the pool and the mappings account for each   *)
(* other; and every failure is explained by a call or by the request.      *)
(***************************************************************************)
EXTENDS GenerationalSlab, ArenaPool, FiniteSetTheorems, SequenceTheorems, WellFoundedInduction,
        TLAPS

(***************************************************************************)
(* GenerationalSlab.                                                       *)
(***************************************************************************)

(* Advancing a generation adds one or comes round to zero. *)
LEMMA WrapProps ==
  ASSUME NEW g \in 0 .. (Modulus - 1)
  PROVE  /\ WrappingInc(g) \in 0 .. (Modulus - 1)
         /\ WrappingInc(g) = 0 \/ WrappingInc(g) = g + 1
  <1>1. Modulus \in Nat \ {0}
    BY GenerationalAssumption
  <1>2. CASE g + 1 < Modulus
    BY <1>1, <1>2 DEF WrappingInc
  <1>3. CASE g + 1 = Modulus
    BY <1>1, <1>3 DEF WrappingInc
  <1> QED BY <1>1, <1>2, <1>3

LEMMA SlotFacts ==
  /\ \A i \in Slots : i \in Nat /\ i < Capacity /\ i # None
  /\ None \notin Nat
  /\ Capacity \in Nat /\ MaxInserts \in Nat
BY GenerationalAssumption DEF Slots, None

LEMMA HandleFields ==
  ASSUME NEW h \in Handle
  PROVE  h.index \in Slots /\ h.generation \in 0 .. (Modulus - 1)
         /\ h.value \in 1 .. MaxInserts
BY DEF Handle

LEMMA InitInv == Init => IndInv
  <1> SUFFICES ASSUME Init PROVE IndInv
    OBVIOUS
  <1>1. TypeOK
    <2>1. 0 \in 0 .. (Modulus - 1) /\ 0 \in 0 .. Capacity /\ 0 \in 0 .. MaxInserts
      BY GenerationalAssumption
    <2> QED BY <2>1 DEF Init, TypeOK
  <1>2. ListShape /\ HandleAge /\ LiveShape /\ RetiredStaysRetired /\ DropExact
    BY SlotFacts DEF Init, ListShape, Listed, Clean, HandleAge, LiveShape,
                     RetiredStaysRetired, DropExact
  <1> QED BY <1>1, <1>2 DEF IndInv

-----------------------------------------------------------------------------
(* What occupying an empty slot does to handles and values: the same for a *)
(* reused and for a fresh slot.                                            *)
LEMMA OccupyInv ==
  ASSUME TypeOK, HandleAge, LiveShape, NEW i \in Slots, Occupy(i), state[i] = None,
         i < len', len <= len', len' \in 0 .. Capacity
  PROVE  HandleAge' /\ LiveShape'
  <1> DEFINE v == inserts + 1
             new == [index |-> i, generation |-> generation[i], value |-> v]
  <1>1. /\ inserts' = v /\ state' = [state EXCEPT ![i] = v]
        /\ issued' = issued \cup {new} /\ live' = live \cup {v}
        /\ UNCHANGED <<generation, next_free, retired, revived>> /\ inserts < MaxInserts
    BY DEF Occupy
  <1>2. /\ inserts \in Nat /\ len \in Nat /\ len' \in Nat /\ v \in 1 .. MaxInserts
        /\ issued \subseteq Handle /\ live \subseteq 1 .. MaxInserts
        /\ state \in [Slots -> 1 .. MaxInserts \cup {None}]
        /\ generation \in [Slots -> 0 .. (Modulus - 1)]
    BY <1>1, SlotFacts DEF TypeOK
  <1>3. new \in Handle /\ new.index = i /\ new.generation = generation[i] /\ new.value = v
    BY <1>2 DEF Handle
  <1>4. state'[i] = v /\ \A j \in Slots \ {i} : state'[j] = state[j]
    BY <1>1, <1>2
  <1>5. \A h \in issued : /\ h.index \in Slots /\ h.value \in Nat /\ h.value # v
                          /\ h.value <= inserts /\ h.generation \in Int
                          /\ h.value # None
    BY <1>2, HandleFields, SlotFacts DEF HandleAge
  <1>6. \A h \in issued : h.index = i /\ h.index \notin retired \cup revived
                           => h.generation # generation[i]
    BY <1>5 DEF HandleAge
  <1> HIDE DEF new, v
  <1>7. HandleAge'
    <2> SUFFICES ASSUME NEW h \in issued'
                 PROVE  /\ h.value <= inserts'
                        /\ h.index < len'
                        /\ h.index \notin retired' \cup revived' =>
                             /\ h.generation <= generation'[h.index]
                             /\ h.generation = generation'[h.index]
                                  => state'[h.index] = h.value
      BY DEF HandleAge
    <2>1. CASE h \in issued
      <3>1. /\ h.value <= inserts /\ h.index < len /\ h.index \in Slots /\ h.value \in Nat
            /\ h.index \notin retired \cup revived =>
                 /\ h.generation <= generation[h.index]
                 /\ h.generation = generation[h.index] => state[h.index] = h.value
        BY <1>5, <2>1 DEF HandleAge
      <3>2. h.value <= inserts' /\ h.index < len'
        BY <1>1, <1>2, <3>1, SlotFacts DEF v
      <3>3. h.index = i /\ h.index \notin retired \cup revived
              => h.generation # generation[h.index]
        BY <1>6, <2>1
      <3> QED BY <1>1, <1>4, <3>1, <3>2, <3>3
    <2>2. CASE h = new
      BY <1>1, <1>2, <1>3, <1>4, <2>2
    <2> QED BY <1>1, <2>1, <2>2
  <1>8. LiveShape'
    <2>1. \A h, k \in issued' : h.value = k.value => h = k
      BY <1>1, <1>3, <1>5 DEF LiveShape
    <2>2. \A w \in live' : \E h \in issued' : h.value = w
      BY <1>1, <1>3 DEF LiveShape
    <2>3. ASSUME NEW h \in issued', h.value \in live'
          PROVE  /\ state'[h.index] = h.value
                 /\ h.index \notin revived' => h.generation = generation'[h.index]
      <3>1. CASE h \in issued
        <4>1. h.value \in live
          BY <1>1, <1>5, <2>3, <3>1
        <4>2. /\ h.index \in Slots /\ state[h.index] = h.value /\ h.value # None
              /\ h.index \notin revived => h.generation = generation[h.index]
          BY <1>5, <3>1, <4>1 DEF LiveShape
        <4>3. h.index # i
          BY <4>2
        <4> QED BY <1>1, <1>4, <4>2, <4>3
      <3>2. CASE h = new
        BY <1>1, <1>3, <1>4, <3>2
      <3> QED BY <1>1, <3>1, <3>2
    <2>4. \A j \in Slots : state'[j] # None => state'[j] \in live'
      BY <1>1, <1>4 DEF LiveShape
    <2>5. ASSUME NEW j \in Slots, j >= len'
          PROVE  state'[j] = None /\ next_free'[j] = None /\ j \notin retired' \cup revived'
      <3>1. j # i /\ j >= len
        BY <1>2, <2>5, SlotFacts
      <3> QED BY <1>1, <1>4, <3>1 DEF LiveShape
    <2>6. \A j \in Slots : state[j] # v
      <3> SUFFICES ASSUME NEW j \in Slots, state[j] # None PROVE state[j] # v
        BY <1>2, SlotFacts
      <3>1. PICK h \in issued : h.value = state[j]
        BY DEF LiveShape
      <3> QED BY <1>5, <3>1
    <2>7. \A j, k \in Slots : state'[j] # None /\ state'[j] = state'[k] => j = k
      BY <1>4, <2>6 DEF LiveShape
    <2> QED BY <2>1, <2>2, <2>3, <2>4, <2>5, <2>7 DEF LiveShape
  <1> QED BY <1>7, <1>8

(* insert from the free list. *)
LEMMA InsertReusedInv ==
  ASSUME IndInv, InsertReused
  PROVE  IndInv'
  <1> DEFINE i == free_head
             n == next_free[free_head]
  <1>0. /\ ~over /\ TypeOK /\ ListShape /\ HandleAge /\ LiveShape
        /\ RetiredStaysRetired
    BY DEF IndInv, InsertReused
  <1>1. /\ i # None /\ state[i] = None /\ free_head' = n /\ len' = len
        /\ Occupy(i)
    BY DEF InsertReused
  <1>2. /\ i \in Slots /\ i < len /\ len \in 0 .. Capacity /\ len \in Nat
        /\ Clean(i) => Listed(i)
    BY <1>0, <1>1, SlotFacts DEF TypeOK, ListShape
  <1>3. HandleAge' /\ LiveShape'
    BY <1>0, <1>1, <1>2, OccupyInv
  <1>4. /\ inserts' = inserts + 1 /\ inserts < MaxInserts
        /\ state' = [state EXCEPT ![i] = inserts']
        /\ issued' = issued \cup
             {[index |-> i, generation |-> generation[i], value |-> inserts']}
        /\ live' = live \cup {inserts'}
        /\ UNCHANGED <<generation, next_free, retired, revived, relinked, over, dropped>>
    BY <1>1 DEF Occupy
  <1>5. inserts' \in 1 .. MaxInserts
    BY <1>0, <1>4, SlotFacts DEF TypeOK
  <1>6. TypeOK'
    <2>1. [index |-> i, generation |-> generation[i], value |-> inserts'] \in Handle
      BY <1>0, <1>2, <1>5 DEF Handle, TypeOK
    <2>2. inserts' \in 0 .. MaxInserts /\ free_head' \in Slots \cup {None}
      BY <1>0, <1>1, <1>2, <1>5, SlotFacts DEF TypeOK
    <2>3. state' \in [Slots -> 1 .. MaxInserts \cup {None}]
      BY <1>0, <1>4, <1>5 DEF TypeOK
    <2> QED BY <1>0, <1>1, <1>4, <1>5, <2>1, <2>2, <2>3 DEF TypeOK
  <1>7. /\ state'[i] # None
        /\ \A j \in Slots \ {i} : state'[j] = state[j]
    BY <1>0, <1>2, <1>4, <1>5, SlotFacts DEF TypeOK, None
  <1>8. /\ \A j \in Slots : next_free[j] \in Slots \cup {None}
        /\ \A j \in Slots : Clean(j)' <=> Clean(j)
        /\ \A j \in Slots : j # i => (Listed(j)' <=> Listed(j))
    BY <1>0, <1>1, <1>4, <1>7 DEF TypeOK, Clean, Listed
  <1>9. /\ n # None => n \in Slots /\ n < len
        /\ n # None /\ Clean(n) => Listed(n) /\ n # i
    BY <1>0, <1>1, <1>2, <1>8 DEF ListShape
  <1>10. ListShape'
    <2>1. free_head' # None => free_head' < len' /\ (Clean(free_head)' => Listed(free_head)')
      <3> SUFFICES ASSUME free_head' # None
                   PROVE  free_head' < len' /\ (Clean(free_head)' => Listed(free_head)')
        OBVIOUS
      <3>1. PICK t \in Slots : t = n /\ t = free_head'
        BY <1>1, <1>9
      <3>2. t < len /\ (Clean(t) => Listed(t) /\ t # i)
        BY <1>1, <1>9, <3>1
      <3>3. Clean(t)' => Listed(t)'
        BY <1>8, <3>2
      <3> QED BY <1>1, <3>1, <3>2, <3>3 DEF Clean, Listed
    <2>2. \A j \in Slots : next_free'[j] # None => next_free'[j] < len'
      BY <1>0, <1>1, <1>4 DEF ListShape
    <2>3. ASSUME NEW j \in Slots, state'[j] = None, next_free'[j] # None, Clean(next_free[j])'
          PROVE  Listed(next_free[j])' /\ next_free'[j] # free_head'
      <3>1. PICK t \in Slots : t = next_free[j] /\ t = next_free'[j]
        BY <1>4, <1>8, <2>3
      <3>2. j # i /\ state[j] = None /\ t # None
        BY <1>7, <2>3, <3>1
      <3>3. Clean(t)
        BY <1>8, <2>3, <3>1 DEF Clean
      <3>4. Listed(t) /\ t # i
        BY <1>0, <3>1, <3>2, <3>3 DEF ListShape
      <3>5. t # n
        BY <1>0, <1>1, <1>2, <3>1, <3>2, <3>3 DEF ListShape
      <3>6. Listed(t)'
        BY <1>8, <3>4
      <3> QED BY <1>1, <3>1, <3>5, <3>6 DEF Listed
    <2>4. ASSUME NEW j \in Slots, NEW k \in Slots, state'[j] = None, state'[k] = None,
                 next_free'[j] = next_free'[k], next_free'[j] # None, Clean(next_free[j])'
          PROVE  j = k
      <3>1. state[j] = None /\ state[k] = None
        BY <1>7, <2>4
      <3>2. Clean(next_free[j])
        BY <1>4, <2>4 DEF Clean
      <3> QED BY <1>0, <1>4, <2>4, <3>1, <3>2 DEF ListShape
    <2> QED BY <2>1, <2>2, <2>3, <2>4 DEF ListShape
  <1>11. RetiredStaysRetired'
    <2> SUFFICES ASSUME NEW j \in retired, j \notin revived
                 PROVE  free_head' # j /\ state'[j] = None
      BY <1>4 DEF RetiredStaysRetired
    <2>1. j \in Slots /\ j # i /\ state[j] = None /\ Clean(j) /\ ~Listed(j)
      BY <1>0 DEF TypeOK, RetiredStaysRetired, Clean, Listed
    <2>2. n # j
      BY <1>9, <2>1, SlotFacts
    <2> QED BY <1>1, <1>7, <2>1, <2>2
  <1>12. ~over'
    BY <1>0, <1>4
  <1> QED BY <1>3, <1>6, <1>10, <1>11, <1>12 DEF IndInv, DropExact

(* insert into the next slot never used. *)
LEMMA InsertFreshInv ==
  ASSUME IndInv, InsertFresh
  PROVE  IndInv'
  <1> DEFINE i == len
  <1>0. /\ ~over /\ TypeOK /\ ListShape /\ HandleAge /\ LiveShape
        /\ RetiredStaysRetired
    BY DEF IndInv, InsertFresh
  <1>1. /\ free_head = None /\ free_head' = None /\ len' = len + 1 /\ len < Capacity
        /\ Occupy(i)
    BY DEF InsertFresh
  <1>2. i \in Slots /\ len \in Nat /\ len' \in 0 .. Capacity /\ i < len' /\ len <= len'
    BY <1>0, <1>1, SlotFacts DEF TypeOK, Slots
  <1>3. state[i] = None /\ next_free[i] = None /\ i \notin retired \cup revived
    BY <1>0, <1>2 DEF LiveShape
  <1>4. HandleAge' /\ LiveShape'
    BY <1>0, <1>1, <1>2, <1>3, OccupyInv
  <1>5. /\ inserts' = inserts + 1 /\ inserts < MaxInserts
        /\ state' = [state EXCEPT ![i] = inserts']
        /\ issued' = issued \cup
             {[index |-> i, generation |-> generation[i], value |-> inserts']}
        /\ live' = live \cup {inserts'}
        /\ UNCHANGED <<generation, next_free, retired, revived, relinked, over, dropped>>
    BY <1>1 DEF Occupy
  <1>6. inserts' \in 1 .. MaxInserts
    BY <1>0, <1>5, SlotFacts DEF TypeOK
  <1>7. TypeOK'
    <2>1. [index |-> i, generation |-> generation[i], value |-> inserts'] \in Handle
      BY <1>0, <1>2, <1>6 DEF Handle, TypeOK
    <2>2. inserts' \in 0 .. MaxInserts
      BY <1>6, SlotFacts
    <2>3. state' \in [Slots -> 1 .. MaxInserts \cup {None}]
      BY <1>0, <1>5, <1>6 DEF TypeOK
    <2> QED BY <1>0, <1>1, <1>2, <1>5, <1>6, <2>1, <2>2, <2>3 DEF TypeOK
  <1>8. /\ state'[i] # None
        /\ \A j \in Slots \ {i} : state'[j] = state[j]
    BY <1>0, <1>2, <1>5, <1>6, SlotFacts DEF TypeOK, None
  <1>9. \A j \in Slots : Listed(j) => Listed(j)'
    <2> TAKE j \in Slots
    <2>1. j \in Nat /\ (j < len => j < len' /\ j # i)
      BY <1>1, <1>2, SlotFacts
    <2> QED BY <1>5, <1>8, <2>1 DEF Listed
  <1>10. \A j \in Slots : next_free[j] \in Slots \cup {None}
    BY <1>0 DEF TypeOK
  <1>11. ListShape'
    <2>1. ASSUME NEW j \in Slots, next_free'[j] # None PROVE next_free'[j] < len'
      <3>1. next_free'[j] \in Nat /\ next_free'[j] < len
        BY <1>0, <1>5, <1>10, <2>1, SlotFacts DEF ListShape
      <3> QED BY <1>1, <1>2, <3>1
    <2>2. ASSUME NEW j \in Slots, state'[j] = None, next_free'[j] # None, Clean(next_free[j])'
          PROVE  Listed(next_free[j])' /\ next_free'[j] # free_head'
      <3>1. PICK t \in Slots : t = next_free[j] /\ t = next_free'[j]
        BY <1>5, <1>10, <2>2
      <3>2. state[j] = None /\ t # None /\ Clean(t)
        BY <1>5, <1>8, <2>2, <3>1 DEF Clean
      <3>3. Listed(t)
        BY <1>0, <3>1, <3>2 DEF ListShape
      <3>4. Listed(t)'
        BY <1>9, <3>3
      <3> QED BY <1>1, <3>1, <3>2, <3>4 DEF Listed
    <2>3. ASSUME NEW j \in Slots, NEW k \in Slots, state'[j] = None, state'[k] = None,
                 next_free'[j] = next_free'[k], next_free'[j] # None, Clean(next_free[j])'
          PROVE  j = k
      <3>1. state[j] = None /\ state[k] = None
        BY <1>8, <2>3
      <3>2. Clean(next_free[j])
        BY <1>5, <2>3 DEF Clean
      <3> QED BY <1>0, <1>5, <2>3, <3>1, <3>2 DEF ListShape
    <2> QED BY <1>1, <2>1, <2>2, <2>3 DEF ListShape
  <1>12. RetiredStaysRetired'
    <2> SUFFICES ASSUME NEW j \in retired, j \notin revived
                 PROVE  free_head' # j /\ state'[j] = None
      BY <1>5 DEF RetiredStaysRetired
    <2>1. j \in Slots /\ j # i /\ state[j] = None
      BY <1>0, <1>3 DEF TypeOK, RetiredStaysRetired
    <2> QED BY <1>1, <1>8, <2>1, SlotFacts
  <1>13. ~over'
    BY <1>0, <1>5
  <1> QED BY <1>4, <1>7, <1>11, <1>12, <1>13 DEF IndInv, DropExact

(* remove, by any handle that has the generation of its slot.  A slot that *)
(* is removed while on the free list has been revived before, and from then*)
(* on its links are not clean.                                             *)
LEMMA RemoveInv ==
  ASSUME IndInv, NEW h \in issued, RemoveHandle(h)
  PROVE  IndInv'
  <1> DEFINE i == h.index
             g == WrappingInc(generation[i])
  <1>0. /\ ~over /\ TypeOK /\ ListShape /\ HandleAge /\ LiveShape
        /\ RetiredStaysRetired
    BY DEF IndInv, RemoveHandle
  <1>1. /\ generation[i] = h.generation
        /\ generation' = [generation EXCEPT ![i] = g]
        /\ Unlink(h) /\ Recorded(i)
        /\ state' = [state EXCEPT ![i] = None]
        /\ UNCHANGED <<len, inserts, issued, over, dropped>>
    BY DEF RemoveHandle, Accepts, NextGeneration
  <1>2. /\ i \in Slots /\ issued \subseteq Handle /\ len \in 0 .. Capacity
        /\ generation \in [Slots -> 0 .. (Modulus - 1)]
        /\ state \in [Slots -> 1 .. MaxInserts \cup {None}]
        /\ next_free \in [Slots -> Slots \cup {None}]
        /\ free_head \in Slots \cup {None}
        /\ retired \subseteq Slots /\ revived \subseteq Slots /\ relinked \subseteq Slots
    BY <1>0, HandleFields DEF TypeOK
  <1>3. g \in 0 .. (Modulus - 1) /\ (g = 0 \/ g = generation[i] + 1)
        /\ generation[i] \in Nat
    BY <1>2, WrapProps
  <1>4. i < len /\ h.value # None
    BY <1>0, <1>2, HandleFields DEF HandleAge, None
  <1> HIDE DEF g
  <1>5. /\ state'[i] = None /\ generation'[i] = g
        /\ \A j \in Slots \ {i} : state'[j] = state[j] /\ generation'[j] = generation[j]
    BY <1>1, <1>2
  <1>6. \/ /\ g = 0
           /\ next_free' = [next_free EXCEPT ![i] = None]
           /\ free_head' = free_head
           /\ retired' = retired \cup {i} /\ revived' = revived
        \/ /\ g = generation[i] + 1
           /\ next_free' = [next_free EXCEPT ![i] = free_head]
           /\ free_head' = i
           /\ retired' = retired \ {i} /\ revived' = revived \cup (retired \cap {i})
    BY <1>1, <1>3 DEF Unlink, Recorded, g
  <1>7. /\ live' = live \ {state[i]}
        /\ relinked' = IF Listed(i) THEN relinked \cup {i} ELSE relinked
    BY <1>1 DEF Recorded
  <1>8. TypeOK'
    <2>1. /\ free_head' \in Slots \cup {None} /\ next_free' \in [Slots -> Slots \cup {None}]
          /\ retired' \subseteq Slots /\ revived' \subseteq Slots /\ relinked' \subseteq Slots
      BY <1>2, <1>6, <1>7
    <2>2. /\ generation' \in [Slots -> 0 .. (Modulus - 1)]
          /\ state' \in [Slots -> 1 .. MaxInserts \cup {None}]
          /\ live' \subseteq 1 .. MaxInserts
      BY <1>0, <1>1, <1>2, <1>3, <1>7 DEF TypeOK
    <2> QED BY <1>0, <1>1, <2>1, <2>2 DEF TypeOK
  <1>9. Listed(i) => i \in revived /\ relinked' # {}
    <2>1. Listed(i) /\ i \notin revived => state[i] = h.value
      BY <1>0, <1>1 DEF Listed, HandleAge
    <2> QED BY <1>4, <1>7, <2>1 DEF Listed
  <1>10. \A j \in Slots : Clean(j)' => Clean(j) /\ (Listed(j) => j # i)
    BY <1>6, <1>7, <1>9 DEF Clean
  <1>11. \A j \in Slots \ {i} : Listed(j)' <=> Listed(j)
    BY <1>1, <1>5, <1>6 DEF Listed
  <1>12. /\ revived \subseteq revived'
         /\ \A j \in Slots \ {i} : (j \in retired' <=> j \in retired)
                                 /\ (j \in revived' <=> j \in revived)
    BY <1>6
  <1>13. /\ \A j \in Slots \ {i} : next_free'[j] = next_free[j]
         /\ next_free'[i] = IF g = 0 THEN None ELSE free_head
    BY <1>2, <1>3, <1>6
  (* A clean slot that was the head, or that a free slot is linked to. *)
  <1>14. ASSUME NEW j \in Slots, Clean(j)', Listed(j) PROVE Listed(j)' /\ j # i
    BY <1>10, <1>11, <1>14
  <1>15. ASSUME NEW j \in Slots \ {i}, state'[j] = None, next_free'[j] # None,
                Clean(next_free[j])'
         PROVE  /\ next_free'[j] \in Slots /\ next_free'[j] = next_free[j]
                /\ state[j] = None /\ Clean(next_free[j])
                /\ Listed(next_free[j]) /\ Listed(next_free[j])'
                /\ next_free[j] # i /\ next_free[j] # free_head
    <2>1. PICK t \in Slots : t = next_free[j] /\ t = next_free'[j]
      BY <1>2, <1>13, <1>15
    <2>2. Clean(t)' /\ state[j] = None /\ t # None
      BY <1>5, <1>15, <2>1 DEF Clean
    <2>3. Clean(t)
      BY <1>10, <2>2
    <2>4. Listed(t) /\ t # free_head
      BY <1>0, <2>1, <2>2, <2>3 DEF ListShape
    <2>5. Listed(t)' /\ t # i
      BY <1>14, <2>2, <2>4
    <2> QED BY <2>1, <2>2, <2>3, <2>4, <2>5 DEF Listed
  <1>16. ListShape'
    <2>1. ASSUME NEW j \in Slots, next_free'[j] # None PROVE next_free'[j] < len'
      BY <1>0, <1>1, <1>13, <2>1 DEF ListShape
    <2>2. CASE g = 0
      <3>1. free_head' = free_head /\ next_free'[i] = None
        BY <1>3, <1>6, <1>13, <2>2
      <3>2. ASSUME free_head' # None
            PROVE  free_head' < len' /\ (Clean(free_head)' => Listed(free_head)')
        <4>1. PICK t \in Slots : t = free_head /\ t = free_head' /\ t # None
          BY <1>2, <3>1, <3>2
        <4>2. t < len /\ (Clean(t) => Listed(t))
          BY <1>0, <4>1 DEF ListShape
        <4>3. Clean(t)' => Listed(t)'
          BY <1>10, <1>14, <4>2
        <4> QED BY <1>1, <4>1, <4>2, <4>3 DEF Clean, Listed
      <3>3. ASSUME NEW j \in Slots, state'[j] = None, next_free'[j] # None,
                   Clean(next_free[j])'
            PROVE  Listed(next_free[j])' /\ next_free'[j] # free_head'
        <4>1. j # i
          BY <3>1, <3>3
        <4> QED BY <1>15, <3>1, <3>3, <4>1
      <3>4. ASSUME NEW j \in Slots, NEW k \in Slots, state'[j] = None, state'[k] = None,
                   next_free'[j] = next_free'[k], next_free'[j] # None, Clean(next_free[j])'
            PROVE  j = k
        <4>1. j # i /\ k # i /\ Clean(next_free[k])'
          BY <3>1, <3>4 DEF Clean
        <4>2. /\ state[j] = None /\ state[k] = None /\ next_free[j] = next_free[k]
              /\ next_free[j] # None /\ Clean(next_free[j])
          BY <1>15, <3>4, <4>1
        <4> QED BY <1>0, <4>2 DEF ListShape
      <3> QED BY <2>1, <3>2, <3>3, <3>4 DEF ListShape
    <2>3. CASE g # 0
      <3>1. /\ free_head' = i /\ next_free'[i] = free_head
            /\ i \notin retired'
        BY <1>6, <1>13, <2>3
      <3>2. free_head' < len' /\ Listed(free_head)'
        BY <1>1, <1>4, <1>5, <3>1 DEF Listed
      <3>3. ASSUME next_free'[i] # None, Clean(next_free[i])'
            PROVE  /\ Listed(next_free[i])' /\ next_free'[i] # i
                   /\ Clean(free_head)
        <4>1. PICK t \in Slots : t = free_head /\ t = next_free'[i] /\ t # None
          BY <1>2, <3>1, <3>3
        <4>2. Clean(t)'
          BY <3>3, <4>1 DEF Clean
        <4>3. Clean(t)
          BY <1>10, <4>2
        <4>4. Listed(t)
          BY <1>0, <4>1, <4>3 DEF ListShape
        <4>5. Listed(t)' /\ t # i
          BY <1>14, <4>2, <4>4
        <4> QED BY <4>1, <4>3, <4>5 DEF Listed
      <3>4. ASSUME NEW j \in Slots, state'[j] = None, next_free'[j] # None,
                   Clean(next_free[j])'
            PROVE  Listed(next_free[j])' /\ next_free'[j] # free_head'
        <4>1. CASE j = i
          BY <3>1, <3>3, <3>4, <4>1
        <4>2. CASE j # i
          BY <1>15, <3>1, <3>4, <4>2
        <4> QED BY <4>1, <4>2
      <3>5. ASSUME NEW j \in Slots, NEW k \in Slots, state'[j] = None, state'[k] = None,
                   next_free'[j] = next_free'[k], next_free'[j] # None, Clean(next_free[j])'
            PROVE  j = k
        <4>1. Clean(next_free[k])' /\ next_free'[k] # None
          BY <3>5 DEF Clean
        <4>2. CASE j # i /\ k # i
          <5>1. /\ state[j] = None /\ state[k] = None /\ next_free[j] = next_free[k]
                /\ next_free[j] # None /\ Clean(next_free[j])
            BY <1>15, <3>5, <4>1, <4>2
          <5> QED BY <1>0, <5>1 DEF ListShape
        <4>3. CASE j = i /\ k # i
          <5>1. next_free'[k] # free_head
            BY <1>15, <3>5, <4>1, <4>3
          <5> QED BY <3>1, <3>5, <4>3, <5>1
        <4>4. CASE j # i /\ k = i
          <5>1. next_free'[j] # free_head
            BY <1>15, <3>5, <4>4
          <5> QED BY <3>1, <3>5, <4>4, <5>1
        <4> QED BY <4>2, <4>3, <4>4
      <3> QED BY <2>1, <3>2, <3>4, <3>5 DEF ListShape
    <2> QED BY <2>2, <2>3
  <1>17. HandleAge'
    <2> SUFFICES ASSUME NEW k \in issued
                 PROVE  /\ k.value <= inserts'
                        /\ k.index < len'
                        /\ k.index \notin retired' \cup revived' =>
                             /\ k.generation <= generation'[k.index]
                             /\ k.generation = generation'[k.index]
                                  => state'[k.index] = k.value
      BY <1>1 DEF HandleAge
    <2>1. k.value <= inserts' /\ k.index < len' /\ k.index \in Slots /\ k.generation \in Nat
      BY <1>0, <1>1, <1>2, HandleFields DEF HandleAge
    <2>2. CASE k.index # i
      <3>1. k.index \notin retired' \cup revived' => k.index \notin retired \cup revived
        BY <1>12, <2>1, <2>2
      <3> QED BY <1>0, <1>5, <2>1, <2>2, <3>1 DEF HandleAge
    <2>3. CASE k.index = i
      <3> SUFFICES ASSUME i \notin retired' \cup revived'
                   PROVE  k.generation < generation'[i]
        BY <1>2, <1>3, <1>5, <2>1, <2>3
      <3>1. g = generation[i] + 1 /\ i \notin retired \cup revived
        BY <1>6
      <3>2. k.generation <= generation[i]
        BY <1>0, <2>3, <3>1 DEF HandleAge
      <3> QED BY <1>3, <1>5, <2>1, <3>1, <3>2
    <2> QED BY <2>2, <2>3
  <1>18. LiveShape'
    <2>1. \A w \in live' : \E k \in issued' : k.value = w
      BY <1>0, <1>1, <1>7 DEF LiveShape
    <2>2. ASSUME NEW k \in issued, k.value \in live'
          PROVE  /\ state'[k.index] = k.value
                 /\ k.index \notin revived' => k.generation = generation'[k.index]
      <3>1. k.value \in live /\ k.value # state[i]
        BY <1>7, <2>2
      <3>2. /\ k.index \in Slots /\ state[k.index] = k.value
            /\ k.index \notin revived => k.generation = generation[k.index]
        BY <1>0, <1>2, <3>1, HandleFields DEF LiveShape
      <3>3. k.index # i
        BY <3>1, <3>2
      <3> QED BY <1>5, <1>12, <3>2, <3>3
    <2>3. ASSUME NEW j \in Slots, state'[j] # None
          PROVE  state'[j] \in live'
      <3>1. j # i /\ state'[j] = state[j]
        BY <1>5, <2>3
      <3>2. state[j] \in live /\ state[j] # state[i]
        BY <1>0, <1>2, <2>3, <3>1 DEF LiveShape
      <3> QED BY <1>7, <3>1, <3>2
    <2>4. ASSUME NEW j \in Slots, j >= len'
          PROVE  state'[j] = None /\ next_free'[j] = None /\ j \notin retired' \cup revived'
      <3>1. j # i
        BY <1>1, <1>2, <1>4, <2>4, SlotFacts
      <3> QED BY <1>0, <1>1, <1>5, <1>12, <1>13, <2>4, <3>1 DEF LiveShape
    <2>5. \A j, k \in Slots : state'[j] # None /\ state'[j] = state'[k] => j = k
      BY <1>0, <1>5 DEF LiveShape
    <2> QED BY <1>0, <1>1, <2>1, <2>2, <2>3, <2>4, <2>5 DEF LiveShape
  <1>19. RetiredStaysRetired'
    <2> SUFFICES ASSUME NEW j \in retired', j \notin revived'
                 PROVE  free_head' # j /\ state'[j] = None
      BY DEF RetiredStaysRetired
    <2>1. CASE j = i
      <3>1. g = 0 /\ free_head' = free_head /\ i \notin revived
        BY <1>6, <2>1
      <3>2. ~Listed(i) /\ Clean(i)
        BY <1>9, <3>1 DEF Clean
      <3>3. free_head # i
        BY <1>0, <1>2, <3>2, SlotFacts DEF ListShape
      <3> QED BY <1>5, <2>1, <3>1, <3>3
    <2>2. CASE j # i
      <3>1. j \in Slots
        BY <1>8 DEF TypeOK
      <3>2. j \in retired /\ j \notin revived
        BY <1>12, <2>2, <3>1
      <3>3. free_head # j /\ state[j] = None
        BY <1>0, <3>2 DEF RetiredStaysRetired
      <3> QED BY <1>5, <1>6, <2>2, <3>1, <3>3
    <2> QED BY <2>1, <2>2
  <1>20. ~over'
    BY <1>0, <1>1
  <1> QED BY <1>8, <1>16, <1>17, <1>18, <1>19, <1>20 DEF IndInv, DropExact

(* GenerationalSlab::drop. *)
LEMMA DropInv ==
  ASSUME IndInv, Drop
  PROVE  IndInv'
  <1>0. ~over /\ TypeOK /\ LiveShape /\ RetiredStaysRetired
    BY DEF IndInv, Drop
  <1>1. /\ over' = TRUE
        /\ dropped' = {state[i] : i \in {j \in Slots : state[j] # None}}
        /\ state' = [i \in Slots |-> None]
        /\ next_free' = [i \in Slots |-> IF state[i] = None THEN next_free[i] ELSE None]
        /\ UNCHANGED <<generation, free_head, len, inserts, issued, live, retired, revived,
                        relinked>>
    BY DEF Drop, history
  <1>2. dropped' = live
    <2>1. ASSUME NEW v \in live PROVE v \in dropped'
      <3>1. PICK h \in issued : h.value = v
        BY <1>0 DEF LiveShape
      <3>2. h.index \in Slots /\ state[h.index] = v /\ v # None
        BY <1>0, <3>1, HandleFields, SlotFacts DEF LiveShape, TypeOK, None
      <3> QED BY <1>1, <3>2
    <2>2. ASSUME NEW v \in dropped' PROVE v \in live
      BY <1>0, <1>1, <2>2 DEF LiveShape
    <2> QED BY <2>1, <2>2
  <1>3. TypeOK'
    <2>1. state' \in [Slots -> 1 .. MaxInserts \cup {None}]
      BY <1>1
    <2>2. next_free' \in [Slots -> Slots \cup {None}]
      BY <1>0, <1>1 DEF TypeOK
    <2> QED BY <1>0, <1>1, <1>2, <2>1, <2>2 DEF TypeOK
  <1>4. RetiredStaysRetired'
    BY <1>0, <1>1 DEF RetiredStaysRetired, TypeOK
  <1>5. DropExact'
    BY <1>1, <1>2 DEF DropExact
  <1> QED BY <1>1, <1>3, <1>4, <1>5 DEF IndInv

LEMMA StutterInv ==
  ASSUME IndInv, UNCHANGED vars
  PROVE  IndInv'
  BY DEF IndInv, TypeOK, ListShape, Listed, Clean, HandleAge, LiveShape,
         RetiredStaysRetired, DropExact, vars, history

-----------------------------------------------------------------------------
(* The inductive invariant holds throughout, whatever handles callers pass *)
(* to remove.                                                              *)
THEOREM GenerationalInvariant == Spec => []IndInv
  <1>1. Init => IndInv
    BY InitInv
  <1>2. IndInv /\ [Next]_vars => IndInv'
    BY InsertReusedInv, InsertFreshInv, RemoveInv, DropInv, StutterInv DEF Next
  <1> QED BY <1>1, <1>2, PTL DEF Spec

(* Heads, links and generations stay in range; so does len. *)
THEOREM GenerationalTypeCorrect == Spec => []TypeOK
  <1>1. IndInv => TypeOK
    BY DEF IndInv
  <1> QED BY <1>1, GenerationalInvariant, PTL

(* A handle reaches its value while it is in the slab and nothing after,   *)
(* whatever the capacity, the width of the generation and the history of   *)
(* inserts and removes; all but the handles of a slot that was retired and *)
(* removed again (get, get_mut and contains).                              *)
THEOREM HandlesAreExact == Spec => []GetExact
  <1>1. IndInv => GetExact
    <2> SUFFICES ASSUME IndInv, ~over, NEW h \in issued, h.index \notin revived
                 PROVE  Get(h) = IF h.value \in live THEN h.value ELSE None
      BY DEF GetExact
    <2>1. TypeOK /\ HandleAge /\ LiveShape /\ RetiredStaysRetired
      BY DEF IndInv
    <2>2. h.index \in Slots /\ h.value # None
      BY <2>1, HandleFields, SlotFacts DEF TypeOK, None
    <2>3. CASE h.value \in live
      BY <2>1, <2>3 DEF Get, LiveShape
    <2>4. CASE h.value \notin live /\ h.index \in retired
      BY <2>1, <2>4 DEF Get, RetiredStaysRetired
    <2>5. CASE h.value \notin live /\ h.index \notin retired
      <3>1. h.generation = generation[h.index] => state[h.index] = h.value
        BY <2>1, <2>5 DEF HandleAge
      <3>2. h.generation # generation[h.index]
        BY <2>1, <2>2, <2>5, <3>1 DEF LiveShape
      <3> QED BY <2>5, <3>2 DEF Get
    <2> QED BY <2>3, <2>4, <2>5
  <1> QED BY <1>1, GenerationalInvariant, PTL

(* A slot whose generation came round to zero is not on the free list and  *)
(* holds no value, until a stale handle of that slot itself is removed.    *)
THEOREM RetirementIsFinal == Spec => []RetiredStaysRetired
  <1>1. IndInv => RetiredStaysRetired
    BY DEF IndInv
  <1> QED BY <1>1, GenerationalInvariant, PTL

(* drop disposes of exactly the values in the slab. *)
THEOREM DropIsExact == Spec => []DropExact
  <1>1. IndInv => DropExact
    BY DEF IndInv
  <1> QED BY <1>1, GenerationalInvariant, PTL

-----------------------------------------------------------------------------
(* No slot is lost while none is put on the free list twice: every link is *)
(* then clean.  The links of ListShape could still close a circle          *)
(* away from the head: that every listed slot is reached from the head     *)
(* needs a place for each, counted from the end of the list.               *)

Placed(place) ==
  /\ \A i \in Slots : place[i] > 0 <=> Listed(i)
  /\ \A i, j \in Slots : place[i] > 0 /\ place[i] = place[j] => i = j
  /\ IF free_head = None THEN \A i \in Slots : place[i] = 0
                         ELSE \A i \in Slots : place[i] <= place[free_head]
  /\ \A i \in Slots : place[i] > 0 =>
       IF next_free[i] = None THEN place[i] = 1 ELSE place[next_free[i]] = place[i] - 1

Reached == ~over /\ relinked = {} => \E place \in [Slots -> Nat] : Placed(place)

LEMMA InitReached == Init => Reached
  <1> SUFFICES ASSUME Init PROVE Reached
    OBVIOUS
  <1> DEFINE p == [i \in Slots |-> 0]
  <1>1. p \in [Slots -> Nat] /\ \A i \in Slots : p[i] = 0
    OBVIOUS
  <1>2. \A i \in Slots : ~Listed(i)
    BY SlotFacts DEF Init, Listed
  <1>3. free_head = None
    BY DEF Init
  <1> HIDE DEF p
  <1>4. Placed(p)
    BY <1>1, <1>2, <1>3 DEF Placed
  <1> QED BY <1>1, <1>4 DEF Reached

(* The links of ListShape where every slot is clean. *)
LEMMA CleanLinks ==
  ASSUME TypeOK, ListShape, relinked = {}
  PROVE  /\ free_head # None => free_head \in Slots /\ Listed(free_head)
         /\ \A j \in Slots : Listed(j) /\ next_free[j] # None =>
              next_free[j] \in Slots /\ Listed(next_free[j]) /\ next_free[j] # free_head
BY DEF TypeOK, ListShape, Listed, Clean

(* insert takes the slot with the highest place. *)
LEMMA InsertReusedReached ==
  ASSUME IndInv, Reached, InsertReused
  PROVE  Reached'
  <1> SUFFICES ASSUME relinked' = {} PROVE Reached'
    BY DEF Reached
  <1> DEFINE h == free_head
             n == next_free[h]
  <1>0. ~over /\ TypeOK /\ ListShape /\ relinked = {}
    BY DEF IndInv, InsertReused, Occupy
  <1>1. PICK p \in [Slots -> Nat] : Placed(p)
    BY <1>0 DEF Reached
  <1>2. /\ h # None /\ free_head' = n /\ len' = len /\ inserts' \in Nat
        /\ state' = [state EXCEPT ![h] = inserts']
        /\ UNCHANGED <<next_free, retired>>
    BY <1>0, SlotFacts DEF InsertReused, Occupy, TypeOK
  <1>3. /\ h \in Slots /\ Listed(h) /\ next_free \in [Slots -> Slots \cup {None}]
        /\ state \in [Slots -> 1 .. MaxInserts \cup {None}]
        /\ n # None => n \in Slots /\ Listed(n) /\ n # h
        /\ \A j \in Slots : Listed(j) /\ next_free[j] # None =>
                             next_free[j] \in Slots /\ next_free[j] # h
    BY <1>0, <1>2, CleanLinks DEF TypeOK
  <1>4. \A j \in Slots : Listed(j)' <=> Listed(j) /\ j # h
    BY <1>2, <1>3, SlotFacts DEF Listed
  <1>5. PICK q \in [Slots -> Nat] : q[h] = 0 /\ \A j \in Slots \ {h} : q[j] = p[j]
    <2>1. [p EXCEPT ![h] = 0] \in [Slots -> Nat]
      BY <1>3
    <2> QED BY <1>3, <2>1
  <1>6. p[h] > 0 /\ \A j \in Slots \ {h} : p[j] <= p[h] - 1
    BY <1>1, <1>2, <1>3 DEF Placed
  <1>7. IF n = None THEN p[h] = 1 ELSE p[n] = p[h] - 1
    BY <1>1, <1>3, <1>6 DEF Placed
  <1> HIDE DEF n
  <1>8. \A j \in Slots : q[j] > 0 <=> Listed(j)'
    BY <1>1, <1>3, <1>4, <1>5 DEF Placed
  <1>9. \A i, j \in Slots : q[i] > 0 /\ q[i] = q[j] => i = j
    BY <1>1, <1>5 DEF Placed
  <1>10. IF n = None THEN \A j \in Slots : q[j] = 0
                     ELSE \A j \in Slots : q[j] <= q[n]
    BY <1>3, <1>5, <1>6, <1>7
  <1>11. ASSUME NEW j \in Slots, q[j] > 0
         PROVE  IF next_free[j] = None THEN q[j] = 1 ELSE q[next_free[j]] = q[j] - 1
    <2>1. j # h /\ p[j] > 0 /\ q[j] = p[j] /\ Listed(j)
      BY <1>1, <1>5, <1>11 DEF Placed
    <2>2. IF next_free[j] = None THEN p[j] = 1 ELSE p[next_free[j]] = p[j] - 1
      BY <1>1, <2>1 DEF Placed
    <2>3. next_free[j] # None => q[next_free[j]] = p[next_free[j]]
      BY <1>3, <1>5, <2>1
    <2> QED BY <2>1, <2>2, <2>3
  <1>12. Placed(q)'
    BY <1>2, <1>8, <1>9, <1>10, <1>11 DEF Placed, n
  <1> QED BY <1>5, <1>12 DEF Reached

LEMMA InsertFreshReached ==
  ASSUME IndInv, Reached, InsertFresh
  PROVE  Reached'
  <1> SUFFICES ASSUME relinked' = {} PROVE Reached'
    BY DEF Reached
  <1>0. ~over /\ TypeOK /\ relinked = {}
    BY DEF IndInv, InsertFresh, Occupy
  <1>1. PICK p \in [Slots -> Nat] : Placed(p)
    BY <1>0 DEF Reached
  <1>2. /\ free_head = None /\ free_head' = None /\ len' = len + 1 /\ inserts' \in Nat
        /\ state' = [state EXCEPT ![len] = inserts']
        /\ UNCHANGED <<next_free, retired>>
    BY <1>0, SlotFacts DEF InsertFresh, Occupy, TypeOK
  <1>3. /\ len \in Nat /\ len \in Slots
        /\ state \in [Slots -> 1 .. MaxInserts \cup {None}]
    BY <1>0, SlotFacts DEF TypeOK, InsertFresh, Slots
  <1>4. \A j \in Slots : Listed(j)' <=> Listed(j)
    <2> TAKE j \in Slots
    <2>1. CASE j = len
      BY <1>2, <1>3, <2>1, SlotFacts DEF Listed
    <2>2. CASE j # len
      BY <1>2, <1>3, <2>2, SlotFacts DEF Listed
    <2> QED BY <2>1, <2>2
  <1>5. Placed(p)'
    BY <1>1, <1>2, <1>4 DEF Placed
  <1> QED BY <1>5 DEF Reached

(* remove puts the slot on the list one place higher than the head, or     *)
(* retires a slot that had no place.                                       *)
LEMMA RemoveReached ==
  ASSUME IndInv, Reached, NEW h \in issued, RemoveHandle(h)
  PROVE  Reached'
  <1> SUFFICES ASSUME relinked' = {} PROVE Reached'
    BY DEF Reached
  <1> DEFINE i == h.index
  <1>0. /\ ~over /\ TypeOK /\ HandleAge /\ ListShape
        /\ relinked = {} /\ ~Listed(i)
    BY DEF IndInv, RemoveHandle, Recorded
  <1>1. PICK p \in [Slots -> Nat] : Placed(p)
    BY <1>0 DEF Reached
  <1>2. /\ i \in Slots
        /\ next_free \in [Slots -> Slots \cup {None}] /\ free_head \in Slots \cup {None}
        /\ state \in [Slots -> 1 .. MaxInserts \cup {None}]
    BY <1>0, HandleFields DEF TypeOK
  <1>3. /\ Unlink(h) /\ Recorded(i)
        /\ state' = [state EXCEPT ![i] = None] /\ len' = len
    BY DEF RemoveHandle
  <1>4. i < len /\ ~Listed(i)
    BY <1>0 DEF HandleAge
  <1>5. p[i] = 0
    BY <1>1, <1>2, <1>4 DEF Placed
  <1>6. \A j \in Slots : p[j] > 0 /\ next_free[j] # None =>
          next_free[j] \in Slots /\ next_free[j] # i
    BY <1>0, <1>1, <1>2, <1>4, CleanLinks DEF Placed
  <1>7. free_head # None => free_head # i /\ p[free_head] > 0
    BY <1>0, <1>1, <1>2, <1>4, CleanLinks DEF Placed
  <1>8. CASE WrappingInc(generation[i]) = 0
    <2>1. /\ next_free' = [next_free EXCEPT ![i] = None]
          /\ free_head' = free_head /\ retired' = retired \cup {i}
      BY <1>3, <1>8 DEF Unlink, Recorded
    <2>2. \A j \in Slots : Listed(j)' <=> Listed(j)
      BY <1>2, <1>3, <1>4, <2>1 DEF Listed
    <2>3. \A j \in Slots \ {i} : next_free'[j] = next_free[j]
      BY <1>2, <2>1
    <2>4. Placed(p)'
      BY <1>1, <1>5, <2>1, <2>2, <2>3 DEF Placed
    <2> QED BY <2>4 DEF Reached
  <1>9. CASE WrappingInc(generation[i]) # 0
    <2> DEFINE d == IF free_head = None THEN 1 ELSE p[free_head] + 1
    <2>1. /\ next_free' = [next_free EXCEPT ![i] = free_head]
          /\ free_head' = i /\ retired' = retired \ {i}
      BY <1>3, <1>9 DEF Unlink, Recorded
    <2>2. d \in Nat /\ d > 0 /\ \A j \in Slots : p[j] < d
      BY <1>1, <1>2 DEF Placed
    <2>3. /\ free_head = None => d = 1
          /\ free_head # None => p[free_head] = d - 1
      BY <1>2
    <2> HIDE DEF d
    <2>4. PICK q \in [Slots -> Nat] : q[i] = d /\ \A j \in Slots \ {i} : q[j] = p[j]
      <3>1. [p EXCEPT ![i] = d] \in [Slots -> Nat]
        BY <1>2, <2>2
      <3> QED BY <1>2, <3>1
    <2>5. /\ next_free'[i] = free_head
          /\ \A j \in Slots \ {i} : next_free'[j] = next_free[j]
      BY <1>2, <2>1
    <2>6. \A j \in Slots : Listed(j)' <=> Listed(j) \/ j = i
      BY <1>2, <1>3, <1>4, <2>1 DEF Listed
    <2>7. \A j \in Slots : q[j] > 0 <=> Listed(j)'
      BY <1>1, <1>2, <2>2, <2>4, <2>6 DEF Placed
    <2>8. \A k, j \in Slots : q[k] > 0 /\ q[k] = q[j] => k = j
      <3> SUFFICES ASSUME NEW k \in Slots, NEW j \in Slots, q[k] > 0, q[k] = q[j]
                   PROVE  k = j
        OBVIOUS
      <3>1. CASE k # i /\ j # i
        BY <1>1, <2>4, <3>1 DEF Placed
      <3>2. CASE k = i \/ j = i
        BY <2>2, <2>4, <3>2
      <3> QED BY <3>1, <3>2
    <2>9. \A j \in Slots : q[j] <= q[i]
      BY <2>2, <2>4
    <2>10. ASSUME NEW j \in Slots, q[j] > 0
           PROVE  IF next_free'[j] = None THEN q[j] = 1 ELSE q[next_free'[j]] = q[j] - 1
      <3>1. CASE j = i
        BY <1>2, <1>7, <2>3, <2>4, <2>5, <3>1
      <3>2. CASE j # i
        <4>1. p[j] > 0 /\ q[j] = p[j] /\ next_free'[j] = next_free[j]
          BY <2>4, <2>5, <2>10, <3>2
        <4>2. IF next_free[j] = None THEN p[j] = 1 ELSE p[next_free[j]] = p[j] - 1
          BY <1>1, <4>1 DEF Placed
        <4>3. next_free[j] # None => q[next_free[j]] = p[next_free[j]]
          BY <1>6, <2>4, <4>1
        <4> QED BY <4>1, <4>2, <4>3
      <3> QED BY <3>1, <3>2
    <2>11. Placed(q)'
      BY <1>2, <2>1, <2>7, <2>8, <2>9, <2>10, SlotFacts DEF Placed
    <2> QED BY <2>4, <2>11 DEF Reached
  <1> QED BY <1>8, <1>9

(* insert refuses only when every slot holds a value or is retired: every  *)
(* slot that was used, emptied and not retired can be reached from the     *)
(* head of the free list, however inserts and removes were mixed, as long  *)
(* as no remove hit a slot that was already on that list.                  *)
THEOREM NothingIsLost == Spec => []NoSlotLost
  <1>1. IndInv /\ Reached /\ [Next]_vars => Reached'
    <2> SUFFICES ASSUME IndInv, Reached, [Next]_vars PROVE Reached'
      OBVIOUS
    <2>1. CASE Drop
      BY <2>1 DEF Drop, Reached
    <2>2. CASE UNCHANGED vars
      BY <2>2 DEF vars, history, Reached, Placed, Listed
    <2> QED BY <2>1, <2>2, InsertReusedReached, InsertFreshReached, RemoveReached DEF Next
  <1>2. IndInv /\ Reached => NoSlotLost
    <2> SUFFICES ASSUME IndInv, Reached, ~over, relinked = {}, InsertFails, NEW i \in Slots, state[i] = None
                 PROVE  i \in retired
      BY DEF NoSlotLost
    <2>1. PICK p \in [Slots -> Nat] : Placed(p)
      BY DEF Reached
    <2>2. free_head = None /\ len >= Capacity
      BY CleanLinks DEF InsertFails, IndInv, Listed
    <2>3. i < len
      BY <2>2, SlotFacts DEF IndInv, TypeOK
    <2>4. ~Listed(i)
      BY <2>1, <2>2 DEF Placed
    <2> QED BY <2>3, <2>4 DEF Listed
  <1> QED BY <1>1, <1>2, InitReached, GenerationalInvariant, PTL DEF Spec

(***************************************************************************)
(* ArenaPool.                                                              *)
(***************************************************************************)

-----------------------------------------------------------------------------
(* The operating system as a thread sees it: the mappings in use and the   *)
(* lost ones.                                                              *)
MapOk(m) ==
  /\ m = [addr |-> m.addr, len |-> m.len, backed |-> m.backed, locked |-> m.locked,
          guards |-> m.guards, mem |-> m.mem]
  /\ m.addr \in Nat /\ m.len \in Nat /\ m.backed \in Nat /\ m.backed <= m.len
  /\ m.mem = [i \in 0..(m.len - 1) |-> m.mem[i]]

OsRec(o) ==
  o = [platform |-> o.platform, maps |-> o.maps, lost |-> o.lost, err |-> o.err,
       failed |-> o.failed, faults |-> o.faults]

OsOk(o) ==
  /\ OsRec(o) /\ o.maps = [r \in DOMAIN o.maps |-> o.maps[r]]
  /\ DOMAIN o.maps \subseteq 1..MaxRegions /\ o.lost \subseteq DOMAIN o.maps
  /\ \A r \in DOMAIN o.maps : MapOk(o.maps[r])

(* X are the mappings in use, and all others are lost. *)
Holds(o, X) == OsOk(o) /\ DOMAIN o.maps = X \cup o.lost /\ X \cap o.lost = {}

(* The mappings X are left alone. *)
Untouched(o, n, X) == n.platform = o.platform /\ \A r \in X : n.maps[r] = o.maps[r]

(* What failed between o and n is of Y, and a failure is in the slot. *)
Told(o, n, Y) ==
  /\ o.failed \subseteq n.failed /\ n.failed \subseteq o.failed \cup Y
  /\ (n.err = o.err /\ n.failed = o.failed) \/ n.err \in n.failed

(* A call failed and changed nothing. *)
Fell(o, n, call) ==
  /\ OsRec(n) /\ n.platform = o.platform /\ n.maps = o.maps /\ n.lost = o.lost
  /\ n.err = call /\ n.failed = o.failed \cup {call}

(* A call changed one mapping. *)
Changed(o, n, r, m) ==
  /\ OsRec(n) /\ n.platform = o.platform /\ n.lost = o.lost /\ n.err = o.err /\ n.failed = o.failed
  /\ DOMAIN n.maps = DOMAIN o.maps /\ n.maps[r] = m
  /\ \A q \in DOMAIN o.maps : q # r => n.maps[q] = o.maps[q]
  /\ n.maps = [q \in DOMAIN n.maps |-> n.maps[q]]

LEMMA FailingIs ==
  ASSUME NEW o, OsRec(o), NEW call
  PROVE  Fell(o, Failing(o, call), call)
  <1> DEFINE n == Failing(o, call)
  <1>1. n.platform = o.platform /\ n.maps = o.maps /\ n.lost = o.lost
    BY DEF OsRec, Failing
  <1>2. n.err = call /\ n.failed = o.failed \cup {call}
    BY DEF OsRec, Failing
  <1> DEFINE p == [platform |-> o.platform, maps |-> o.maps, lost |-> o.lost, err |-> call,
                   failed |-> o.failed \cup {call}, faults |-> o.faults]
             q == [platform |-> o.platform, maps |-> o.maps, lost |-> o.lost, err |-> call,
                   failed |-> o.failed, faults |-> o.faults]
  <1>a. [o EXCEPT !.err = call] = q
    BY DEF OsRec
  <1>b. n = [[o EXCEPT !.err = call] EXCEPT !.failed = o.failed \cup {call}]
    BY DEF Failing
  <1>c. [q EXCEPT !.failed = o.failed \cup {call}] = p
    OBVIOUS
  <1>3. n = p
    BY <1>a, <1>b, <1>c
  <1>4. OsRec(p)
    BY DEF OsRec
  <1>5. OsRec(n)
    BY <1>3, <1>4
  <1> QED BY <1>1, <1>2, <1>5 DEF Fell

LEMMA MayFailIs ==
  ASSUME NEW o, OsRec(o), NEW call, NEW n \in MayFail(o, call)
  PROVE  Fell(o, n, call)
  <1> DEFINE p == [o EXCEPT !.faults = @ - 1]
  <1>1. n = Failing(p, call)
    BY DEF MayFail
  <1>2. /\ OsRec(p) /\ p.platform = o.platform /\ p.maps = o.maps /\ p.lost = o.lost
        /\ p.failed = o.failed
    BY DEF OsRec
  <1> HIDE DEF p
  <1>3. Fell(p, n, call)
    BY <1>1, <1>2, FailingIs
  <1> QED BY <1>2, <1>3 DEF Fell

LEMMA FellHolds ==
  ASSUME NEW o, NEW n, NEW call, NEW X, Holds(o, X), Fell(o, n, call)
  PROVE  Holds(n, X) /\ Untouched(o, n, X) /\ Told(o, n, {call})
BY DEF Holds, OsOk, Fell, Untouched, Told

LEMMA ChangedHolds ==
  ASSUME NEW o, NEW n, NEW r, NEW m, NEW X, Holds(o, X), r \notin X, MapOk(m),
         NEW Y, Changed(o, n, r, m)
  PROVE  Untouched(o, n, X) /\ Told(o, n, Y)
BY DEF Holds, OsOk, Changed, Untouched, Told

LEMMA ChangedStill ==
  ASSUME NEW o, NEW n, NEW r, NEW m, NEW X, Holds(o, X), MapOk(m), Changed(o, n, r, m)
  PROVE  Holds(n, X)
BY DEF Holds, OsOk, Changed

LEMMA ExceptMap ==
  ASSUME NEW o, OsOk(o), NEW r \in DOMAIN o.maps, NEW m
  PROVE  Changed(o, [o EXCEPT !.maps[r] = m], r, m)
BY DEF OsOk, OsRec, Changed

LEMMA UntouchedTrans ==
  ASSUME NEW o, NEW p, NEW n, NEW X, Untouched(o, p, X), Untouched(p, n, X)
  PROVE  Untouched(o, n, X)
BY DEF Untouched

LEMMA ToldTrans ==
  ASSUME NEW o, NEW p, NEW n, NEW Y, Told(o, p, Y), Told(p, n, Y)
  PROVE  Told(o, n, Y)
BY DEF Told

LEMMA ToldMore ==
  ASSUME NEW o, NEW n, NEW Y, NEW Z, Told(o, n, Y), Y \subseteq Z
  PROVE  Told(o, n, Z)
BY DEF Told
-----------------------------------------------------------------------------
(* System calls, one by one. *)
Own(b) == {b.region, b.meta} \ {0}

(* A region is taken away. *)
LEMMA UnmapHolds ==
  ASSUME NEW o, NEW X, NEW r, Holds(o, X \cup {r}), r \notin X, NEW n \in OsUnmap(o, r)
  PROVE  Holds(n, X) /\ Untouched(o, n, X) /\ Told(o, n, {"unmap"})
  <1>0. OsOk(o) /\ OsRec(o) /\ DOMAIN o.maps = X \cup {r} \cup o.lost /\ r \in DOMAIN o.maps
        /\ r \notin o.lost /\ X \cap o.lost = {} /\ X \subseteq DOMAIN o.maps
    BY DEF Holds, OsOk
  <1>1. CASE n = [o EXCEPT !.maps = Restrict(@, DOMAIN @ \ {r})]
    <2> DEFINE f == [x \in DOMAIN o.maps \ {r} |-> o.maps[x]]
    <2>1. n = [o EXCEPT !.maps = f]
      BY <1>1 DEF Restrict
    <2>2. DOMAIN f = DOMAIN o.maps \ {r} /\ (\A x \in DOMAIN f : f[x] = o.maps[x])
          /\ f = [x \in DOMAIN f |-> f[x]]
      OBVIOUS
    <2> HIDE DEF f
    <2>3. /\ OsRec(n) /\ n.maps = f /\ n.lost = o.lost /\ n.platform = o.platform
          /\ n.err = o.err /\ n.failed = o.failed
      BY <2>1, <1>0 DEF OsRec
    <2>4. OsOk(n)
      BY <2>2, <2>3, <1>0 DEF OsOk
    <2>5. DOMAIN n.maps = X \cup n.lost
      BY <2>2, <2>3, <1>0
    <2> QED BY <2>2, <2>3, <2>4, <2>5, <1>0 DEF Holds, Untouched, Told
  <1>2. CASE n \notin {[o EXCEPT !.maps = Restrict(@, DOMAIN @ \ {r})]}
    <2>1. PICK f \in MayFail(o, "unmap") : n = [f EXCEPT !.lost = @ \cup {r}]
      BY <1>2 DEF OsUnmap
    <2>2. Fell(o, f, "unmap")
      BY <1>0, MayFailIs
    <2>3. /\ OsRec(n) /\ n.maps = o.maps /\ n.lost = o.lost \cup {r} /\ n.platform = o.platform
          /\ n.err = "unmap" /\ n.failed = o.failed \cup {"unmap"}
      BY <2>1, <2>2 DEF OsRec, Fell
    <2>4. OsOk(n)
      BY <2>3, <1>0 DEF OsOk
    <2> QED BY <2>3, <2>4, <1>0 DEF Holds, Untouched, Told
  <1> QED BY <1>1, <1>2

LEMMA FieldSet ==
  ASSUME NEW o, OsOk(o), NEW r \in DOMAIN o.maps, NEW m
  PROVE  LET n == [o EXCEPT !.maps = [o.maps EXCEPT ![r] = m]] IN Changed(o, n, r, m)
BY DEF OsOk, OsRec, Changed

WithLock(m, v) == [m EXCEPT !.locked = v]

Locking(o, r, v) == [o EXCEPT !.maps[r].locked = v]

Relocked(m, w, v) ==
  /\ MapOk(w) /\ w.addr = m.addr /\ w.len = m.len /\ w.backed = m.backed
  /\ w.guards = m.guards /\ w.mem = m.mem /\ w.locked = v

LEMMA LockedIs ==
  ASSUME NEW o, OsOk(o), NEW r \in DOMAIN o.maps, NEW v \in BOOLEAN
  PROVE  /\ Relocked(o.maps[r], WithLock(o.maps[r], v), v)
         /\ Changed(o, Locking(o, r, v), r, WithLock(o.maps[r], v))
  <1> DEFINE m == WithLock(o.maps[r], v)
  <1>1. MapOk(o.maps[r])
    BY DEF OsOk
  <1>2. Relocked(o.maps[r], m, v)
    BY <1>1 DEF MapOk, Relocked, WithLock
  <1>3. Locking(o, r, v) = [o EXCEPT !.maps = [o.maps EXCEPT ![r] = m]]
    BY DEF Locking, WithLock
  <1> HIDE DEF m
  <1>4. Changed(o, [o EXCEPT !.maps = [o.maps EXCEPT ![r] = m]], r, m)
    BY FieldSet
  <1>5. Changed(o, Locking(o, r, v), r, m)
    BY <1>3, <1>4
  <1> QED BY <1>2, <1>5 DEF m

LEMMA UnlockHolds ==
  ASSUME NEW o, NEW X, NEW r, Holds(o, X \cup {r}), r \notin X, NEW n \in OsUnlock(o, r)
  PROVE  Holds(n, X \cup {r}) /\ Untouched(o, n, X) /\ Told(o, n, {"unlock"})
  <1>1. OsOk(o) /\ OsRec(o) /\ r \in DOMAIN o.maps
    BY DEF Holds, OsOk
  <1>2. CASE n \in MayFail(o, "unlock")
    <2>1. Fell(o, n, "unlock")
      BY <1>1, <1>2, MayFailIs
    <2>2. Holds(n, X \cup {r}) /\ Untouched(o, n, X \cup {r}) /\ Told(o, n, {"unlock"})
      BY <2>1, FellHolds
    <2> QED BY <2>2 DEF Untouched
  <1>3. CASE n = [o EXCEPT !.maps[r].locked = FALSE]
    <2> DEFINE m == WithLock(o.maps[r], FALSE)
    <2>a. Relocked(o.maps[r], m, FALSE) /\ Changed(o, Locking(o, r, FALSE), r, m)
      BY <1>1, LockedIs
    <2> HIDE DEF m
    <2>b. n = Locking(o, r, FALSE)
      BY <1>3 DEF Locking
    <2>1. MapOk(m) /\ Changed(o, n, r, m)
      BY <2>a, <2>b DEF Relocked
    <2>2. Holds(n, X \cup {r})
      BY <2>1, ChangedStill
    <2>3. Untouched(o, n, X)
      BY <2>1 DEF Changed, Untouched, Holds
    <2>4. Told(o, n, {"unlock"})
      BY <2>1 DEF Changed, Told
    <2> QED BY <2>2, <2>3, <2>4
  <1> QED BY <1>2, <1>3 DEF OsUnlock

(* Drop, by the layers of a backing. *)
LEMMA DropBottomHolds ==
  ASSUME NEW o, NEW X, NEW b, Holds(o, X \cup {b.region}), b.region \notin X,
         NEW n \in CASE Bottom(b) = "locked" -> DropLocked(o, b.region)
                     [] Bottom(b) \in {"mmap", "lazy"} -> DropMmap(o, b.region)
                     [] Bottom(b) = "huge" -> DropHuge(o, b.region)
                     [] OTHER -> DropHeap(o, b.region)
  PROVE  Holds(n, X) /\ Untouched(o, n, X) /\ Told(o, n, {"unmap", "unlock"})
  <1> DEFINE r == b.region
             Y == {"unmap", "unlock"}
  <1>1. CASE Bottom(b) = "locked"
    <2>1. PICK u \in OsUnlock(o, r) : n \in DropMmap(u, r)
      BY <1>1 DEF DropLocked
    <2>2. Holds(u, X \cup {r}) /\ Untouched(o, u, X) /\ Told(o, u, {"unlock"})
      BY <2>1, UnlockHolds
    <2>3. Holds(n, X) /\ Untouched(u, n, X) /\ Told(u, n, {"unmap"})
      BY <2>1, <2>2, UnmapHolds DEF DropMmap
    <2>4. Told(o, u, Y) /\ Told(u, n, Y)
      BY <2>2, <2>3, ToldMore
    <2> QED BY <2>2, <2>3, <2>4, UntouchedTrans, ToldTrans
  <1>2. CASE Bottom(b) \in {"mmap", "lazy", "huge"}
    <2>1. n \in OsUnmap(o, r)
      BY <1>2 DEF DropMmap, DropHuge, OsUnmapHuge
    <2>2. Holds(n, X) /\ Untouched(o, n, X) /\ Told(o, n, {"unmap"})
      BY <2>1, UnmapHolds
    <2> QED BY <2>2, ToldMore
  <1>3. CASE Bottom(b) \notin {"locked", "mmap", "lazy", "huge"}
    <2>1. n = [o EXCEPT !.maps = Restrict(@, DOMAIN @ \ {r})]
      BY <1>3 DEF DropHeap
    <2>2. n \in OsUnmap(o, r)
      BY <2>1 DEF OsUnmap
    <2>3. Holds(n, X) /\ Untouched(o, n, X) /\ Told(o, n, {"unmap"})
      BY <2>2, UnmapHolds
    <2> QED BY <2>3, ToldMore
  <1> QED BY <1>1, <1>2, <1>3

LEMMA DropHolds ==
  ASSUME NEW o, NEW X, NEW b, Holds(o, X \cup Own(b)), X \cap Own(b) = {},
         b.region # 0, b.meta # b.region, NEW n \in DropBacking(o, b)
  PROVE  Holds(n, X) /\ Untouched(o, n, X) /\ Told(o, n, {"unmap", "unlock"})
  <1> DEFINE Y == {"unmap", "unlock"}
             Z == X \cup {b.region}
  <1>1. PICK d \in DropMeta(o, b) :
          n \in CASE Bottom(b) = "locked" -> DropLocked(d, b.region)
                  [] Bottom(b) \in {"mmap", "lazy"} -> DropMmap(d, b.region)
                  [] Bottom(b) = "huge" -> DropHuge(d, b.region)
                  [] OTHER -> DropHeap(d, b.region)
    BY DEF DropBacking
  <1>2. b.region \notin X
    BY DEF Own
  <1>3. Holds(d, Z) /\ Untouched(o, d, Z) /\ Told(o, d, Y)
    <2>1. CASE b.meta = 0
      <3>1. d = o
        BY <1>1, <2>1 DEF DropMeta
      <3>2. X \cup Own(b) = Z
        BY <2>1 DEF Own
      <3> QED BY <3>1, <3>2 DEF Untouched, Told
    <2>2. CASE b.meta # 0
      <3>1. d \in OsUnmap(o, b.meta)
        BY <1>1, <2>2 DEF DropMeta, DropMmap
      <3>2. X \cup Own(b) = Z \cup {b.meta} /\ b.meta \notin Z
        BY <2>2 DEF Own
      <3>3. Holds(d, Z) /\ Untouched(o, d, Z) /\ Told(o, d, {"unmap"})
        <4>1. Holds(o, Z \cup {b.meta})
          BY <3>2
        <4> HIDE DEF Z
        <4> QED BY <3>1, <3>2, <4>1, UnmapHolds
      <3> QED BY <3>3, ToldMore
    <2> QED BY <2>1, <2>2
  <1>4. Holds(n, X) /\ Untouched(d, n, X) /\ Told(d, n, Y)
    BY <1>1, <1>2, <1>3, DropBottomHolds
  <1>5. Untouched(o, d, X)
    BY <1>3 DEF Untouched
  <1> QED BY <1>3, <1>4, <1>5, UntouchedTrans, ToldTrans
-----------------------------------------------------------------------------
(* Arithmetic. *)
LEMMA TakeLeast ==
  ASSUME NEW S \in SUBSET Nat, S # {}
  PROVE  \E x \in S : \A y \in S : x <= y
  <1> DEFINE R == OpToRel(<, Nat)
  <1>1. PICK x \in S : \A y \in S : ~(<<y, x>> \in R)
    BY NatLessThanWellFounded, WFMin
  <1>2. \A y \in Nat : y < x => <<y, x>> \in R
    BY DEF OpToRel
  <1> HIDE DEF R
  <1>3. ASSUME NEW y \in S PROVE ~(y < x)
    BY <1>1, <1>2
  <1>4. \A y \in S : x <= y
    BY <1>3
  <1> QED BY <1>4

LEMMA MultipleIsZero ==
  ASSUME NEW q \in Nat, NEW k \in Nat \ {0}
  PROVE  (q * k) % k = 0
OBVIOUS

LEMMA WholeQuotient ==
  ASSUME NEW a \in Nat, NEW k \in Nat \ {0}, a % k = 0
  PROVE  a \div k \in Nat /\ a = (a \div k) * k
OBVIOUS

LEMMA TimesAssoc ==
  ASSUME NEW a \in Nat, NEW b \in Nat, NEW c \in Nat
  PROVE  a * (b * c) = (a * b) * c /\ a * b \in Nat
OBVIOUS

LEMMA DividesTrans ==
  ASSUME NEW a \in Nat, NEW h \in Nat \ {0}, NEW p \in Nat \ {0}, a % h = 0, h % p = 0
  PROVE  a % p = 0
  <1> DEFINE q == a \div h
             s == h \div p
  <1>1. q \in Nat /\ a = q * h
    BY WholeQuotient
  <1>2. s \in Nat /\ h = s * p
    BY WholeQuotient
  <1> HIDE DEF q, s
  <1>3. a = (q * s) * p /\ q * s \in Nat
    BY <1>1, <1>2, TimesAssoc
  <1> QED BY <1>3, MultipleIsZero

LEMMA DividesTimes ==
  ASSUME NEW a \in Nat, NEW h \in Nat, NEW p \in Nat \ {0}, h % p = 0
  PROVE  (a * h) % p = 0
  <1> DEFINE s == h \div p
  <1>2. s \in Nat /\ h = s * p
    BY WholeQuotient
  <1> HIDE DEF s
  <1>3. a * h = (a * s) * p /\ a * s \in Nat
    BY <1>2, TimesAssoc
  <1> QED BY <1>3, MultipleIsZero

LEMMA DividesSum ==
  ASSUME NEW a \in Nat, NEW b \in Nat, NEW p \in Nat \ {0}, a % p = 0, b % p = 0
  PROVE  (a + b) % p = 0
  <1> DEFINE q == a \div p
             s == b \div p
  <1>1. q \in Nat /\ a = q * p /\ s \in Nat /\ b = s * p
    BY WholeQuotient
  <1> HIDE DEF q, s
  <1>2. a + b = (q + s) * p /\ q + s \in Nat
    BY <1>1
  <1> QED BY <1>2, MultipleIsZero

LEMMA TimesMonotone ==
  ASSUME NEW a \in Nat, NEW b \in Nat, NEW k \in Nat, a <= b
  PROVE  a * k <= b * k /\ a * k \in Nat /\ b * k \in Nat
OBVIOUS

LEMMA RoundedUp ==
  ASSUME NEW a \in Nat, NEW k \in Nat \ {0}
  PROVE  /\ AlignUp(a, k) \in Nat /\ AlignUp(a, k) >= a /\ AlignUp(a, k) % k = 0
         /\ AlignUp(a, k) <= a + k - 1
  <1> DEFINE q == (a + k - 1) \div k
  <1>1. q \in Nat /\ a + k - 1 < q * k + k /\ q * k <= a + k - 1
    BY a + k - 1 \in Nat
  <1> HIDE DEF q
  <1>2. q * k \in Nat /\ q * k >= a
    BY <1>1
  <1>3. (q * k) % k = 0
    BY <1>1, MultipleIsZero
  <1> QED BY <1>1, <1>2, <1>3 DEF AlignUp, q

LEMMA ArenaConstants ==
  /\ Page \in Nat \ {0} /\ HugePage \in Nat \ {0} /\ RegionSpan \in Nat /\ MaxRegions \in Nat
  /\ HugePage % Page = 0 /\ RegionSpan % HugePage = 0 /\ RegionSpan % Page = 0
  /\ UsizeMax \in Nat /\ (MaxRegions + 1) * RegionSpan <= UsizeMax
  <1>1. /\ Page \in Nat \ {0} /\ HugePage \in Nat \ {0} /\ RegionSpan \in Nat /\ MaxRegions \in Nat
        /\ HugePage % Page = 0 /\ RegionSpan % HugePage = 0
    BY BackingAssumption
  <1>2. RegionSpan % Page = 0
    BY <1>1, DividesTrans
  <1>3. UsizeMax \in Nat /\ (MaxRegions + 1) * RegionSpan <= UsizeMax
    BY BumpOpsAssumption, ArenaPoolAssumption
  <1> QED BY <1>1, <1>2, <1>3

(* Where the system puts a mapping. *)
LEMMA RegionPlace ==
  ASSUME NEW r \in 1..MaxRegions, NEW layer
  PROVE  /\ RegionAddr(r, layer) \in Nat /\ RegionAddr(r, layer) % Page = 0
         /\ \A n \in Nat : n + Page <= RegionSpan => RegionAddr(r, layer) + n <= UsizeMax
  <1> DEFINE x == r * RegionSpan
             y == (MaxRegions + 1) * RegionSpan
  <1>1. x \in Nat /\ x % Page = 0 /\ r \in Nat
    <2>1. r \in Nat /\ RegionSpan \in Nat /\ Page \in Nat \ {0} /\ RegionSpan % Page = 0
      BY ArenaConstants
    <2>2. r * RegionSpan \in Nat
      BY <2>1
    <2>3. (r * RegionSpan) % Page = 0
      BY <2>1, DividesTimes
    <2> QED BY <2>1, <2>2, <2>3
  <1>2. (r + 1) * RegionSpan <= y /\ (r + 1) * RegionSpan = x + RegionSpan
    BY ArenaConstants, TimesMonotone
  <1>3. Page % Page = 0 /\ 0 % Page = 0
    BY ArenaConstants
  <1>4. y <= UsizeMax
    BY ArenaConstants
  <1> HIDE DEF x, y
  <1>6. (x + Page) % Page = 0
    BY <1>1, <1>3, ArenaConstants, DividesSum
  <1>7. x + RegionSpan <= UsizeMax
    BY <1>2, <1>4, <1>1, ArenaConstants DEF y
  <1>8. RegionAddr(r, layer) = x \/ RegionAddr(r, layer) = x + Page
    BY <1>1 DEF RegionAddr, x
  <1> QED BY <1>1, <1>6, <1>7, <1>8, ArenaConstants
-----------------------------------------------------------------------------
(* Backings. *)
BackingRec(b) ==
  b = [layers |-> b.layers, region |-> b.region, meta |-> b.meta, base |-> b.base, len |-> b.len,
       committed |-> b.committed]

(* A mapping made for a backing of its own. *)
Made(o, m, X, layer, addr, extent, backed) ==
  LET b == m.b
      r == b.region
  IN /\ m = [os |-> m.os, b |-> b] /\ BackingRec(b)
     /\ b.layers = <<layer>> /\ b.meta = 0 /\ b.base = 0 /\ b.len = extent /\ b.committed = backed
     /\ r \in 1..MaxRegions /\ r \notin X
     /\ Holds(m.os, X \cup {r}) /\ Untouched(o, m.os, X)
     /\ m.os.failed = o.failed /\ m.os.err = o.err
     /\ m.os.maps[r] = Mapping(IF addr = 0 THEN RegionAddr(r, layer) ELSE addr, extent, backed)

LEMMA MappingIs ==
  ASSUME NEW addr \in Nat, NEW extent \in Nat, NEW backed \in Nat, backed <= extent
  PROVE  LET m == Mapping(addr, extent, backed)
         IN /\ MapOk(m) /\ m.addr = addr /\ m.len = extent /\ m.backed = backed
            /\ m.locked = FALSE /\ m.guards = {}
BY DEF Mapping, MapOk

LEMMA MappedIs ==
  ASSUME NEW o, NEW X, Holds(o, X), FreeRegions(o) # {}, NEW layer, NEW addr \in Nat,
         NEW extent \in Nat, NEW backed \in Nat, backed <= extent
  PROVE  Made(o, Mapped(o, layer, addr, extent, backed), X, layer, addr, extent, backed)
  <1> DEFINE r == Min(FreeRegions(o))
             at == IF addr = 0 THEN RegionAddr(r, layer) ELSE addr
             made == Mapping(at, extent, backed)
             f == [q \in DOMAIN o.maps \cup {r} |-> IF q = r THEN made ELSE o.maps[q]]
             n == [o EXCEPT !.maps = f]
             b == [layers |-> <<layer>>, region |-> r, meta |-> 0, base |-> 0, len |-> extent,
                   committed |-> backed]
             m == Mapped(o, layer, addr, extent, backed)
  <1>1. m = [os |-> n, b |-> b]
    BY DEF Mapped
  <1> HIDE DEF made
  <1>2. r \in FreeRegions(o)
    <2>1. FreeRegions(o) \subseteq Nat
      BY ArenaConstants DEF FreeRegions
    <2>2. PICK x \in FreeRegions(o) : \A y \in FreeRegions(o) : x <= y
      BY <2>1, TakeLeast
    <2> QED BY <2>2 DEF Min
  <1>3. r \in 1..MaxRegions /\ r \notin DOMAIN o.maps
    BY <1>2 DEF FreeRegions
  <1>4. at \in Nat
    BY <1>3, RegionPlace
  <1>5. /\ DOMAIN f = DOMAIN o.maps \cup {r} /\ f[r] = made
        /\ \A q \in DOMAIN o.maps : f[q] = o.maps[q]
        /\ f = [q \in DOMAIN f |-> f[q]]
    BY <1>3
  <1>6. MapOk(made)
    BY <1>4, MappingIs DEF made
  <1> HIDE DEF r, f, at
  <1>7. OsRec(o)
    BY DEF Holds, OsOk
  <1>8. /\ OsRec(n) /\ n.maps = f /\ n.lost = o.lost /\ n.platform = o.platform
        /\ n.err = o.err /\ n.failed = o.failed
    BY <1>7 DEF OsRec
  <1> HIDE DEF n
  <1>9. OsOk(n)
    BY <1>3, <1>5, <1>6, <1>8 DEF Holds, OsOk
  <1>10. Holds(n, X \cup {r}) /\ r \notin X
    BY <1>3, <1>5, <1>8, <1>9 DEF Holds, OsOk
  <1>11. Untouched(o, n, X)
    BY <1>5, <1>8 DEF Untouched, Holds
  <1>12. BackingRec(b)
    BY DEF BackingRec
  <1>13. m.os = n /\ m.b = b /\ m = [os |-> m.os, b |-> m.b]
    BY <1>1
  <1>14. /\ b.layers = <<layer>> /\ b.region = r /\ b.meta = 0 /\ b.base = 0 /\ b.len = extent
         /\ b.committed = backed
    OBVIOUS
  <1> HIDE DEF b, m
  <1>15. n.maps[r] = Mapping(at, extent, backed)
    BY <1>5, <1>8 DEF made
  <1> QED BY <1>3, <1>8, <1>10, <1>11, <1>12, <1>13, <1>14, <1>15 DEF Made, m, at

(* A call refused, with no backing. *)
Refusal(o, m, call) == m = [os |-> m.os, b |-> NoBacking] /\ Fell(o, m.os, call)

LEMMA MadeIsBacking ==
  ASSUME NEW o, NEW m, NEW X, NEW layer, NEW addr, NEW extent, NEW backed,
         Made(o, m, X, layer, addr, extent, backed)
  PROVE  m.b # NoBacking
BY DEF Made, NoBacking

LEMMA OsMapIs ==
  ASSUME NEW o, NEW X, Holds(o, X), NEW layer, NEW extent \in Nat, NEW backed \in Nat, backed <= extent,
         NEW m \in OsMap(o, layer, extent, backed)
  PROVE  \/ Refusal(o, m, "map")
         \/ Made(o, m, X, layer, 0, extent, backed) /\ extent + Page <= RegionSpan
  <1>0. OsRec(o)
    BY DEF Holds, OsOk
  <1>1. CASE \E f \in MayFail(o, "map") : m = [os |-> f, b |-> NoBacking]
    BY <1>0, <1>1, MayFailIs DEF Refusal
  <1>2. CASE m = [os |-> Failing(o, "map"), b |-> NoBacking]
    BY <1>0, <1>2, FailingIs DEF Refusal
  <1>3. CASE ~NoRoom(o, extent) /\ m = Mapped(o, layer, 0, extent, backed)
    <2>1. FreeRegions(o) # {} /\ extent + Page <= RegionSpan
      BY <1>3, ArenaConstants DEF NoRoom
    <2> QED BY <1>3, <2>1, MappedIs
  <1> QED BY <1>1, <1>2, <1>3 DEF OsMap

LEMMA EinvalIs ==
  ASSUME NEW o, NEW X, Holds(o, X), NEW m \in SyntheticEinval(o)
  PROVE  Refusal(o, m, "einval")
  <1>0. OsRec(o)
    BY DEF Holds, OsOk
  <1> QED BY <1>0, FailingIs DEF SyntheticEinval, Refusal

LEMMA MmapIs ==
  ASSUME NEW o, NEW X, Holds(o, X), NEW layer, NEW size \in Nat, NEW m \in MmapNew(o, layer, size)
  PROVE  \/ Refusal(o, m, "einval")
         \/ Refusal(o, m, "map")
         \/ LET extent == AlignUp(size, Page)
            IN /\ Made(o, m, X, layer, 0, extent, CommittedAtStart(o, layer, extent))
               /\ extent + Page <= RegionSpan /\ size > 0
  <1> DEFINE extent == AlignUp(size, Page)
             backed == CommittedAtStart(o, layer, extent)
  <1>1. extent \in Nat /\ backed \in Nat /\ backed <= extent
    BY RoundedUp, ArenaConstants DEF CommittedAtStart
  <1>2. CASE m \in SyntheticEinval(o)
    BY <1>2, EinvalIs
  <1>3. CASE m \in OsMap(o, layer, extent, backed) /\ size > 0
    <2> HIDE DEF extent, backed
    <2>1. \/ Refusal(o, m, "map")
          \/ Made(o, m, X, layer, 0, extent, backed) /\ extent + Page <= RegionSpan
      BY <1>1, <1>3, OsMapIs
    <2> QED BY <1>3, <2>1 DEF extent, backed
  <1> QED BY <1>2, <1>3 DEF MmapNew
-----------------------------------------------------------------------------
(* What a constructor is asked for, as far as it can tell.                 *)
Unit(o, c) ==
  IF c.layers[1] = "huge" THEN RoundingGranularity(o, c.hp)
  ELSE IF c.layers[1] \in Mappings THEN Page ELSE 1

RegionLen(o, c) == AlignUp(c.size, Unit(o, c))

Sane(o, c) ==
  /\ c.use # "direct" \/ Contains(c.layers, "heap") => c.size > 0
  /\ Contains(c.layers, "guard") =>
       /\ IsPowerOfTwo(c.page) /\ Page % c.page = 0
       /\ RegionLen(o, c) > 2 * c.page /\ RegionLen(o, c) % c.page = 0
  /\ Contains(c.layers, "numa") => c.nodes # {}
  /\ Contains(c.layers, "hpaligned") => IsPowerOfTwo(c.hp) /\ c.hp >= Page
  /\ c.layers[1] \in Buffers => c.addr + c.size <= UsizeMax
  /\ c.use = "c" => c.addr > 0 /\ c.size <= UsizeMax \div 2

LEMMA AdmissibleSane ==
  ASSUME NEW o, NEW c, Admissible(o, c)
  PROVE  Sane(o, c) /\ (Contains(c.layers, "heap") => ~NoRoom(o, c.size))
BY DEF Admissible, Sane, RegionLen, Unit

LEMMA SaneSame ==
  ASSUME NEW o, NEW n, NEW c, n.platform = o.platform
  PROVE  Sane(n, c) = Sane(o, c) /\ Unit(n, c) = Unit(o, c) /\ RegionLen(n, c) = RegionLen(o, c)
  <1>1. Unit(n, c) = Unit(o, c)
    BY DEF Unit, RoundingGranularity
  <1>2. RegionLen(n, c) = RegionLen(o, c)
    BY <1>1 DEF RegionLen
  <1> QED BY <1>1, <1>2 DEF Sane

LEMMA ConfFacts ==
  ASSUME NEW c \in Confs
  PROVE  /\ c.size \in Nat /\ c.meta \in Nat /\ c.page \in Nat /\ c.hp \in Nat /\ c.addr \in Nat
         /\ c.cap \in Nat
         /\ c.layers \in Seq(STRING) /\ Len(c.layers) \in Nat /\ Len(c.layers) >= 1
         /\ c.layers[1] \in Mappings \cup Buffers \cup {"heap"}
         /\ \A i \in 2..Len(c.layers) :
              /\ c.layers[i] \in Wrappers /\ \A j \in 2..(i - 1) : c.layers[j] # c.layers[i]
              /\ c.layers[i] = "split" \/ c.layers[1] \in Mappings
         /\ c.layers[1] \in Buffers /\ c.addr = 0 => c.use = "c"
  <1>1. c.layers \in Seq(STRING) /\ c.layers # <<>>
    BY ArenaPoolAssumption
  <1>2. Len(c.layers) \in Nat /\ Len(c.layers) >= 1
    BY <1>1
  <1> QED BY <1>1, <1>2, ArenaPoolAssumption

-----------------------------------------------------------------------------
(* A backing under construction, of the first k layers.                    *)
Guarded(c, k) == \E i \in 1..k : c.layers[i] = "guard"

RegionOk(o, c, guarded, b, m) ==
  /\ m.locked = (c.layers[1] = "locked") /\ b.committed = m.backed
  /\ b.base + b.len <= m.len
  /\ guarded => /\ m.guards # {} /\ m.backed = m.len /\ b.len > 0
                /\ \A i \in 0..(m.len - 1) : i \in m.guards <=> i \notin b.base..(b.base + b.len - 1)
  /\ ~guarded => m.guards = {} /\ b.base = 0 /\ b.len = m.len
  /\ c.layers[1] # "lazy" \/ o.platform # "windows" => m.backed = m.len

LaidOut(o, c, m) ==
  /\ m.len = RegionLen(o, c) /\ m.len >= c.size
  /\ c.layers[1] \in Mappings => m.addr % Page = 0
  /\ c.layers[1] \notin Buffers => m.addr + m.len <= UsizeMax /\ c.size > 0
  /\ c.layers[1] \in Buffers /\ c.addr # 0 => m.addr = c.addr

BackingOk(o, c, k, b) ==
  /\ BackingRec(b) /\ b.layers \in Seq(STRING) /\ Len(b.layers) = k
  /\ \A i \in 1..k : b.layers[i] = c.layers[i]
  /\ b.region \in DOMAIN o.maps /\ b.region # 0 /\ b.meta # b.region
  /\ b.meta # 0 => \E i \in 2..k : c.layers[i] = "split"
  /\ b.base \in Nat /\ b.len \in Nat
  /\ RegionOk(o, c, Guarded(c, k), b, o.maps[b.region])
  /\ LaidOut(o, c, o.maps[b.region])

Calls == {"einval", "map", "unmap", "lock", "unlock", "protect", "release", "mbind", "heap", "commit"}

(* A constructor that failed. *)
Refused(n, c) ==
  /\ n.failed \subseteq Calls
  /\ n.failed \ {"unmap", "unlock"} # {} \/ ~Admissible(n, c)
  /\ n.failed \ {"heap"} # {} => n.err \in n.failed
  /\ "lock" \in n.failed /\ Len(c.layers) = 1 => n.err = "lock"

(* One outcome of a construction from o on, while X are in use. *)
Built(o, c, k, X, m) ==
  /\ m = [os |-> m.os, b |-> m.b] /\ Untouched(o, m.os, X)
  /\ m.b = NoBacking => Holds(m.os, X) /\ Refused(m.os, c)
  /\ m.b # NoBacking => /\ Holds(m.os, X \cup Own(m.b)) /\ X \cap Own(m.b) = {}
                        /\ BackingOk(m.os, c, k, m.b) /\ m.os.failed = {}

LEMMA RefusalBuilt ==
  ASSUME NEW o, NEW c, NEW k, NEW X, Holds(o, X), o.failed = {}, NEW m,
         NEW call \in {"einval", "map"}, Refusal(o, m, call)
  PROVE  Built(o, c, k, X, m)
  <1>1. m = [os |-> m.os, b |-> NoBacking] /\ m.b = NoBacking /\ Fell(o, m.os, call)
    BY DEF Refusal
  <1>2. Holds(m.os, X) /\ Untouched(o, m.os, X)
    BY <1>1, FellHolds
  <1>3. m.os.failed = {call} /\ m.os.err = call
    BY <1>1 DEF Fell
  <1>4. Refused(m.os, c)
    BY <1>3 DEF Refused, Calls
  <1> QED BY <1>1, <1>2, <1>4 DEF Built

(* What a refusing wrapper was given is dropped. *)
LEMMA RejectedBuilt ==
  ASSUME NEW o, NEW p, NEW c, NEW k, NEW X, NEW b, Holds(p, X \cup Own(b)), X \cap Own(b) = {},
         b.region # 0, b.meta # b.region, Untouched(o, p, X),
         p.failed \subseteq Calls \ {"unmap", "unlock", "lock", "heap"},
         p.failed = {} => ~Sane(p, c), p.failed # {} => p.err \in p.failed,
         NEW m \in Rejected(p, b)
  PROVE  Built(o, c, k, X, m)
  <1>1. PICK n \in DropBacking(p, b) : m = [os |-> n, b |-> NoBacking]
    BY DEF Rejected
  <1>2. Holds(n, X) /\ Untouched(p, n, X) /\ Told(p, n, {"unmap", "unlock"})
    BY <1>1, DropHolds
  <1>3. Untouched(o, n, X)
    BY <1>2, UntouchedTrans
  <1>4. n.failed \subseteq Calls /\ "lock" \notin n.failed
    BY <1>2 DEF Told, Calls
  <1>5. n.failed \ {"heap"} # {} => n.err \in n.failed
    BY <1>2 DEF Told
  <1>6. n.failed \ {"unmap", "unlock"} # {} \/ ~Admissible(n, c)
    <2>1. CASE p.failed = {}
      <3>1. ~Sane(n, c)
        BY <2>1, <1>2, SaneSame DEF Untouched
      <3> QED BY <3>1, AdmissibleSane
    <2>2. CASE p.failed # {}
      BY <2>2, <1>2 DEF Told
    <2> QED BY <2>1, <2>2
  <1>7. Refused(n, c)
    BY <1>4, <1>5, <1>6 DEF Refused
  <1> QED BY <1>1, <1>2, <1>3, <1>7 DEF Built
-----------------------------------------------------------------------------
(* The backings at the bottom. *)
LEMMA UnitFacts ==
  ASSUME NEW o, NEW c \in Confs, c.layers[1] = "huge" => c.hp >= Page
  PROVE  Unit(o, c) \in Nat \ {0} /\ RegionLen(o, c) \in Nat /\ RegionLen(o, c) >= c.size
  <1>1. Unit(o, c) \in Nat \ {0}
    BY ConfFacts, ArenaConstants DEF Unit, RoundingGranularity
  <1> QED BY <1>1, ConfFacts, RoundedUp DEF RegionLen

(* A fresh backing b over the mapping r. *)
FreshOk(o, c, X, b, r, extent, backed) ==
  /\ MapOk(r) /\ r.addr \in Nat /\ r.locked = FALSE /\ r.guards = {} /\ r.len = extent
  /\ r.backed = backed /\ LaidOut(o, c, r)
  /\ c.layers[1] # "locked" => BackingOk(o, c, 1, b)
  /\ Holds(o, X \cup Own(b)) /\ X \cap Own(b) = {} /\ Own(b) = {b.region}
  /\ BackingRec(b) /\ b.layers \in Seq(STRING) /\ Len(b.layers) = 1
  /\ b.layers[1] = c.layers[1] /\ b.meta = 0 /\ b.base = 0 /\ b.len = extent
  /\ b.committed = backed /\ b.region # 0

(* A new mapping is a backing, locked only when it is meant to be. *)
LEMMA MadeOk ==
  ASSUME NEW o, NEW c \in Confs, NEW X, NEW m, NEW addr \in Nat, NEW extent \in Nat, NEW backed \in Nat,
         backed <= extent, Made(o, m, X, c.layers[1], addr, extent, backed),
         extent = RegionLen(o, c), extent >= c.size,
         c.layers[1] # "lazy" \/ o.platform # "windows" => backed = extent,
         c.layers[1] \notin Buffers => addr = 0 /\ extent + Page <= RegionSpan /\ c.size > 0,
         c.layers[1] \in Buffers => addr = c.addr
  PROVE  FreshOk(m.os, c, X, m.b, m.os.maps[m.b.region], extent, backed)
  <1> DEFINE b == m.b
             q == b.region
             r == m.os.maps[q]
             at == IF addr = 0 THEN RegionAddr(q, c.layers[1]) ELSE addr
  <1>1. /\ BackingRec(b) /\ b.layers = <<c.layers[1]>> /\ b.meta = 0 /\ b.base = 0 /\ b.len = extent
        /\ b.committed = backed /\ q \in 1..MaxRegions /\ q \notin X
        /\ Holds(m.os, X \cup {q}) /\ Untouched(o, m.os, X)
        /\ r = Mapping(at, extent, backed)
    BY DEF Made
  <1>2. /\ RegionAddr(q, c.layers[1]) \in Nat /\ RegionAddr(q, c.layers[1]) % Page = 0
        /\ \A n \in Nat : n + Page <= RegionSpan => RegionAddr(q, c.layers[1]) + n <= UsizeMax
    BY <1>1, RegionPlace
  <1>3. at \in Nat
    BY <1>2
  <1> HIDE DEF b, q, r, at
  <1>4. MapOk(r) /\ r.addr = at /\ r.len = extent /\ r.backed = backed /\ r.locked = FALSE /\ r.guards = {}
    <2> DEFINE v == Mapping(at, extent, backed)
    <2>1. /\ MapOk(v) /\ v.addr = at /\ v.len = extent /\ v.backed = backed
          /\ v.locked = FALSE /\ v.guards = {}
      BY <1>3 DEF Mapping, MapOk
    <2> HIDE DEF v
    <2>2. r = v
      BY <1>1 DEF v
    <2> QED BY <2>1, <2>2
  <1>5. m.os.platform = o.platform
    BY <1>1 DEF Untouched
  <1>6. LaidOut(m.os, c, r)
    <2>1. r.len = RegionLen(m.os, c) /\ r.len >= c.size
      BY <1>4, <1>5, SaneSame
    <2>2. c.layers[1] \in Mappings => r.addr % Page = 0
      BY <1>2, <1>4 DEF Mappings, Buffers, at
    <2>3. c.layers[1] \notin Buffers => r.addr + r.len <= UsizeMax /\ c.size > 0
      BY <1>2, <1>4 DEF at
    <2>4. c.layers[1] \in Buffers /\ c.addr # 0 => r.addr = c.addr
      BY <1>4 DEF at
    <2> QED BY <2>1, <2>2, <2>3, <2>4 DEF LaidOut
  <1>7. Own(b) = {q} /\ q # 0
    <2>1. q # 0
      BY <1>1, ArenaConstants
    <2> QED BY <2>1, <1>1 DEF Own, q
  <1>8. b.layers \in Seq(STRING) /\ Len(b.layers) = 1 /\ b.layers[1] = c.layers[1]
    <2>1. c.layers[1] \in STRING
      BY ConfFacts
    <2> QED BY <1>1, <2>1
  <1>9. c.layers[1] # "locked" => BackingOk(m.os, c, 1, b)
    <2> SUFFICES ASSUME c.layers[1] # "locked" PROVE BackingOk(m.os, c, 1, b)
      OBVIOUS
    <2>1. ~Guarded(c, 1)
      BY ConfFacts DEF Guarded, Mappings, Buffers
    <2>a. r.locked = (c.layers[1] = "locked")
      BY <1>4
    <2>b. b.committed = r.backed /\ b.base + b.len <= r.len
      BY <1>1, <1>4
    <2>c. r.guards = {} /\ b.base = 0 /\ b.len = r.len
      BY <1>1, <1>4
    <2>d. c.layers[1] # "lazy" \/ m.os.platform # "windows" => r.backed = r.len
      BY <1>4, <1>5
    <2>2. RegionOk(m.os, c, Guarded(c, 1), b, r)
      BY <2>1, <2>a, <2>b, <2>c, <2>d DEF RegionOk
    <2>3. q \in DOMAIN m.os.maps /\ b.region = q /\ m.os.maps[b.region] = r
      BY <1>1 DEF Holds, q, r
    <2>4. \A i \in 1..1 : b.layers[i] = c.layers[i]
      BY <1>8
    <2>5. b.base \in Nat /\ b.len \in Nat
      BY <1>1
    <2> QED BY <1>1, <1>6, <1>7, <1>8, <2>2, <2>3, <2>4, <2>5 DEF BackingOk
  <1>10. b.region = q
    BY DEF q
  <1>11. FreshOk(m.os, c, X, b, r, extent, backed)
    BY <1>1, <1>3, <1>4, <1>6, <1>7, <1>8, <1>9, <1>10 DEF FreshOk
  <1> QED BY <1>11 DEF b, q, r

LEMMA MadeBuilt ==
  ASSUME NEW o, NEW c \in Confs, NEW X, NEW m, NEW addr \in Nat, NEW extent \in Nat, NEW backed \in Nat,
         backed <= extent, Made(o, m, X, c.layers[1], addr, extent, backed),
         extent = RegionLen(o, c), extent >= c.size, o.failed = {}, c.layers[1] # "locked",
         c.layers[1] # "lazy" \/ o.platform # "windows" => backed = extent,
         c.layers[1] \notin Buffers => addr = 0 /\ extent + Page <= RegionSpan /\ c.size > 0,
         c.layers[1] \in Buffers => addr = c.addr
  PROVE  Built(o, c, 1, X, m)
  <1>1. BackingOk(m.os, c, 1, m.b) /\ Holds(m.os, X \cup Own(m.b)) /\ X \cap Own(m.b) = {}
    <2>1. FreshOk(m.os, c, X, m.b, m.os.maps[m.b.region], extent, backed)
      BY MadeOk
    <2> QED BY <2>1 DEF FreshOk
  <1>2. m = [os |-> m.os, b |-> m.b] /\ Untouched(o, m.os, X) /\ m.os.failed = {} /\ m.b # NoBacking
    BY MadeIsBacking DEF Made
  <1> QED BY <1>1, <1>2 DEF Built

LEMMA MmapBuilt ==
  ASSUME NEW o, NEW c \in Confs, NEW X, Holds(o, X), o.failed = {}, c.layers[1] \in {"mmap", "lazy"},
         NEW m \in MmapNew(o, c.layers[1], c.size)
  PROVE  Built(o, c, 1, X, m)
  <1> DEFINE extent == AlignUp(c.size, Page)
             backed == CommittedAtStart(o, c.layers[1], extent)
  <1>1. c.size \in Nat /\ RegionLen(o, c) = extent
    BY ConfFacts DEF RegionLen, Unit, Mappings
  <1>2. CASE Refusal(o, m, "einval") \/ Refusal(o, m, "map")
    BY <1>2, RefusalBuilt
  <1>3. CASE Made(o, m, X, c.layers[1], 0, extent, backed) /\ extent + Page <= RegionSpan /\ c.size > 0
    <2>a. extent \in Nat /\ extent >= c.size
      BY <1>1, RoundedUp, ArenaConstants
    <2>1. extent \in Nat /\ backed \in Nat /\ backed <= extent
      BY <2>a DEF CommittedAtStart
    <2>2. c.layers[1] # "lazy" \/ o.platform # "windows" => backed = extent
      BY DEF CommittedAtStart
    <2>3. c.layers[1] # "locked" /\ c.layers[1] \notin Buffers
      BY DEF Buffers
    <2> HIDE DEF extent, backed
    <2> QED BY <1>1, <1>3, <2>a, <2>1, <2>2, <2>3, MadeBuilt
  <1> QED BY <1>1, <1>2, <1>3, MmapIs

LEMMA HugeBuilt ==
  ASSUME NEW o, NEW c \in Confs, NEW X, Holds(o, X), o.failed = {}, c.layers[1] = "huge",
         NEW m \in HugeNew(o, c.size, c.hp)
  PROVE  Built(o, c, 1, X, m)
  <1> DEFINE extent == RegionLen(o, c)
  <1>1. CASE m \in SyntheticEinval(o)
    <2>1. Refusal(o, m, "einval")
      BY <1>1, EinvalIs
    <2> QED BY <2>1, RefusalBuilt
  <1>2. CASE c.size # 0 /\ c.hp >= Page /\ m \in OsMap(o, "huge", extent, extent)
    <2>1. extent \in Nat /\ c.size > 0 /\ extent <= extent /\ extent >= c.size
      BY <1>2, UnitFacts, ConfFacts
    <2>2. c.layers[1] # "locked" /\ c.layers[1] \notin Buffers /\ c.layers[1] = "huge"
      BY DEF Buffers
    <2> HIDE DEF extent
    <2>3. Refusal(o, m, "map") \/ (Made(o, m, X, "huge", 0, extent, extent) /\ extent + Page <= RegionSpan)
      BY <1>2, <2>1, OsMapIs
    <2>4. CASE Refusal(o, m, "map")
      BY <2>4, RefusalBuilt
    <2>5. CASE Made(o, m, X, "huge", 0, extent, extent) /\ extent + Page <= RegionSpan
      <3>1. extent = RegionLen(o, c)
        BY DEF extent
      <3> QED BY <2>1, <2>2, <2>5, <3>1, MadeBuilt
    <2> QED BY <2>3, <2>4, <2>5
  <1>3. RegionLen(o, c) = AlignUp(c.size, RoundingGranularity(o, c.hp))
    BY DEF RegionLen, Unit
  <1>4. c.hp \in Nat /\ Page \in Nat
    BY ConfFacts, ArenaConstants
  <1> QED BY <1>1, <1>2, <1>3, <1>4 DEF HugeNew, OsMapHuge
LEMMA HeapBuilt ==
  ASSUME NEW o, NEW c \in Confs, NEW X, Holds(o, X), o.failed = {}, c.layers[1] = "heap",
         NEW m \in HeapNew(o, c.size)
  PROVE  Built(o, c, 1, X, m)
  <1>0. OsRec(o) /\ Untouched(o, o, X)
    BY DEF Holds, OsOk, Untouched
  <1>1. CASE \E f \in MayFail(o, "heap") : m = [os |-> [f EXCEPT !.err = o.err], b |-> NoBacking]
    <2>1. PICK f \in MayFail(o, "heap") : m = [os |-> [f EXCEPT !.err = o.err], b |-> NoBacking]
      BY <1>1
    <2>2. Fell(o, f, "heap")
      BY <1>0, MayFailIs
    <2> DEFINE n == [f EXCEPT !.err = o.err]
    <2>3. /\ OsRec(n) /\ n.maps = o.maps /\ n.lost = o.lost /\ n.platform = o.platform
          /\ n.failed = {"heap"}
      BY <2>2 DEF OsRec, Fell
    <2>4. m.os = n /\ m.b = NoBacking /\ m = [os |-> m.os, b |-> m.b]
      BY <2>1
    <2> HIDE DEF n
    <2>5. Holds(n, X) /\ Untouched(o, n, X)
      BY <2>3 DEF Holds, OsOk, Untouched
    <2>6. Refused(n, c)
      BY <2>3 DEF Refused, Calls
    <2> QED BY <2>4, <2>5, <2>6 DEF Built
  <1>2. CASE (c.size = 0 \/ NoRoom(o, c.size)) /\ m = [os |-> o, b |-> NoBacking]
    <2>1. Contains(c.layers, "heap")
      BY ConfFacts DEF Contains
    <2>2. ~Admissible(o, c)
      <3>1. CASE c.size = 0
        <4>1. ~Sane(o, c)
          BY <2>1, <3>1 DEF Sane
        <4> QED BY <4>1, AdmissibleSane
      <3>2. CASE NoRoom(o, c.size)
        BY <2>1, <3>2, AdmissibleSane
      <3> QED BY <1>2, <3>1, <3>2
    <2>3. Refused(o, c)
      BY <2>2 DEF Refused
    <2>4. m.os = o /\ m.b = NoBacking /\ m = [os |-> m.os, b |-> m.b]
      BY <1>2
    <2> QED BY <1>0, <2>3, <2>4 DEF Built
  <1>3. CASE c.size # 0 /\ ~NoRoom(o, c.size) /\ m = Mapped(o, "heap", 0, c.size, c.size)
    <2>1. c.size \in Nat /\ c.size > 0
      BY <1>3, ConfFacts
    <2>2. FreeRegions(o) # {} /\ c.size + Page <= RegionSpan
      BY <1>3, <2>1, ArenaConstants DEF NoRoom
    <2>3. Made(o, m, X, "heap", 0, c.size, c.size)
      BY <1>3, <2>1, <2>2, MappedIs
    <2>4. c.size = RegionLen(o, c) /\ c.size >= c.size
      BY <2>1 DEF RegionLen, Unit, Mappings, AlignUp
    <2>5. c.layers[1] # "locked" /\ c.layers[1] \notin Buffers
      BY DEF Buffers
    <2> QED BY <2>1, <2>2, <2>3, <2>4, <2>5, MadeBuilt
  <1> QED BY <1>1, <1>2, <1>3 DEF HeapNew

LEMMA BufferBuilt ==
  ASSUME NEW o, NEW c \in Confs, NEW X, Holds(o, X), o.failed = {}, c.layers[1] \in Buffers,
         NEW m \in BufferNew(o, c.layers[1], c.size, c.addr)
  PROVE  Built(o, c, 1, X, m)
  <1>1. c.size \in Nat /\ c.addr \in Nat
    BY ConfFacts
  <1>2. FreeRegions(o) # {} /\ m = Mapped(o, c.layers[1], c.addr, c.size, c.size)
    BY DEF BufferNew
  <1>3. Made(o, m, X, c.layers[1], c.addr, c.size, c.size)
    BY <1>1, <1>2, MappedIs
  <1>4. c.size = RegionLen(o, c) /\ c.size >= c.size
    BY <1>1 DEF RegionLen, Unit, Mappings, Buffers, AlignUp
  <1>5. c.layers[1] # "locked"
    BY DEF Buffers
  <1> QED BY <1>1, <1>3, <1>4, <1>5, MadeBuilt

LEMMA LockedBuilt ==
  ASSUME NEW o, NEW c \in Confs, NEW X, Holds(o, X), o.failed = {}, c.layers[1] = "locked",
         NEW m \in LockedNew(o, c.size)
  PROVE  Built(o, c, 1, X, m)
  <1> DEFINE extent == AlignUp(c.size, Page)
  <1>0. c.size \in Nat /\ RegionLen(o, c) = extent
    BY ConfFacts DEF RegionLen, Unit, Mappings
  <1>1. PICK v \in MmapNew(o, "locked", c.size) :
          m \in IF v.b = NoBacking THEN {v}
                ELSE UNION {IF l.maps[v.b.region].locked THEN {[v EXCEPT !.os = l]}
                            ELSE {[os |-> [u EXCEPT !.err = l.err], b |-> NoBacking] :
                                    u \in OsUnmap(l, v.b.region)} : l \in OsLock(v.os, v.b.region)}
    BY DEF LockedNew
  <1>2. CASE Refusal(o, v, "einval") \/ Refusal(o, v, "map")
    <2>1. v.b = NoBacking
      BY <1>2 DEF Refusal
    <2>2. m = v
      BY <1>1, <2>1
    <2> QED BY <1>2, <2>2, RefusalBuilt
  <1>3. CASE Made(o, v, X, "locked", 0, extent, extent) /\ extent + Page <= RegionSpan /\ c.size > 0
    <2> DEFINE b == v.b
               r == b.region
               q == v.os.maps[r]
    <2>0. extent \in Nat /\ extent <= extent /\ extent >= c.size
      <3>1. extent \in Nat /\ extent >= c.size
        BY <1>0, RoundedUp, ArenaConstants
      <3> QED BY <3>1
    <2>1. /\ MapOk(q) /\ q.addr \in Nat /\ q.locked = FALSE /\ q.guards = {} /\ q.len = extent
          /\ q.backed = extent
          /\ LaidOut(v.os, c, q) /\ Holds(v.os, X \cup Own(b)) /\ X \cap Own(b) = {} /\ Own(b) = {r}
          /\ BackingRec(b) /\ b.layers \in Seq(STRING) /\ Len(b.layers) = 1
          /\ b.layers[1] = c.layers[1] /\ b.meta = 0 /\ b.base = 0 /\ b.len = extent
          /\ b.committed = extent /\ r # 0
      <3>1. c.layers[1] \notin Buffers /\ Made(o, v, X, c.layers[1], 0, extent, extent)
        BY <1>3 DEF Buffers
      <3>2. 0 \in Nat /\ extent = RegionLen(o, c) /\ extent + Page <= RegionSpan /\ c.size > 0
        BY <1>0, <1>3
      <3> HIDE DEF extent
      <3>3. FreshOk(v.os, c, X, b, q, extent, extent)
        BY <2>0, <3>1, <3>2, MadeOk
      <3> QED BY <3>3 DEF FreshOk
    <2>2. v.b # NoBacking /\ v = [os |-> v.os, b |-> v.b] /\ Untouched(o, v.os, X)
          /\ v.os.failed = {}
      BY <1>3, MadeIsBacking DEF Made
    <2>3. PICK l \in OsLock(v.os, r) :
            m \in IF l.maps[r].locked THEN {[v EXCEPT !.os = l]}
                  ELSE {[os |-> [u EXCEPT !.err = l.err], b |-> NoBacking] : u \in OsUnmap(l, r)}
      BY <1>1, <2>2
    <2> HIDE DEF extent, b, r, q
    <2>4. OsOk(v.os) /\ OsRec(v.os) /\ r \in DOMAIN v.os.maps /\ r \notin X
      BY <2>1 DEF Holds, OsOk
    <2>5. CASE l \in MayFail(v.os, "lock")
      <3>1. Fell(v.os, l, "lock")
        BY <2>4, <2>5, MayFailIs
      <3>2. Holds(l, X \cup {r}) /\ Untouched(v.os, l, X \cup {r})
        BY <3>1, <2>1, FellHolds
      <3>3. l.maps[r].locked = FALSE
        BY <3>1, <2>1 DEF Fell, q
      <3>4. PICK u \in OsUnmap(l, r) : m = [os |-> [u EXCEPT !.err = l.err], b |-> NoBacking]
        BY <2>3, <3>3
      <3>5. Holds(u, X) /\ Untouched(l, u, X) /\ Told(l, u, {"unmap"})
        BY <3>2, <2>4, UnmapHolds
      <3> DEFINE n == [u EXCEPT !.err = l.err]
      <3>6. OsRec(u)
        BY <3>5 DEF Holds, OsOk
      <3>7. /\ OsRec(n) /\ n.maps = u.maps /\ n.lost = u.lost /\ n.platform = u.platform
            /\ n.failed = u.failed /\ n.err = l.err
        BY <3>6 DEF OsRec
      <3>8. m.os = n /\ m.b = NoBacking /\ m = [os |-> m.os, b |-> m.b]
        BY <3>4
      <3> HIDE DEF n
      <3>9. Holds(n, X)
        BY <3>5, <3>7 DEF Holds, OsOk
      <3>10. Untouched(o, n, X)
        BY <2>2, <3>2, <3>5, <3>7 DEF Untouched
      <3>11. n.err = "lock" /\ {"lock"} \subseteq n.failed /\ n.failed \subseteq {"lock", "unmap"}
        BY <2>2, <3>1, <3>5, <3>7 DEF Fell, Told
      <3>12. Refused(n, c)
        BY <3>11 DEF Refused, Calls
      <3> QED BY <3>8, <3>9, <3>10, <3>12 DEF Built
    <2>6. CASE l = [v.os EXCEPT !.maps[r].locked = TRUE]
      <3> DEFINE w == WithLock(v.os.maps[r], TRUE)
      <3>1. /\ MapOk(w) /\ w.addr = q.addr /\ w.len = q.len /\ w.backed = q.backed
            /\ w.guards = q.guards /\ w.locked = TRUE /\ Changed(v.os, l, r, w)
        <4>1. Relocked(v.os.maps[r], w, TRUE) /\ Changed(v.os, Locking(v.os, r, TRUE), r, w)
          <5> DEFINE p == v.os
          <5>1. OsOk(p) /\ r \in DOMAIN p.maps /\ TRUE \in BOOLEAN
            BY <2>4
          <5> HIDE DEF p
          <5>2. /\ Relocked(p.maps[r], WithLock(p.maps[r], TRUE), TRUE)
                /\ Changed(p, Locking(p, r, TRUE), r, WithLock(p.maps[r], TRUE))
            BY <5>1, LockedIs
          <5> QED BY <5>2 DEF p
        <4> HIDE DEF w
        <4>2. q = v.os.maps[r]
          BY DEF q
        <4>3. l = Locking(v.os, r, TRUE)
          BY <2>6 DEF Locking
        <4>4. Changed(v.os, l, r, w)
          BY <4>1, <4>3
        <4>5. Relocked(q, w, TRUE)
          BY <4>1, <4>2
        <4> QED BY <4>4, <4>5 DEF Relocked
      <3> HIDE DEF w
      <3>2. l.maps[r] = w
        BY <3>1 DEF Changed
      <3>3. m = [v EXCEPT !.os = l]
        BY <2>3, <3>1, <3>2
      <3>4. m.os = l /\ m.b = b /\ m = [os |-> m.os, b |-> m.b]
        BY <3>3, <2>2 DEF b
      <3>5. Holds(l, X \cup Own(b))
        BY <2>1, <3>1, ChangedStill
      <3>6. Untouched(v.os, l, X) /\ l.failed = {} /\ l.platform = v.os.platform
        BY <2>1, <2>2, <2>4, <3>1 DEF Changed, Untouched, Holds
      <3>7. Untouched(o, l, X)
        BY <2>2, <3>6, UntouchedTrans
      <3>8. LaidOut(l, c, w)
        <4>1. RegionLen(l, c) = RegionLen(v.os, c)
          BY <3>6, SaneSame
        <4> QED BY <2>1, <3>1, <4>1 DEF LaidOut
      <3>9. ~Guarded(c, 1)
        BY DEF Guarded
      <3>10. RegionOk(l, c, Guarded(c, 1), b, w)
        <4>1. w.locked = (c.layers[1] = "locked")
          BY <3>1
        <4>2. b.committed = w.backed /\ b.base + b.len <= w.len
          BY <2>0, <2>1, <3>1
        <4>3. w.guards = {} /\ b.base = 0 /\ b.len = w.len /\ w.backed = w.len
          BY <2>1, <3>1
        <4> QED BY <3>9, <4>1, <4>2, <4>3 DEF RegionOk
      <3>11. BackingOk(l, c, 1, b)
        <4>1. r \in DOMAIN l.maps /\ b.region = r
          BY <3>1, <2>4 DEF Changed, r
        <4>2. \A i \in 1..1 : b.layers[i] = c.layers[i]
          BY <2>1
        <4>3. b.base \in Nat /\ b.len \in Nat
          BY <2>0, <2>1
        <4> QED BY <2>1, <3>2, <3>8, <3>10, <4>1, <4>2, <4>3 DEF BackingOk
      <3> QED BY <2>1, <2>2, <3>4, <3>5, <3>6, <3>7, <3>11 DEF Built, b
    <2> QED BY <2>3, <2>5, <2>6 DEF OsLock
  <1>4. CommittedAtStart(o, "locked", extent) = extent
    BY DEF CommittedAtStart
  <1> QED
    <2>1. \/ Refusal(o, v, "einval")
          \/ Refusal(o, v, "map")
          \/ /\ Made(o, v, X, "locked", 0, extent, CommittedAtStart(o, "locked", extent))
             /\ extent + Page <= RegionSpan /\ c.size > 0
      BY <1>0, <1>1, MmapIs
    <2> QED BY <1>2, <1>3, <1>4, <2>1

(* The first layer. *)
LEMMA BottomBuilt ==
  ASSUME NEW o, NEW c \in Confs, NEW X, Holds(o, X), o.failed = {}, NEW m \in BottomNew(o, c)
  PROVE  Built(o, c, 1, X, m)
  <1>1. CASE c.layers[1] \in {"mmap", "lazy"}
    BY <1>1, MmapBuilt DEF BottomNew
  <1>2. CASE c.layers[1] = "locked"
    BY <1>2, LockedBuilt DEF BottomNew
  <1>3. CASE c.layers[1] = "huge"
    BY <1>3, HugeBuilt DEF BottomNew
  <1>4. CASE c.layers[1] = "heap"
    BY <1>4, HeapBuilt DEF BottomNew
  <1>5. CASE c.layers[1] \in Buffers
    BY <1>5, BufferBuilt DEF BottomNew, Buffers
  <1> QED BY <1>1, <1>2, <1>3, <1>4, <1>5, ConfFacts DEF Mappings
-----------------------------------------------------------------------------
(* The wrappers. *)
LEMMA BackingKept ==
  ASSUME NEW o, NEW n, NEW c, NEW k, NEW b, NEW Y, BackingOk(o, c, k, b), Untouched(o, n, Y),
         b.region \in Y, b.region \in DOMAIN n.maps
  PROVE  BackingOk(n, c, k, b)
  <1>1. n.platform = o.platform /\ n.maps[b.region] = o.maps[b.region]
    BY DEF Untouched
  <1>2. RegionLen(n, c) = RegionLen(o, c)
    BY <1>1, SaneSame
  <1>3. LaidOut(n, c, n.maps[b.region])
    BY <1>1, <1>2 DEF LaidOut, BackingOk
  <1>4. RegionOk(n, c, Guarded(c, k), b, n.maps[b.region])
    BY <1>1 DEF RegionOk, BackingOk
  <1> QED BY <1>3, <1>4 DEF BackingOk

LEMMA LayersGrow ==
  ASSUME NEW c \in Confs, NEW k \in 2..Len(c.layers), NEW s \in Seq(STRING), Len(s) = k - 1,
         \A i \in 1..(k - 1) : s[i] = c.layers[i], NEW layer, layer = c.layers[k]
  PROVE  /\ Append(s, layer) \in Seq(STRING) /\ Len(Append(s, layer)) = k
         /\ \A i \in 1..k : Append(s, layer)[i] = c.layers[i]
  <1>1. Len(c.layers) \in Nat /\ c.layers \in Seq(STRING) /\ k \in Nat
    BY ConfFacts
  <1>2. layer \in STRING
    BY <1>1
  <1> QED BY <1>1, <1>2

LEMMA GuardedGrows ==
  ASSUME NEW c \in Confs, NEW k \in 2..Len(c.layers)
  PROVE  /\ c.layers[k] # "guard" => (Guarded(c, k) <=> Guarded(c, k - 1))
         /\ c.layers[k] = "guard" => Guarded(c, k) /\ ~Guarded(c, k - 1)
  <1>1. Len(c.layers) \in Nat /\ k \in Nat
    BY ConfFacts
  <1>2. ASSUME c.layers[k] # "guard", Guarded(c, k) PROVE Guarded(c, k - 1)
    <2>1. PICK i \in 1..k : c.layers[i] = "guard"
      BY <1>2 DEF Guarded
    <2>2. i \in 1..(k - 1)
      BY <1>1, <1>2, <2>1
    <2> QED BY <2>1, <2>2 DEF Guarded
  <1>3. ASSUME Guarded(c, k - 1) PROVE Guarded(c, k)
    BY <1>1, <1>3 DEF Guarded
  <1>4. ASSUME c.layers[k] = "guard" PROVE Guarded(c, k) /\ ~Guarded(c, k - 1)
    <2>1. Guarded(c, k)
      BY <1>1, <1>4 DEF Guarded
    <2>2. ASSUME NEW i \in 1..(k - 1), c.layers[i] = "guard" PROVE FALSE
      <3>1. CASE i = 1
        BY <2>2, <3>1, ConfFacts DEF Mappings, Buffers
      <3>2. CASE i # 1
        <4>1. i \in 2..(k - 1)
          BY <1>1, <3>2
        <4> QED BY <4>1, <1>4, <2>2, ConfFacts
      <3> QED BY <3>1, <3>2
    <2> QED BY <2>1, <2>2 DEF Guarded
  <1> QED BY <1>2, <1>3, <1>4

LEMMA LayerWrapped ==
  ASSUME NEW c \in Confs, NEW k \in 2..Len(c.layers)
  PROVE  Contains(c.layers, c.layers[k])
  <1>1. k \in 1..Len(c.layers)
    BY ConfFacts
  <1> QED BY <1>1 DEF Contains

(* A layer put on top of a backing, with a mapping for its metadata. *)
Added(b, layer) == [b EXCEPT !.layers = Append(@, layer)]

Layered(b, layers, meta, base, extent) ==
  [layers |-> layers, region |-> b.region, meta |-> meta, base |-> base, len |-> extent,
   committed |-> b.committed]

LEMMA LayeredIs ==
  ASSUME NEW b, NEW layers, NEW meta, NEW base, NEW extent
  PROVE  /\ BackingRec(Layered(b, layers, meta, base, extent))
         /\ Layered(b, layers, meta, base, extent).layers = layers
         /\ Layered(b, layers, meta, base, extent).region = b.region
         /\ Layered(b, layers, meta, base, extent).meta = meta
         /\ Layered(b, layers, meta, base, extent).base = base
         /\ Layered(b, layers, meta, base, extent).len = extent
         /\ Layered(b, layers, meta, base, extent).committed = b.committed
BY DEF Layered, BackingRec

LEMMA AddedIs ==
  ASSUME NEW b, BackingRec(b), NEW layer
  PROVE  Added(b, layer) = Layered(b, Append(b.layers, layer), b.meta, b.base, b.len)
BY DEF Added, Layered, BackingRec

(* A layer that is only a name on top of the backing. *)
LEMMA PlainLayer ==
  ASSUME NEW o, NEW c \in Confs, NEW k \in 2..Len(c.layers), NEW b, BackingOk(o, c, k - 1, b),
         c.layers[k] \notin {"guard", "split"}
  PROVE  /\ BackingOk(o, c, k, Added(b, c.layers[k])) /\ Own(Added(b, c.layers[k])) = Own(b)
         /\ Added(b, c.layers[k]) # NoBacking
  <1> DEFINE s == Append(b.layers, c.layers[k])
             d == Added(b, c.layers[k])
  <1>0. BackingRec(b) /\ Len(c.layers) \in Nat /\ k \in Nat
    BY ConfFacts DEF BackingOk
  <1>a. d = Layered(b, s, b.meta, b.base, b.len)
    BY <1>0, AddedIs
  <1>2. s \in Seq(STRING) /\ Len(s) = k /\ \A i \in 1..k : s[i] = c.layers[i]
    BY LayersGrow DEF BackingOk
  <1> HIDE DEF s, d
  <1>1. /\ BackingRec(d) /\ d.layers = s /\ d.region = b.region /\ d.meta = b.meta
        /\ d.base = b.base /\ d.len = b.len /\ d.committed = b.committed
    BY <1>a, LayeredIs
  <1>b. s # <<>>
    BY <1>2, <1>0
  <1>3. d # NoBacking
    BY <1>1, <1>b DEF NoBacking
  <1>4. Guarded(c, k) <=> Guarded(c, k - 1)
    BY GuardedGrows
  <1>5. RegionOk(o, c, Guarded(c, k), d, o.maps[d.region])
    BY <1>1, <1>4 DEF RegionOk, BackingOk
  <1>6. d.meta # 0 => \E i \in 2..k : c.layers[i] = "split"
    BY <1>0, <1>1 DEF BackingOk
  <1>7. BackingOk(o, c, k, d)
    BY <1>1, <1>2, <1>5, <1>6 DEF BackingOk
  <1>8. Own(d) = Own(b)
    BY <1>1 DEF Own
  <1> QED BY <1>3, <1>7, <1>8 DEF d

LEMMA HugeAlignedBuilt ==
  ASSUME NEW o, NEW c \in Confs, NEW k \in 2..Len(c.layers), NEW b, NEW X, Holds(o, X \cup Own(b)),
         X \cap Own(b) = {}, BackingOk(o, c, k - 1, b), o.failed = {}, c.layers[k] = "hpaligned",
         NEW m \in HugeAlignedNew(o, b, c.hp)
  PROVE  Built(o, c, k, X, m)
  <1>1. Untouched(o, o, X) /\ b.region # 0 /\ b.meta # b.region
    BY DEF Untouched, BackingOk
  <1>2. CASE (~IsPowerOfTwo(c.hp) \/ c.hp < Page) /\ m \in Rejected(o, b)
    <2>1. Contains(c.layers, "hpaligned")
      BY LayerWrapped
    <2>2. ~(c.hp >= Page) \/ ~IsPowerOfTwo(c.hp)
      <3>1. c.hp \in Nat /\ Page \in Nat
        BY ConfFacts, ArenaConstants
      <3> QED BY <1>2, <3>1
    <2>3. ~Sane(o, c)
      BY <2>1, <2>2 DEF Sane
    <2> QED BY <1>1, <1>2, <2>3, RejectedBuilt
  <1>3. CASE m = [os |-> o, b |-> [b EXCEPT !.layers = Append(@, "hpaligned")]]
    <2> DEFINE d == Added(b, c.layers[k])
    <2>a. c.layers[k] \notin {"guard", "split"}
      OBVIOUS
    <2>1. BackingOk(o, c, k, d) /\ Own(d) = Own(b) /\ d # NoBacking
      BY <2>a, PlainLayer
    <2>2. m = [os |-> o, b |-> d]
      BY <1>3 DEF Added
    <2> HIDE DEF d
    <2>3. m.os = o /\ m.b = d /\ m = [os |-> m.os, b |-> m.b]
      BY <2>2
    <2> QED BY <1>1, <2>1, <2>3 DEF Built
  <1> QED BY <1>2, <1>3 DEF HugeAlignedNew

LEMMA NumaBuilt ==
  ASSUME NEW o, NEW c \in Confs, NEW k \in 2..Len(c.layers), NEW b, NEW X, Holds(o, X \cup Own(b)),
         X \cap Own(b) = {}, BackingOk(o, c, k - 1, b), o.failed = {}, c.layers[k] = "numa",
         NEW m \in NumaNew(o, b, c.nodes)
  PROVE  Built(o, c, k, X, m)
  <1>1. Untouched(o, o, X) /\ b.region # 0 /\ b.meta # b.region /\ OsRec(o)
    BY DEF Untouched, BackingOk, Holds, OsOk
  <1>2. CASE c.nodes = {} /\ m \in Rejected(o, b)
    <2>1. Contains(c.layers, "numa")
      BY LayerWrapped
    <2>2. ~Sane(o, c)
      BY <1>2, <2>1 DEF Sane
    <2> QED BY <1>1, <1>2, <2>2, RejectedBuilt
  <1>3. ASSUME NEW p \in OsMbind(o),
               m \in IF "mbind" \in p.failed THEN Rejected(p, b)
                     ELSE {[os |-> p, b |-> [b EXCEPT !.layers = Append(@, "numa")]]}
        PROVE  Built(o, c, k, X, m)
    <2>1. CASE p = o
      <3> DEFINE d == Added(b, c.layers[k])
      <3>1. BackingOk(o, c, k, d) /\ Own(d) = Own(b) /\ d # NoBacking
        BY PlainLayer
      <3>2. m = [os |-> o, b |-> d]
        <4>1. "mbind" \notin p.failed
          BY <2>1
        <4> QED BY <1>3, <2>1, <4>1 DEF Added
      <3> HIDE DEF d
      <3>3. m.os = o /\ m.b = d /\ m = [os |-> m.os, b |-> m.b]
        BY <3>2
      <3> QED BY <1>1, <3>1, <3>3 DEF Built
    <2>2. CASE p \in MayFail(o, "mbind")
      <3>1. Fell(o, p, "mbind")
        BY <1>1, <2>2, MayFailIs
      <3>2. p.failed = {"mbind"} /\ p.err = "mbind" /\ m \in Rejected(p, b)
        BY <1>3, <3>1 DEF Fell
      <3>3. Holds(p, X \cup Own(b)) /\ Untouched(o, p, X \cup Own(b))
        BY <3>1, FellHolds
      <3>4. Untouched(o, p, X) /\ p.failed \subseteq Calls \ {"unmap", "unlock", "lock", "heap"}
        BY <3>2, <3>3 DEF Untouched, Calls
      <3> QED BY <1>1, <3>2, <3>3, <3>4, RejectedBuilt
    <2> QED BY <1>3, <2>1, <2>2 DEF OsMbind
  <1> QED BY <1>2, <1>3 DEF NumaNew

LEMMA SplitBuilt ==
  ASSUME NEW o, NEW c \in Confs, NEW k \in 2..Len(c.layers), NEW b, NEW X, Holds(o, X \cup Own(b)),
         X \cap Own(b) = {}, BackingOk(o, c, k - 1, b), o.failed = {}, c.layers[k] = "split",
         NEW m \in SplitNew(o, b, c.meta)
  PROVE  Built(o, c, k, X, m)
  <1> DEFINE Y == X \cup Own(b)
             extent == AlignUp(c.meta, Page)
             backed == CommittedAtStart(o, "mmap", extent)
  <1>1. PICK v \in MmapNew(o, "mmap", c.meta) :
          m \in IF v.b = NoBacking THEN Rejected(v.os, b)
                ELSE {[os |-> v.os, b |-> [b EXCEPT !.layers = Append(@, "split"), !.meta = v.b.region]]}
    BY DEF SplitNew
  <1>2. b.region # 0 /\ b.meta # b.region /\ BackingRec(b) /\ k \in Nat /\ Len(c.layers) \in Nat
    BY ConfFacts DEF BackingOk
  <1>3. ASSUME NEW call \in {"einval", "map"}, Refusal(o, v, call) PROVE Built(o, c, k, X, m)
    <2>1. Fell(o, v.os, call) /\ v.b = NoBacking
      BY <1>3 DEF Refusal
    <2>2. Holds(v.os, Y) /\ Untouched(o, v.os, Y)
      BY <2>1, FellHolds
    <2>3. v.os.failed = {call} /\ v.os.err = call /\ m \in Rejected(v.os, b)
      BY <1>1, <2>1 DEF Fell
    <2>4. Untouched(o, v.os, X) /\ v.os.failed \subseteq Calls \ {"unmap", "unlock", "lock", "heap"}
      BY <2>2, <2>3 DEF Untouched, Calls
    <2> QED BY <1>2, <2>2, <2>3, <2>4, RejectedBuilt
  <1>4. CASE Made(o, v, Y, "mmap", 0, extent, backed)
    <2> DEFINE q == v.b.region
               s == Append(b.layers, "split")
               d == [b EXCEPT !.layers = s, !.meta = q]
    <2>1. /\ q \in 1..MaxRegions /\ q \notin Y /\ Holds(v.os, Y \cup {q}) /\ Untouched(o, v.os, Y)
          /\ v.os.failed = {} /\ v.b # NoBacking
      BY <1>4, MadeIsBacking DEF Made
    <2>2. m = [os |-> v.os, b |-> d]
      BY <1>1, <2>1
    <2>a. d = Layered(b, s, q, b.base, b.len)
      <3> HIDE DEF s, q
      <3> DEFINE e == [layers |-> s, region |-> b.region, meta |-> b.meta, base |-> b.base,
                       len |-> b.len, committed |-> b.committed]
      <3>1. [b EXCEPT !.layers = s] = e
        BY <1>2 DEF BackingRec
      <3>2. d = [[b EXCEPT !.layers = s] EXCEPT !.meta = q]
        OBVIOUS
      <3>3. [e EXCEPT !.meta = q] = Layered(b, s, q, b.base, b.len)
        BY DEF Layered
      <3> HIDE DEF d, e
      <3> QED BY <3>1, <3>2, <3>3
    <2>4. s \in Seq(STRING) /\ Len(s) = k /\ \A i \in 1..k : s[i] = c.layers[i]
      <3>1. /\ b.layers \in Seq(STRING) /\ Len(b.layers) = k - 1
            /\ \A i \in 1..(k - 1) : b.layers[i] = c.layers[i]
        BY DEF BackingOk
      <3>2. s = Append(b.layers, c.layers[k])
        OBVIOUS
      <3> QED BY <3>1, <3>2, LayersGrow
    <2> HIDE DEF s, d
    <2>3. /\ BackingRec(d) /\ d.layers = s /\ d.region = b.region /\ d.meta = q
          /\ d.base = b.base /\ d.len = b.len /\ d.committed = b.committed
      <3> HIDE DEF q
      <3> QED BY <2>a, LayeredIs
    <2>b. s # <<>>
      BY <1>2, <2>4
    <2>5. d # NoBacking
      BY <2>3, <2>b DEF NoBacking
    <2> HIDE DEF d, s, q, Y
    <2>6. b.meta = 0
      BY <1>2, ConfFacts DEF BackingOk
    <2>7. Own(b) = {b.region} /\ q # 0
      BY <1>2, <2>1, <2>6 DEF Own
    <2>8. Own(d) = {b.region, q}
      BY <1>2, <2>3, <2>7 DEF Own
    <2>9. X \cup Own(d) = Y \cup {q} /\ X \cap Own(d) = {} /\ b.region \in Y
      BY <2>1, <2>7, <2>8 DEF Y
    <2>10. b.region \in DOMAIN v.os.maps /\ v.os.platform = o.platform
           /\ v.os.maps[b.region] = o.maps[b.region]
      BY <2>1, <2>9 DEF Holds, Untouched
    <2>11. Guarded(c, k) <=> Guarded(c, k - 1)
      BY GuardedGrows
    <2>12. RegionOk(v.os, c, Guarded(c, k), d, v.os.maps[d.region])
      BY <2>3, <2>10, <2>11 DEF RegionOk, BackingOk
    <2>13. LaidOut(v.os, c, v.os.maps[d.region])
      <3>1. RegionLen(v.os, c) = RegionLen(o, c)
        BY <2>10, SaneSame
      <3> QED BY <2>3, <2>10, <3>1 DEF LaidOut, BackingOk
    <2>14. d.meta # d.region /\ \E i \in 2..k : c.layers[i] = "split"
      BY <1>2, <2>1, <2>3, <2>9
    <2>15. BackingOk(v.os, c, k, d)
      BY <1>2, <2>3, <2>4, <2>10, <2>12, <2>13, <2>14 DEF BackingOk
    <2>16. m.os = v.os /\ m.b = d /\ m = [os |-> m.os, b |-> m.b]
      BY <2>2
    <2>17. Untouched(o, v.os, X)
      BY <2>1 DEF Untouched, Y
    <2> QED BY <2>1, <2>5, <2>9, <2>15, <2>16, <2>17 DEF Built
  <1> QED
    <2>1. c.meta \in Nat
      BY ConfFacts
    <2>2. Refusal(o, v, "einval") \/ Refusal(o, v, "map") \/ Made(o, v, Y, "mmap", 0, extent, backed)
      BY <1>1, <2>1, MmapIs
    <2> QED BY <1>3, <1>4, <2>2
(* Guard pages. *)
Fenced(m, off, extent) == [m EXCEPT !.guards = @ \cup off..(off + extent - 1)]

LEMMA FencedIs ==
  ASSUME NEW o, OsOk(o), NEW r \in DOMAIN o.maps, NEW off, NEW extent
  PROVE  /\ MapOk(Fenced(o.maps[r], off, extent))
         /\ Fenced(o.maps[r], off, extent).addr = o.maps[r].addr
         /\ Fenced(o.maps[r], off, extent).len = o.maps[r].len
         /\ Fenced(o.maps[r], off, extent).backed = o.maps[r].backed
         /\ Fenced(o.maps[r], off, extent).locked = o.maps[r].locked
         /\ Fenced(o.maps[r], off, extent).mem = o.maps[r].mem
         /\ Fenced(o.maps[r], off, extent).guards = o.maps[r].guards \cup off..(off + extent - 1)
         /\ Changed(o, [o EXCEPT !.maps[r].guards = @ \cup off..(off + extent - 1)], r,
                    Fenced(o.maps[r], off, extent))
  <1> DEFINE v == o.maps[r].guards \cup off..(off + extent - 1)
             m == [o.maps[r] EXCEPT !.guards = v]
  <1>1. MapOk(o.maps[r])
    BY DEF OsOk
  <1> HIDE DEF v
  <1>2. /\ MapOk(m) /\ m.addr = o.maps[r].addr /\ m.len = o.maps[r].len
        /\ m.backed = o.maps[r].backed /\ m.locked = o.maps[r].locked
        /\ m.mem = o.maps[r].mem /\ m.guards = v
    BY <1>1 DEF MapOk
  <1>3. [o EXCEPT !.maps[r].guards = v] = [o EXCEPT !.maps = [o.maps EXCEPT ![r] = m]]
    OBVIOUS
  <1>4. Changed(o, [o EXCEPT !.maps = [o.maps EXCEPT ![r] = m]], r, m)
    BY FieldSet
  <1> HIDE DEF m
  <1>5. Changed(o, [o EXCEPT !.maps[r].guards = v], r, m)
    BY <1>3, <1>4
  <1>6. Fenced(o.maps[r], off, extent) = m
    BY DEF Fenced, m, v
  <1>7. [o EXCEPT !.maps[r].guards = v] = [o EXCEPT !.maps[r].guards = @ \cup off..(off + extent - 1)]
    BY DEF v
  <1> QED BY <1>2, <1>5, <1>6, <1>7 DEF v

LEMMA FencedMap ==
  ASSUME NEW m, MapOk(m), NEW off, NEW extent
  PROVE  /\ MapOk(Fenced(m, off, extent)) /\ Fenced(m, off, extent).addr = m.addr
         /\ Fenced(m, off, extent).len = m.len /\ Fenced(m, off, extent).backed = m.backed
         /\ Fenced(m, off, extent).locked = m.locked
         /\ Fenced(m, off, extent).guards = m.guards \cup off..(off + extent - 1)
  <1> DEFINE v == m.guards \cup off..(off + extent - 1)
  <1> HIDE DEF v
  <1> DEFINE e == [m EXCEPT !.guards = v]
  <1>1. /\ MapOk(e) /\ e.addr = m.addr /\ e.len = m.len /\ e.backed = m.backed
        /\ e.locked = m.locked /\ e.guards = v
    BY DEF MapOk
  <1>2. Fenced(m, off, extent) = e
    BY DEF Fenced, v
  <1> HIDE DEF e
  <1> QED BY <1>1, <1>2 DEF v

LEMMA ProtectIs ==
  ASSUME NEW o, OsOk(o), NEW r \in DOMAIN o.maps, NEW off, NEW extent,
         NEW n \in OsProtectNone(o, r, off, extent)
  PROVE  \/ Fell(o, n, "protect")
         \/ /\ Changed(o, n, r, Fenced(o.maps[r], off, extent))
            /\ ~Uncommitted(o, r, off, extent)
  <1>0. OsRec(o)
    BY DEF OsOk
  <1>1. CASE Uncommitted(o, r, off, extent)
    <2>1. n = Failing(o, "protect")
      BY <1>1 DEF OsProtectNone
    <2> QED BY <1>0, <2>1, FailingIs
  <1>2. CASE ~Uncommitted(o, r, off, extent)
    <2>1. CASE n \in MayFail(o, "protect")
      BY <1>0, <2>1, MayFailIs
    <2>2. CASE n = [o EXCEPT !.maps[r].guards = @ \cup off..(off + extent - 1)]
      BY <1>2, <2>2, FencedIs
    <2> QED BY <1>2, <2>1, <2>2 DEF OsProtectNone
  <1> QED BY <1>1, <1>2

LEMMA ClearIs ==
  ASSUME NEW o, OsRec(o)
  PROVE  /\ OsRec(ClearError(o)) /\ ClearError(o).platform = o.platform /\ ClearError(o).maps = o.maps
         /\ ClearError(o).lost = o.lost /\ ClearError(o).failed = o.failed /\ ClearError(o).err = "none"
  <1> DEFINE p == [platform |-> o.platform, maps |-> o.maps, lost |-> o.lost, err |-> "none",
                   failed |-> o.failed, faults |-> o.faults]
  <1>1. ClearError(o) = p
    BY DEF ClearError, OsRec
  <1>2. OsRec(p)
    BY DEF OsRec
  <1> QED BY <1>1, <1>2

LEMMA GuardFitsSane ==
  ASSUME NEW o, NEW c \in Confs, NEW k \in 2..Len(c.layers), NEW b, BackingOk(o, c, k - 1, b),
         OsOk(o), c.layers[k] = "guard", Sane(o, c)
  PROVE  GuardFits(o, b, c.page)
  <1>1. Contains(c.layers, "guard")
    BY LayerWrapped
  <1>2. /\ IsPowerOfTwo(c.page) /\ Page % c.page = 0
        /\ RegionLen(o, c) > 2 * c.page /\ RegionLen(o, c) % c.page = 0
    BY <1>1 DEF Sane
  <1>3. c.layers[1] \in Mappings
    BY ConfFacts
  <1> DEFINE m == o.maps[b.region]
  <1>4. m.len = RegionLen(o, c) /\ m.addr % Page = 0 /\ m.addr \in Nat /\ m.len \in Nat
    BY <1>3 DEF BackingOk, LaidOut, OsOk, MapOk
  <1>5. c.page \in Nat \ {0} /\ Page \in Nat \ {0}
    BY <1>2, ConfFacts, ArenaConstants DEF IsPowerOfTwo
  <1> HIDE DEF m
  <1>6. m.addr % c.page = 0
    BY <1>2, <1>4, <1>5, DividesTrans
  <1>7. m.len >= 2 * c.page + 1 /\ m.len % c.page = 0
    BY <1>2, <1>4, <1>5
  <1> QED BY <1>2, <1>6, <1>7 DEF GuardFits, m

(* Both ends fenced, and no more. *)
Ends(G, extent, page) == G = (0..(0 + page - 1)) \cup ((extent - page)..(extent - page + page - 1))

LEMMA FencedRegion ==
  ASSUME NEW extent \in Nat, NEW page \in Nat \ {0}, extent >= 2 * page + 1,
         NEW G, Ends(G, extent, page)
  PROVE  /\ G # {} /\ extent - 2 * page \in Nat /\ extent - 2 * page > 0 /\ page + (extent - 2 * page) <= extent
         /\ \A i \in 0..(extent - 1) : i \in G <=> i \notin page..(page + (extent - 2 * page) - 1)
  <1>1. 0 \in G
    BY DEF Ends
  <1> QED BY <1>1 DEF Ends

LEMMA LayersAdded ==
  ASSUME NEW o, NEW c \in Confs, NEW k \in 2..Len(c.layers), NEW b, BackingOk(o, c, k - 1, b)
  PROVE  /\ Append(b.layers, c.layers[k]) \in Seq(STRING) /\ Len(Append(b.layers, c.layers[k])) = k
         /\ \A i \in 1..k : Append(b.layers, c.layers[k])[i] = c.layers[i]
  <1>1. /\ b.layers \in Seq(STRING) /\ Len(b.layers) = k - 1
        /\ \A i \in 1..(k - 1) : b.layers[i] = c.layers[i]
    BY DEF BackingOk
  <1> QED BY <1>1, LayersGrow

GuardedOf(o, b, page) ==
  Layered(b, Append(b.layers, "guard"), b.meta, page, o.maps[b.region].len - 2 * page)

(* Both ends of the mapping q are fenced. *)
BothFenced(q, m, page) ==
  /\ m.addr = q.addr /\ m.len = q.len /\ m.backed = q.backed /\ m.locked = q.locked
  /\ m.guards = q.guards \cup (0..(0 + page - 1)) \cup ((q.len - page)..(q.len - page + page - 1))

LEMMA GuardedOk ==
  ASSUME NEW o, NEW n, NEW c \in Confs, NEW k \in 2..Len(c.layers), NEW b,
         BackingOk(o, c, k - 1, b), OsOk(o), OsOk(n), c.layers[k] = "guard",
         n.platform = o.platform, b.region \in DOMAIN n.maps, GuardFits(o, b, c.page),
         BothFenced(o.maps[b.region], n.maps[b.region], c.page),
         o.platform = "windows" =>
           o.maps[b.region].len - c.page + c.page <= o.maps[b.region].backed
  PROVE  /\ BackingOk(n, c, k, GuardedOf(o, b, c.page)) /\ Own(GuardedOf(o, b, c.page)) = Own(b)
         /\ GuardedOf(o, b, c.page) # NoBacking
  <1> DEFINE r == b.region
             m == n.maps[r]
             extent == o.maps[r].len
             s == Append(b.layers, "guard")
             page == c.page
             d == GuardedOf(o, b, page)
  <1> HIDE DEF d
  <1>0. Len(c.layers) \in Nat /\ k \in Nat /\ page \in Nat \ {0}
    BY ConfFacts DEF GuardFits, IsPowerOfTwo
  <1>1. MapOk(o.maps[r]) /\ MapOk(m) /\ extent \in Nat /\ m.len \in Nat
    BY DEF OsOk, MapOk, BackingOk
  <1>2. extent >= 2 * page + 1
    BY DEF GuardFits
  <1>3. ~Guarded(c, k - 1) /\ Guarded(c, k)
    BY GuardedGrows
  <1>4. o.maps[r].guards = {} /\ b.base = 0
    BY <1>3 DEF BackingOk, RegionOk
  <1>5. Ends(m.guards, extent, page) /\ m.len = extent
    BY <1>4 DEF BothFenced, Ends
  <1>6. s \in Seq(STRING) /\ Len(s) = k /\ \A i \in 1..k : s[i] = c.layers[i]
    <2>1. s = Append(b.layers, c.layers[k])
      OBVIOUS
    <2> HIDE DEF s, r, m, extent, page
    <2>2. /\ Append(b.layers, c.layers[k]) \in Seq(STRING) /\ Len(Append(b.layers, c.layers[k])) = k
          /\ \A i \in 1..k : Append(b.layers, c.layers[k])[i] = c.layers[i]
      BY LayersAdded, Zenon
    <2> QED BY <2>1, <2>2
  <1> HIDE DEF s
  <1>7. /\ BackingRec(d) /\ d.layers = s /\ d.region = r /\ d.meta = b.meta
        /\ d.base = page /\ d.len = extent - 2 * page /\ d.committed = b.committed
    <2>1. d = Layered(b, s, b.meta, page, extent - 2 * page)
      BY DEF d, s, GuardedOf
    <2> HIDE DEF page, r, extent, d
    <2> QED BY <2>1, LayeredIs DEF r
  <1>8. /\ m.guards # {} /\ extent - 2 * page \in Nat /\ extent - 2 * page > 0 /\ page + (extent - 2 * page) <= extent
        /\ \A i \in 0..(extent - 1) : i \in m.guards <=> i \notin page..(page + (extent - 2 * page) - 1)
    <2> HIDE DEF page, extent, m
    <2> QED BY <1>0, <1>1, <1>2, <1>5, FencedRegion
  <1>9. m.backed = m.len
    <2>1. CASE o.platform = "windows"
      <3>1. o.maps[r].backed \in Nat /\ o.maps[r].backed <= extent
        BY <1>1 DEF MapOk
      <3> QED BY <2>1, <3>1, <1>0, <1>1 DEF BothFenced
    <2>2. CASE o.platform # "windows"
      <3>1. o.maps[r].backed = o.maps[r].len
        BY <2>2 DEF BackingOk, RegionOk
      <3> QED BY <3>1 DEF BothFenced
    <2> QED BY <2>1, <2>2
  <1>10. m.locked = (c.layers[1] = "locked") /\ b.committed = m.backed /\ m.len = extent
    BY DEF BackingOk, RegionOk, BothFenced
  <1>11. RegionOk(n, c, Guarded(c, k), d, m)
    BY <1>3, <1>7, <1>8, <1>9, <1>10 DEF RegionOk
  <1>12. LaidOut(n, c, m)
    <2>1. RegionLen(n, c) = RegionLen(o, c)
      BY SaneSame
    <2> QED BY <2>1, <1>10 DEF LaidOut, BackingOk, BothFenced
  <1>13. d.meta # 0 => \E i \in 2..k : c.layers[i] = "split"
    BY <1>0, <1>7 DEF BackingOk
  <1>14. r # 0 /\ b.meta # r /\ r \in DOMAIN n.maps
    BY DEF BackingOk
  <1>15. d.base \in Nat /\ d.len \in Nat
    BY <1>0, <1>7, <1>8
  <1>16. BackingOk(n, c, k, d)
    <2> HIDE DEF r, m, page, extent
    <2>1. n.maps[d.region] = m
      BY <1>7 DEF m
    <2> QED BY <1>6, <1>7, <1>11, <1>12, <1>13, <1>14, <1>15, <2>1 DEF BackingOk
  <1>17. s # <<>>
    BY <1>0, <1>6
  <1>18. d # NoBacking
    BY <1>7, <1>17 DEF NoBacking
  <1>19. Own(d) = Own(b)
    BY <1>7 DEF Own
  <1> QED BY <1>16, <1>18, <1>19 DEF d
LEMMA GuardRefused ==
  ASSUME NEW o, NEW p, NEW n, NEW c, NEW k, NEW b, NEW X, Holds(p, X \cup Own(b)),
         X \cap Own(b) = {}, Untouched(o, p, X), b.region # 0, b.meta # b.region,
         p.failed = {}, Fell(p, n, "protect"), NEW m \in Rejected(n, b)
  PROVE  Built(o, c, k, X, m)
  <1>1. Holds(n, X \cup Own(b)) /\ Untouched(p, n, X \cup Own(b))
    BY FellHolds
  <1>2. n.failed = {"protect"} /\ n.err = "protect"
    BY DEF Fell
  <1>3. Untouched(o, n, X)
    BY <1>1 DEF Untouched
  <1>4. n.failed \subseteq Calls \ {"unmap", "unlock", "lock", "heap"}
    BY <1>2 DEF Calls
  <1> QED BY <1>1, <1>2, <1>3, <1>4, RejectedBuilt

LEMMA GuardBuilt ==
  ASSUME NEW o, NEW c \in Confs, NEW k \in 2..Len(c.layers), NEW b, NEW X, Holds(o, X \cup Own(b)),
         X \cap Own(b) = {}, BackingOk(o, c, k - 1, b), o.failed = {}, c.layers[k] = "guard",
         NEW m \in GuardNew(o, b, c.page)
  PROVE  Built(o, c, k, X, m)
  <1> DEFINE r == b.region
             extent == o.maps[r].len
             page == c.page
             p == ClearError(o)
             guarded == [b EXCEPT !.layers = Append(@, "guard"), !.base = page, !.len = extent - 2 * page]
             Y == X \cup Own(b)
  <1>0. OsOk(o) /\ OsRec(o) /\ r # 0 /\ b.meta # r /\ Untouched(o, o, X) /\ r \in DOMAIN o.maps
        /\ BackingRec(b) /\ r \in Y /\ r \notin X
    BY DEF Holds, OsOk, BackingOk, Untouched, Own
  <1>1. CASE ~GuardFits(o, b, page)
    <2>1. ~Sane(o, c)
      BY <1>0, <1>1, GuardFitsSane
    <2>2. m \in Rejected(o, b)
      BY <1>1 DEF GuardNew
    <2> QED BY <1>0, <2>1, <2>2, RejectedBuilt
  <1>2. CASE GuardFits(o, b, page)
    <2>1. PICK h \in OsProtectNone(p, r, 0, page) :
            m \in IF h.err # "none" THEN Rejected(h, b)
                  ELSE UNION {IF t.err # "none" THEN Rejected(t, b) ELSE {[os |-> t, b |-> guarded]} :
                                t \in OsProtectNone(h, r, extent - page, page)}
      BY <1>2 DEF GuardNew
    <2>2. /\ OsRec(p) /\ p.platform = o.platform /\ p.maps = o.maps
          /\ p.lost = o.lost /\ p.failed = {} /\ p.err = "none"
      BY <1>0, ClearIs
    <2> HIDE DEF p
    <2>3. Holds(p, Y) /\ Untouched(o, p, Y) /\ OsOk(p)
      BY <2>2 DEF Holds, OsOk, Untouched
    <2>4. CASE Fell(p, h, "protect")
      <3>1. m \in Rejected(h, b)
        BY <2>1, <2>4 DEF Fell
      <3>2. Untouched(o, p, X)
        BY <2>3 DEF Untouched
      <3> QED BY <1>0, <2>2, <2>3, <2>4, <3>1, <3>2, GuardRefused
    <2>5. CASE Changed(p, h, r, Fenced(o.maps[r], 0, page))
      <3> DEFINE f == Fenced(o.maps[r], 0, page)
      <3>1. /\ MapOk(f) /\ f.addr = o.maps[r].addr /\ f.len = extent /\ f.backed = o.maps[r].backed
            /\ f.locked = o.maps[r].locked /\ f.guards = o.maps[r].guards \cup 0..(0 + page - 1)
        <4>1. MapOk(o.maps[r])
          BY <1>0 DEF OsOk
        <4> DEFINE x == o.maps[r]
        <4> HIDE DEF x
        <4>2. /\ MapOk(Fenced(x, 0, page)) /\ Fenced(x, 0, page).addr = x.addr
              /\ Fenced(x, 0, page).len = x.len /\ Fenced(x, 0, page).backed = x.backed
              /\ Fenced(x, 0, page).locked = x.locked
              /\ Fenced(x, 0, page).guards = x.guards \cup 0..(0 + page - 1)
          BY <4>1, FencedMap DEF x
        <4> QED BY <4>2 DEF x
      <3> HIDE DEF f, extent
      <3>2. Holds(h, Y)
        BY <2>3, <2>5, <3>1, ChangedStill DEF f
      <3>3. h.err = "none" /\ h.failed = {} /\ h.platform = o.platform /\ h.maps[r] = f
        BY <2>2, <2>5 DEF Changed, f
      <3>4. Untouched(o, h, X)
        BY <1>0, <2>2, <2>3, <2>5, <3>3 DEF Changed, Untouched, Holds
      <3>5. OsOk(h) /\ r \in DOMAIN h.maps
        BY <1>0, <3>2 DEF Holds
      <3>6. PICK t \in OsProtectNone(h, r, extent - page, page) :
              m \in IF t.err # "none" THEN Rejected(t, b) ELSE {[os |-> t, b |-> guarded]}
        BY <2>1, <3>3
      <3>7. CASE Fell(h, t, "protect")
        <4>1. m \in Rejected(t, b)
          BY <3>6, <3>7 DEF Fell
        <4> QED BY <1>0, <3>2, <3>3, <3>4, <3>7, <4>1, GuardRefused
      <3>8. CASE Changed(h, t, r, Fenced(f, extent - page, page)) /\ ~Uncommitted(h, r, extent - page, page)
        <4> DEFINE g == Fenced(f, extent - page, page)
        <4>1. /\ MapOk(g) /\ g.addr = f.addr /\ g.len = f.len /\ g.backed = f.backed
              /\ g.locked = f.locked /\ g.guards = f.guards \cup (extent - page)..(extent - page + page - 1)
          BY <3>1, FencedMap
        <4> HIDE DEF g
        <4>2. Holds(t, Y)
          BY <3>2, <3>8, <4>1, ChangedStill DEF g
        <4>3. t.err = "none" /\ t.failed = {} /\ t.platform = o.platform /\ t.maps[r] = g
          BY <3>3, <3>8 DEF Changed, g
        <4>4. Untouched(o, t, X)
          <5>1. Untouched(h, t, X)
            BY <1>0, <3>2, <3>8 DEF Changed, Untouched, Holds
          <5> QED BY <5>1, <3>4, UntouchedTrans
        <4>5. m = [os |-> t, b |-> guarded]
          BY <3>6, <4>3
        <4>6. guarded = Layered(b, Append(b.layers, "guard"), b.meta, page, extent - 2 * page)
          <5> DEFINE s == Append(b.layers, "guard")
                     z == extent - 2 * page
                     e == [layers |-> s, region |-> b.region, meta |-> b.meta, base |-> b.base,
                           len |-> b.len, committed |-> b.committed]
                     u == [layers |-> s, region |-> b.region, meta |-> b.meta, base |-> page,
                           len |-> b.len, committed |-> b.committed]
          <5> HIDE DEF page, z, s
          <5>1. [b EXCEPT !.layers = s] = e
            BY <1>0 DEF BackingRec
          <5>2. [e EXCEPT !.base = page] = u
            OBVIOUS
          <5>3. [u EXCEPT !.len = z] = Layered(b, s, b.meta, page, z)
            BY DEF Layered
          <5>4. guarded = [[[b EXCEPT !.layers = s] EXCEPT !.base = page] EXCEPT !.len = z]
            BY DEF s, z
          <5> HIDE DEF e, u, guarded
          <5> QED BY <5>1, <5>2, <5>3, <5>4 DEF s, z
        <4> DEFINE d == GuardedOf(o, b, page)
        <4>7. OsOk(t) /\ r \in DOMAIN t.maps
          BY <1>0, <4>2 DEF Holds
        <4>8. /\ g.addr = o.maps[r].addr /\ g.len = o.maps[r].len /\ g.backed = o.maps[r].backed
              /\ g.locked = o.maps[r].locked
              /\ g.guards = o.maps[r].guards \cup (0..(0 + page - 1))
                              \cup ((extent - page)..(extent - page + page - 1))
          BY <3>1, <4>1 DEF extent
        <4>9. o.platform = "windows" => extent - page + page <= o.maps[r].backed
          <5>1. extent \in Nat /\ page \in Nat /\ o.maps[r].backed \in Nat
            BY <1>0, ConfFacts DEF OsOk, MapOk, extent
          <5>2. h.maps[r].backed = o.maps[r].backed
            BY <3>1, <3>3
          <5>3. o.platform = "windows" => ~(extent - page + page > o.maps[r].backed)
            BY <3>3, <3>8, <5>2 DEF Uncommitted
          <5> HIDE DEF page
          <5> QED BY <5>1, <5>3
        <4>10. BackingOk(t, c, k, d) /\ Own(d) = Own(b) /\ d # NoBacking
          <5>1. t.maps[b.region] = g
            BY <4>3
          <5>2. BothFenced(o.maps[r], t.maps[r], page)
            BY <4>8, <5>1 DEF extent, BothFenced
          <5>3. o.platform = "windows" => o.maps[r].len - page + page <= o.maps[r].backed
            BY <4>9 DEF extent
          <5>4. t.platform = o.platform
            BY <4>3
          <5> QED BY <1>0, <1>2, <4>7, <5>2, <5>3, <5>4, GuardedOk
        <4> HIDE DEF d
        <4>11. m.os = t /\ m.b = d /\ m = [os |-> m.os, b |-> m.b]
          BY <4>5, <4>6 DEF d, GuardedOf, extent
        <4> QED BY <4>2, <4>3, <4>4, <4>10, <4>11 DEF Built
      <3>9. f = h.maps[r] => Fell(h, t, "protect")
                             \/ (Changed(h, t, r, Fenced(f, extent - page, page))
                                 /\ ~Uncommitted(h, r, extent - page, page))
        BY <3>5, <3>6, ProtectIs
      <3> QED BY <3>3, <3>7, <3>8, <3>9
    <2>6. Fell(p, h, "protect") \/ Changed(p, h, r, Fenced(o.maps[r], 0, page))
      <3>1. r \in DOMAIN p.maps /\ p.maps[r] = o.maps[r]
        BY <1>0, <2>2
      <3> QED BY <2>1, <2>3, <3>1, ProtectIs
    <2> QED BY <2>4, <2>5, <2>6
  <1> QED BY <1>1, <1>2

LEMMA WrapBuilt ==
  ASSUME NEW o, NEW c \in Confs, NEW k \in 2..Len(c.layers), NEW b, NEW X, Holds(o, X \cup Own(b)),
         X \cap Own(b) = {}, BackingOk(o, c, k - 1, b), o.failed = {},
         NEW m \in Wrap(o, b, c.layers[k], c)
  PROVE  Built(o, c, k, X, m)
  <1>1. CASE c.layers[k] = "split"
    BY <1>1, SplitBuilt DEF Wrap
  <1>2. CASE c.layers[k] = "guard"
    BY <1>2, GuardBuilt DEF Wrap
  <1>3. CASE c.layers[k] = "numa"
    BY <1>3, NumaBuilt DEF Wrap
  <1>4. CASE c.layers[k] = "hpaligned"
    BY <1>4, HugeAlignedBuilt DEF Wrap
  <1> QED BY <1>1, <1>2, <1>3, <1>4, ConfFacts DEF Wrappers
-----------------------------------------------------------------------------
(* Sets of outcomes, one call after the other: a construction, a clear, a  *)
(* release_idle, a prewarm.                                                *)
OneMore(kind, p, k, S) ==
  CASE kind = "build" -> UNION {IF v.b = NoBacking THEN {v} ELSE Wrap(v.os, v.b, p.layers[k], p) : v \in S}
    [] kind = "clear" -> UNION {DropBacking(v, p[k].b) : v \in S}
    [] kind = "release" -> UNION {ReleasePages(v, p[k].b, 0, v.maps[p[k].b.region].len) : v \in S}
    [] OTHER -> UNION {IF s.last = "err" \/ Len(s.idle) >= p THEN {s}
                       ELSE {[os |-> m.os,
                              idle |-> IF m.a = NoArena THEN s.idle ELSE Append(s.idle, m.a),
                              last |-> IF m.a = NoArena THEN "err" ELSE "ok"] : m \in Mint(s.os)} :
                         s \in S}

IsChain(kind, p, z, lo, n, f) ==
  f = [k \in lo..n |-> IF k = lo THEN z ELSE OneMore(kind, p, k, f[k - 1])]

LEMMA ChainExists ==
  ASSUME NEW kind, NEW p, NEW z, NEW lo \in Nat
  PROVE  \A n \in Nat : \E f : IsChain(kind, p, z, lo, n, f)
  <1> DEFINE F(k, x) == OneMore(kind, p, k, x)
             Good(n, f) == f = [k \in lo..n |-> IF k = lo THEN z ELSE F(k, f[k - 1])]
             S == {n \in Nat : ~ \E f : Good(n, f)}
  <1> HIDE DEF F
  <1>1. S = {}
    <2> SUFFICES ASSUME S # {} PROVE FALSE
      OBVIOUS
    <2>1. PICK n \in S : \A y \in S : n <= y
      <3>1. S \in SUBSET Nat
        OBVIOUS
      <3> HIDE DEF S
      <3> QED BY <3>1, TakeLeast
    <2>2. CASE n <= lo
      <3> DEFINE f == [k \in lo..n |-> z]
      <3>1. Good(n, f)
        <4>1. n \in Nat
          OBVIOUS
        <4>2. \A k \in lo..n : k = lo
          BY <2>2, <4>1
        <4> QED BY <4>2
      <3> QED BY <3>1, <2>1
    <2>3. CASE n > lo
      <3>1. n \in Nat /\ n - 1 \in Nat /\ n - 1 \notin S
        <4>1. S \in SUBSET Nat
          OBVIOUS
        <4> HIDE DEF S
        <4> QED BY <4>1, <2>1, <2>3
      <3>2. PICK f : Good(n - 1, f)
        BY <3>1
      <3> DEFINE g == [k \in lo..n |-> IF k = n THEN F(n, f[n - 1]) ELSE f[k]]
                 h == [k \in lo..n |-> IF k = lo THEN z ELSE F(k, g[k - 1])]
      <3>3. ASSUME NEW k \in lo..n PROVE g[k] = h[k]
        <4>1. CASE k = n
          <5>1. g[n] = F(n, f[n - 1]) /\ g[n - 1] = f[n - 1] /\ h[n] = F(n, g[n - 1])
            BY <2>3, <3>1
          <5> QED BY <4>1, <5>1
        <4>2. CASE k = lo
          BY <4>2, <3>1, <3>2, <2>3
        <4>3. CASE k # lo /\ k # n
          <5>1. k \in lo..(n - 1) /\ k - 1 \in lo..(n - 1) /\ k - 1 # n /\ k - 1 \in lo..n
            BY <3>1, <4>3
          <5>2. f[k] = F(k, f[k - 1])
            BY <3>1, <3>2, <4>3, <5>1
          <5>3. g[k] = f[k] /\ g[k - 1] = f[k - 1]
            BY <4>3, <5>1
          <5>4. h[k] = F(k, g[k - 1])
            BY <4>3
          <5> QED BY <5>2, <5>3, <5>4
        <4> QED BY <4>1, <4>2, <4>3
      <3>4. g = h
        BY <3>3
      <3>5. Good(n, g)
        BY <3>4
      <3> QED BY <3>5, <2>1
    <2>4. n \in Nat
      BY <2>1
    <2> QED BY <2>2, <2>3, <2>4
  <1>2. ASSUME NEW n \in Nat PROVE \E f : IsChain(kind, p, z, lo, n, f)
    <2>1. \E f : Good(n, f)
      BY <1>1
    <2> QED BY <2>1 DEF IsChain, F
  <1> QED BY <1>2

(* The least index at which something stops to hold. *)
LEMMA FirstBad ==
  ASSUME NEW lo \in Nat, NEW n \in Nat, NEW B, NEW k \in lo..n, k \in B
  PROVE  \E j \in lo..n : j \in B /\ \A i \in lo..n : i < j => i \notin B
  <1> DEFINE S == {i \in lo..n : i \in B}
  <1>1. S \in SUBSET Nat /\ S # {}
    OBVIOUS
  <1>2. PICK j \in S : \A i \in S : j <= i
    BY <1>1, TakeLeast
  <1>3. \A i \in lo..n : i < j => i \notin B
    BY <1>2
  <1> QED BY <1>2, <1>3

LEMMA BackingChain ==
  ASSUME NEW o, NEW c \in Confs
  PROVE  \E f : IsChain("build", c, BottomNew(o, c), 1, Len(c.layers), f)
                /\ BackingNew(o, c) = f[Len(c.layers)]
  <1> DEFINE n == Len(c.layers)
             z == BottomNew(o, c)
             Good(f) == f = [k \in 1..n |->
                               IF k = 1 THEN z
                               ELSE UNION {IF v.b = NoBacking THEN {v} ELSE Wrap(v.os, v.b, c.layers[k], c) :
                                             v \in f[k - 1]}]
             w == CHOOSE f : Good(f)
  <1>1. n \in Nat
    BY ConfFacts
  <1>2. BackingNew(o, c) = w[n]
    BY DEF BackingNew
  <1> HIDE DEF z, n
  <1>3. PICK f : IsChain("build", c, z, 1, n, f)
    BY <1>1, ChainExists
  <1>4. ASSUME NEW g PROVE IsChain("build", c, z, 1, n, g) <=> Good(g)
    <2>1. ASSUME NEW k \in 1..n
          PROVE  OneMore("build", c, k, g[k - 1])
                 = UNION {IF v.b = NoBacking THEN {v} ELSE Wrap(v.os, v.b, c.layers[k], c) :
                            v \in g[k - 1]}
      BY DEF OneMore
    <2> QED BY <2>1 DEF IsChain
  <1>5. Good(f)
    BY <1>3, <1>4
  <1>6. Good(w)
    <2> HIDE DEF Good
    <2> QED BY <1>5
  <1> HIDE DEF w, Good
  <1>7. IsChain("build", c, z, 1, n, w)
    BY <1>4, <1>6
  <1> QED BY <1>2, <1>7 DEF z, n

LEMMA BuiltTrans ==
  ASSUME NEW o, NEW p, NEW c, NEW k, NEW X, NEW m, Untouched(o, p, X), Built(p, c, k, X, m)
  PROVE  Built(o, c, k, X, m)
BY UntouchedTrans DEF Built

LEMMA BackingBuilt ==
  ASSUME NEW o, NEW c \in Confs, NEW X, Holds(o, X), o.failed = {}, NEW m \in BackingNew(o, c)
  PROVE  Built(o, c, Len(c.layers), X, m)
  <1> DEFINE n == Len(c.layers)
             z == BottomNew(o, c)
  <1>1. PICK f : IsChain("build", c, z, 1, n, f) /\ BackingNew(o, c) = f[n]
    BY BackingChain
  <1>2. n \in Nat /\ n >= 1
    BY ConfFacts
  <1> HIDE DEF n, z
  <1> DEFINE B == {k \in 1..n : \E v \in f[k] : ~Built(o, c, k, X, v)}
  <1>3. ASSUME NEW k \in 1..n, k \in B PROVE FALSE
    <2>1. PICK j \in 1..n : j \in B /\ \A i \in 1..n : i < j => i \notin B
      <3> HIDE DEF B
      <3> QED BY <1>2, <1>3, FirstBad
    <2>2. PICK v \in f[j] : ~Built(o, c, j, X, v)
      BY <2>1
    <2>3. CASE j = 1
      <3>1. f[1] = z
        BY <1>1, <1>2 DEF IsChain
      <3> QED BY <2>2, <2>3, <3>1, BottomBuilt DEF z
    <2>4. CASE j # 1
      <3>1. j - 1 \in 1..n /\ j - 1 < j /\ j \in 2..n
        BY <1>2, <2>4
      <3>2. f[j] = OneMore("build", c, j, f[j - 1])
        BY <1>1, <2>4 DEF IsChain
      <3>3. PICK u \in f[j - 1] : v \in IF u.b = NoBacking THEN {u} ELSE Wrap(u.os, u.b, c.layers[j], c)
        BY <2>2, <3>2 DEF OneMore
      <3>4. Built(o, c, j - 1, X, u)
        BY <2>1, <3>1
      <3>5. CASE u.b = NoBacking
        BY <2>2, <3>3, <3>4, <3>5 DEF Built
      <3>6. CASE u.b # NoBacking
        <4>1. v \in Wrap(u.os, u.b, c.layers[j], c)
          BY <3>3, <3>6
        <4>2. /\ Holds(u.os, X \cup Own(u.b)) /\ X \cap Own(u.b) = {} /\ Untouched(o, u.os, X)
              /\ BackingOk(u.os, c, j - 1, u.b) /\ u.os.failed = {}
          BY <3>4, <3>6 DEF Built
        <4>3. Built(u.os, c, j, X, v)
          BY <3>1, <4>1, <4>2, WrapBuilt DEF n
        <4> QED BY <2>2, <4>2, <4>3, BuiltTrans
      <3> QED BY <3>5, <3>6
    <2> QED BY <2>3, <2>4
  <1>4. \A v \in f[n] : Built(o, c, n, X, v)
    BY <1>2, <1>3
  <1> QED BY <1>1, <1>4 DEF n
-----------------------------------------------------------------------------
(* The factory and BumpArena::new. *)
Fresh(a) == a = [b |-> a.b, cursor |-> 0, marks |-> <<>>, blocks |-> {}]

Minted(o, c, X, m) ==
  /\ Untouched(o, m.os, X)
  /\ m.a = NoArena => Holds(m.os, X) /\ Refused(m.os, c)
  /\ m.a # NoArena => /\ Fresh(m.a) /\ Holds(m.os, X \cup Own(m.a.b)) /\ X \cap Own(m.a.b) = {}
                      /\ BackingOk(m.os, c, Len(c.layers), m.a.b) /\ m.os.failed = {}

LEMMA FreshIs ==
  ASSUME NEW b
  PROVE  /\ Fresh([b |-> b, cursor |-> 0, marks |-> <<>>, blocks |-> {}])
         /\ [b |-> b, cursor |-> 0, marks |-> <<>>, blocks |-> {}] # NoArena
  <1> DEFINE a == [b |-> b, cursor |-> 0, marks |-> <<>>, blocks |-> {}]
  <1>1. DOMAIN a = {"b", "cursor", "marks", "blocks"} /\ DOMAIN NoArena = {"marks"}
    BY DEF NoArena
  <1>2. "b" \in DOMAIN a /\ "b" \notin DOMAIN NoArena
    BY <1>1
  <1>3. a # NoArena
    BY <1>2
  <1>4. Fresh(a)
    BY DEF Fresh
  <1> QED BY <1>3, <1>4

LEMMA ArenaRoom ==
  ASSUME NEW o, NEW c \in Confs, NEW k, NEW b, BackingOk(o, c, k, b), OsOk(o), Sane(o, c),
         c.use # "direct"
  PROVE  b.len # 0 /\ Base(o, b) + b.len <= UsizeMax
  <1> DEFINE m == o.maps[b.region]
  <1>1. MapOk(m) /\ m.addr \in Nat /\ m.len \in Nat /\ b.base \in Nat /\ b.len \in Nat
    BY DEF OsOk, BackingOk, MapOk
  <1>2. LaidOut(o, c, m) /\ RegionOk(o, c, Guarded(c, k), b, m)
    BY DEF BackingOk
  <1>3. c.size > 0 /\ c.size \in Nat
    BY ConfFacts DEF Sane
  <1>4. Base(o, b) = m.addr + b.base
    BY DEF Base
  <1> HIDE DEF m
  <1>5. b.len # 0
    BY <1>1, <1>2, <1>3 DEF LaidOut, RegionOk
  <1>6. m.addr + m.len <= UsizeMax
    <2>1. CASE c.layers[1] \notin Buffers
      BY <2>1, <1>2 DEF LaidOut
    <2>2. CASE c.layers[1] \in Buffers
      <3>1. c.addr # 0
        BY <2>2, ConfFacts DEF Sane
      <3>2. m.addr = c.addr /\ m.len = RegionLen(o, c) /\ c.addr + c.size <= UsizeMax
        BY <3>1, <2>2, <1>2 DEF LaidOut, Sane
      <3>3. RegionLen(o, c) = c.size
        BY <2>2, <1>3 DEF RegionLen, Unit, Buffers, Mappings, AlignUp
      <3> QED BY <3>2, <3>3
    <2> QED BY <2>1, <2>2
  <1>7. b.base + b.len <= m.len
    BY <1>2 DEF RegionOk
  <1> QED BY <1>1, <1>4, <1>5, <1>6, <1>7, ArenaConstants

LEMMA ArenaNewMinted ==
  ASSUME NEW o, NEW p, NEW X, Untouched(o, p, X), conf \in Confs, NEW b,
         Holds(p, X \cup Own(b)), X \cap Own(b) = {}, BackingOk(p, conf, Len(conf.layers), b),
         p.failed = {}, NEW m \in ArenaNew(p, b)
  PROVE  Minted(o, conf, X, m)
  <1>1. CASE conf.use # "direct" /\ (b.len = 0 \/ Base(p, b) + b.len > UsizeMax)
    <2>1. PICK n \in DropBacking(p, b) : m = [os |-> n, a |-> NoArena]
      BY <1>1 DEF ArenaNew
    <2>2. b.region # 0 /\ b.meta # b.region
      BY DEF BackingOk
    <2>3. Holds(n, X) /\ Untouched(p, n, X) /\ Told(p, n, {"unmap", "unlock"})
      BY <2>1, <2>2, DropHolds
    <2>4. ~Sane(p, conf)
      <3>1. SUFFICES ASSUME Sane(p, conf) PROVE FALSE
        OBVIOUS
      <3>2. OsOk(p)
        BY DEF Holds
      <3>3. b.len # 0 /\ Base(p, b) + b.len <= UsizeMax
        BY <1>1, <3>1, <3>2, ArenaRoom
      <3>4. Base(p, b) + b.len \in Nat /\ UsizeMax \in Nat
        <4>1. b.region \in DOMAIN p.maps /\ b.base \in Nat /\ b.len \in Nat
          BY DEF BackingOk
        <4>2. p.maps[b.region].addr \in Nat
          BY <3>2, <4>1 DEF OsOk, MapOk
        <4>3. UsizeMax \in Nat
          BY ArenaConstants
        <4>4. p.maps[b.region].addr + b.base + b.len \in Nat
          BY <4>1, <4>2
        <4> QED BY <4>3, <4>4 DEF Base
      <3> QED BY <1>1, <3>3, <3>4
    <2>5. ~Sane(n, conf)
      BY <2>3, <2>4, SaneSame DEF Untouched
    <2>6. Refused(n, conf)
      BY <2>3, <2>5, AdmissibleSane DEF Refused, Told, Calls
    <2>7. m.os = n /\ m.a = NoArena
      BY <2>1
    <2> QED BY <2>3, <2>6, <2>7, UntouchedTrans DEF Minted
  <1>2. CASE m = [os |-> p, a |-> [b |-> b, cursor |-> 0, marks |-> <<>>, blocks |-> {}]]
    <2> DEFINE a == [b |-> b, cursor |-> 0, marks |-> <<>>, blocks |-> {}]
    <2>1. a.b = b /\ Fresh(a) /\ a # NoArena
      BY FreshIs
    <2>2. m = [os |-> p, a |-> a]
      BY <1>2
    <2> HIDE DEF a
    <2>3. m.os = p /\ m.a = a
      BY <2>2
    <2> QED BY <2>1, <2>3 DEF Minted
  <1> QED BY <1>1, <1>2 DEF ArenaNew

LEMMA MintOk ==
  ASSUME NEW o, NEW X, conf \in Confs, Holds(o, X), o.failed = {}, NEW m \in Mint(o)
  PROVE  Minted(o, conf, X, m)
  <1>1. PICK v \in BackingNew(o, conf) :
          m \in IF v.b = NoBacking THEN {[os |-> v.os, a |-> NoArena]} ELSE ArenaNew(v.os, v.b)
    BY DEF Mint
  <1>2. Built(o, conf, Len(conf.layers), X, v)
    BY <1>1, BackingBuilt
  <1>3. CASE v.b = NoBacking
    <2>1. m.os = v.os /\ m.a = NoArena
      BY <1>1, <1>3
    <2> QED BY <1>2, <1>3, <2>1 DEF Built, Minted
  <1>4. CASE v.b # NoBacking
    <2>1. /\ Holds(v.os, X \cup Own(v.b)) /\ X \cap Own(v.b) = {} /\ Untouched(o, v.os, X)
          /\ BackingOk(v.os, conf, Len(conf.layers), v.b) /\ v.os.failed = {}
      BY <1>2, <1>4 DEF Built
    <2>2. m \in ArenaNew(v.os, v.b)
      BY <1>1, <1>4
    <2> QED BY <2>1, <2>2, ArenaNewMinted
  <1> QED BY <1>3, <1>4
-----------------------------------------------------------------------------
(* An arena in order.                                                      *)
BlockRec(k) ==
  k = [id |-> k.id, off |-> k.off, size |-> k.size, align |-> k.align, known |-> k.known,
       holds |-> k.holds, depth |-> k.depth]

(* The block k lies at or after the bytes of a mapping m that start at at. *)
BytesOk(m, at, k) ==
  /\ at + k.off + k.size <= m.backed
  /\ \A i \in (at + k.off)..(at + k.off + k.size - 1) : i \notin m.guards
  /\ \A i \in (at + k.off)..(at + k.off + k.known - 1) : m.mem[i] = k.holds

BlockOk(m, at, cursor, marks, k) ==
  /\ BlockRec(k) /\ k.off \in Nat /\ k.size \in Nat \ {0} /\ k.known \in Nat /\ k.known <= k.size
  /\ k.align \in Nat \ {0} /\ (m.addr + at + k.off) % k.align = 0
  /\ k.off + k.size <= cursor
  /\ k.depth \in Nat /\ k.depth <= Len(marks)
  /\ \A j \in 1..Len(marks) : k.depth < j => k.off + k.size <= marks[j]
  /\ BytesOk(m, at, k)

Apart(k, l) == k.off + k.size <= l.off \/ l.off + l.size <= k.off

ArenaRec(a) == a = [b |-> a.b, cursor |-> a.cursor, marks |-> a.marks, blocks |-> a.blocks]

CursorOk(cursor, extent, marks) ==
  /\ cursor \in Nat /\ cursor <= extent
  /\ marks \in Seq(Nat)
  /\ \A i \in 1..Len(marks) : marks[i] <= cursor
  /\ \A i, j \in 1..Len(marks) : i <= j => marks[i] <= marks[j]

BlocksOk(m, at, cursor, marks, blocks) ==
  /\ \A k \in blocks : BlockOk(m, at, cursor, marks, k)
  /\ \A k, l \in blocks : k # l => Apart(k, l)

ArenaOk(o, c, a) ==
  /\ ArenaRec(a) /\ BackingOk(o, c, Len(c.layers), a.b)
  /\ CursorOk(a.cursor, a.b.len, a.marks)
  /\ BlocksOk(o.maps[a.b.region], a.b.base, a.cursor, a.marks, a.blocks)

LEMMA FreshOkay ==
  ASSUME NEW o, NEW c, NEW a, Fresh(a), BackingOk(o, c, Len(c.layers), a.b)
  PROVE  ArenaOk(o, c, a)
  <1>1. a.cursor = 0 /\ a.marks = <<>> /\ a.blocks = {}
    BY DEF Fresh
  <1>2. ArenaRec(a)
    BY <1>1 DEF Fresh, ArenaRec
  <1>3. CursorOk(0, a.b.len, <<>>)
    <2>1. a.b.len \in Nat
      BY DEF BackingOk
    <2> QED BY <2>1 DEF CursorOk
  <1>4. BlocksOk(o.maps[a.b.region], a.b.base, 0, <<>>, {})
    BY DEF BlocksOk
  <1> QED BY <1>1, <1>2, <1>3, <1>4 DEF ArenaOk

LEMMA ArenaKept ==
  ASSUME NEW o, NEW n, NEW c, NEW a, NEW Y, ArenaOk(o, c, a), Untouched(o, n, Y),
         a.b.region \in Y, a.b.region \in DOMAIN n.maps
  PROVE  ArenaOk(n, c, a)
  <1>1. BackingOk(n, c, Len(c.layers), a.b)
    BY BackingKept DEF ArenaOk
  <1>2. n.maps[a.b.region] = o.maps[a.b.region]
    BY DEF Untouched
  <1> QED BY <1>1, <1>2 DEF ArenaOk

(* Who holds an arena: the callers, and the places of the pool.            *)
Holders(O, s) == {<<0, a>> : a \in O} \cup {<<i, s[i]>> : i \in 1..Len(s)}

Used(H) == UNION {Own(h[2].b) : h \in H}

Sound(o, c, H) ==
  /\ Holds(o, Used(H))
  /\ \A h \in H : ArenaOk(o, c, h[2])
  /\ \A h, g \in H : h # g => Own(h[2].b) \cap Own(g[2].b) = {}

LEMMA OneOfUsed ==
  ASSUME NEW o, NEW c, NEW H, Sound(o, c, H), NEW h \in H
  PROVE  /\ Used(H) = Used(H \ {h}) \cup Own(h[2].b)
         /\ Used(H \ {h}) \cap Own(h[2].b) = {}
         /\ h[2].b.region \in Own(h[2].b) /\ h[2].b.region # 0 /\ h[2].b.meta # h[2].b.region
         /\ BackingOk(o, c, Len(c.layers), h[2].b)
  <1>1. BackingOk(o, c, Len(c.layers), h[2].b)
    BY DEF Sound, ArenaOk
  <1>2. h[2].b.region # 0 /\ h[2].b.meta # h[2].b.region
    BY <1>1 DEF BackingOk
  <1>3. h[2].b.region \in Own(h[2].b)
    BY <1>2 DEF Own
  <1>4. Used(H) = Used(H \ {h}) \cup Own(h[2].b)
    BY DEF Used
  <1>5. Used(H \ {h}) \cap Own(h[2].b) = {}
    BY DEF Used, Sound
  <1> QED BY <1>1, <1>2, <1>3, <1>4, <1>5

LEMMA OthersKept ==
  ASSUME NEW o, NEW n, NEW c, NEW H, NEW G, Sound(o, c, H), G \subseteq H,
         Untouched(o, n, Used(G)), Used(G) \subseteq DOMAIN n.maps
  PROVE  \A g \in G : ArenaOk(n, c, g[2])
  <1> SUFFICES ASSUME NEW g \in G PROVE ArenaOk(n, c, g[2])
    OBVIOUS
  <1>1. g[2].b.region \in Own(g[2].b) /\ ArenaOk(o, c, g[2])
    BY OneOfUsed DEF Sound
  <1>2. g[2].b.region \in Used(G)
    BY <1>1 DEF Used
  <1> QED BY <1>1, <1>2, ArenaKept

(* An arena is dropped. *)
LEMMA SoundDrop ==
  ASSUME NEW o, NEW c, NEW H, Sound(o, c, H), NEW h \in H, NEW n \in DropBacking(o, h[2].b)
  PROVE  Sound(n, c, H \ {h}) /\ Told(o, n, {"unmap", "unlock"})
  <1> DEFINE X == Used(H \ {h})
             b == h[2].b
  <1>1. Used(H) = X \cup Own(b) /\ X \cap Own(b) = {} /\ b.region # 0 /\ b.meta # b.region
    BY OneOfUsed
  <1>2. Holds(o, X \cup Own(b))
    BY <1>1 DEF Sound
  <1> HIDE DEF X, b
  <1>3. Holds(n, X) /\ Untouched(o, n, X) /\ Told(o, n, {"unmap", "unlock"})
    BY <1>1, <1>2, DropHolds DEF b
  <1>4. X \subseteq DOMAIN n.maps
    BY <1>3 DEF Holds
  <1>5. \A g \in H \ {h} : ArenaOk(n, c, g[2])
    BY <1>3, <1>4, OthersKept DEF X
  <1> QED BY <1>3, <1>5 DEF Sound, X

(* A constructor was asked for one more arena. *)
LEMMA SoundMint ==
  ASSUME NEW o, NEW c, NEW H, Sound(o, c, H), NEW m, Minted(o, c, Used(H), m), NEW g, g[2] = m.a
  PROVE  /\ m.a = NoArena => Sound(m.os, c, H)
         /\ m.a # NoArena => Sound(m.os, c, H \cup {g})
  <1>1. CASE m.a = NoArena
    <2>1. Holds(m.os, Used(H)) /\ Untouched(o, m.os, Used(H))
      BY <1>1 DEF Minted
    <2>2. Used(H) \subseteq DOMAIN m.os.maps
      BY <2>1 DEF Holds
    <2>3. \A h \in H : ArenaOk(m.os, c, h[2])
      BY <2>1, <2>2, OthersKept
    <2> QED BY <1>1, <2>1, <2>3 DEF Sound
  <1>2. CASE m.a # NoArena
    <2> DEFINE X == Used(H)
               b == m.a.b
    <2>1. /\ Fresh(m.a) /\ Holds(m.os, X \cup Own(b)) /\ X \cap Own(b) = {}
          /\ BackingOk(m.os, c, Len(c.layers), b) /\ Untouched(o, m.os, X)
      BY <1>2 DEF Minted
    <2>2. ArenaOk(m.os, c, m.a)
      BY <2>1, FreshOkay
    <2>3. X \subseteq DOMAIN m.os.maps
      BY <2>1 DEF Holds
    <2>4. \A h \in H : ArenaOk(m.os, c, h[2])
      BY <2>1, <2>3, OthersKept
    <2>5. Used(H \cup {g}) = X \cup Own(b)
      BY DEF Used
    <2>6. \A h \in H : Own(h[2].b) \subseteq X
      BY DEF Used
    <2> HIDE DEF X, b
    <2>7. \A h \in H \cup {g} : ArenaOk(m.os, c, h[2])
      BY <2>2, <2>4
    <2>8. ASSUME NEW h \in H \cup {g}, NEW f \in H \cup {g}, h # f
          PROVE  Own(h[2].b) \cap Own(f[2].b) = {}
      <3>1. CASE h \in H /\ f \in H
        BY <2>8, <3>1 DEF Sound
      <3>2. CASE h \in H /\ f = g
        BY <3>2, <2>1, <2>6 DEF b
      <3>3. CASE f \in H /\ h = g
        BY <3>3, <2>1, <2>6 DEF b
      <3> QED BY <2>8, <3>1, <3>2, <3>3
    <2>9. Sound(m.os, c, H \cup {g})
      BY <2>1, <2>5, <2>7, <2>8 DEF Sound
    <2> QED BY <1>2, <2>9
  <1> QED BY <1>1, <1>2

(* An arena changes, or its holder does. *)
LEMMA SoundSwap ==
  ASSUME NEW o, NEW n, NEW c, NEW H, Sound(o, c, H), NEW h \in H, NEW g,
         Own(g[2].b) = Own(h[2].b), ArenaOk(n, c, g[2]),
         Holds(n, Used(H)), Untouched(o, n, Used(H \ {h}))
  PROVE  Sound(n, c, (H \ {h}) \cup {g})
  <1> DEFINE X == Used(H \ {h})
             G == H \ {h}
  <1>1. Used(H) = X \cup Own(h[2].b) /\ X \cap Own(h[2].b) = {}
    BY OneOfUsed
  <1>2. Used(G \cup {g}) = X \cup Own(g[2].b)
    BY DEF Used
  <1>3. \A f \in G : Own(f[2].b) \subseteq X
    BY DEF Used
  <1>4. X \subseteq DOMAIN n.maps
    BY <1>1 DEF Holds
  <1>5. \A f \in G : ArenaOk(n, c, f[2])
    BY <1>4, OthersKept
  <1>6. \A f, e \in G : f # e => Own(f[2].b) \cap Own(e[2].b) = {}
    BY DEF Sound
  <1> HIDE DEF X, G
  <1>7. ASSUME NEW f \in G \cup {g}, NEW e \in G \cup {g}, f # e
        PROVE  Own(f[2].b) \cap Own(e[2].b) = {}
    <2>1. CASE f \in G /\ e \in G
      BY <1>6, <1>7, <2>1
    <2>2. CASE f \in G /\ e = g
      BY <2>2, <1>1, <1>3
    <2>3. CASE e \in G /\ f = g
      BY <2>3, <1>1, <1>3
    <2> QED BY <1>7, <2>1, <2>2, <2>3
  <1>8. Holds(n, Used(G \cup {g}))
    BY <1>1, <1>2
  <1>9. \A f \in G \cup {g} : ArenaOk(n, c, f[2])
    BY <1>5
  <1>10. Sound(n, c, G \cup {g})
    BY <1>7, <1>8, <1>9 DEF Sound
  <1> QED BY <1>10 DEF G

(* Nothing but errors changes. *)
LEMMA SoundSame ==
  ASSUME NEW o, NEW n, NEW c, NEW H, Sound(o, c, H), OsRec(n), n.platform = o.platform,
         n.maps = o.maps, n.lost = o.lost
  PROVE  Sound(n, c, H)
  <1>1. Holds(n, Used(H))
    BY DEF Sound, Holds, OsOk
  <1>2. Untouched(o, n, Used(H)) /\ Used(H) \subseteq DOMAIN n.maps
    BY <1>1 DEF Untouched, Holds
  <1>3. \A h \in H : ArenaOk(n, c, h[2])
    BY <1>2, OthersKept
  <1> QED BY <1>1, <1>3 DEF Sound
-----------------------------------------------------------------------------
(* The holders after a step. *)
With(S, x) == S \cup {x}
Without(S, x) == S \ {x}

LEMMA HoldersMore ==
  ASSUME NEW O, NEW s, NEW a
  PROVE  Holders(With(O, a), s) = With(Holders(O, s), <<0, a>>)
BY DEF Holders, With

LEMMA HoldersLess ==
  ASSUME NEW O, NEW s, NEW a, Len(s) \in Nat
  PROVE  Holders(Without(O, a), s) = Without(Holders(O, s), <<0, a>>)
  <1>1. \A i \in 1..Len(s) : <<i, s[i]>> # <<0, a>>
    OBVIOUS
  <1>2. \A x \in O : <<0, x>> = <<0, a>> <=> x = a
    OBVIOUS
  <1> QED BY <1>1, <1>2 DEF Holders, Without

LEMMA HoldersAppend ==
  ASSUME NEW O, NEW S, NEW s \in Seq(S), NEW a \in S
  PROVE  /\ Holders(O, Append(s, a)) = With(Holders(O, s), <<Len(s) + 1, a>>)
         /\ Append(s, a) \in Seq(S) /\ Len(Append(s, a)) = Len(s) + 1
  <1> DEFINE t == Append(s, a)
             n == Len(s)
  <1>1. n \in Nat /\ Len(t) = n + 1 /\ t \in Seq(S) /\ t[n + 1] = a /\ \A i \in 1..n : t[i] = s[i]
    OBVIOUS
  <1> HIDE DEF t, n
  <1>2. {<<i, t[i]>> : i \in 1..(n + 1)} = {<<i, s[i]>> : i \in 1..n} \cup {<<n + 1, a>>}
    <2>1. \A i \in 1..(n + 1) : i \in 1..n \/ i = n + 1
      BY <1>1
    <2>2. \A i \in 1..n : i \in 1..(n + 1)
      BY <1>1
    <2>3. n + 1 \in 1..(n + 1)
      BY <1>1
    <2> QED BY <1>1, <2>1, <2>2, <2>3, Zenon
  <1>3. Holders(O, t) = Holders(O, s) \cup {<<n + 1, a>>}
    BY <1>1, <1>2 DEF Holders, n
  <1> QED BY <1>1, <1>3 DEF t, n, With

LEMMA HoldersFront ==
  ASSUME NEW O, NEW S, NEW s \in Seq(S), s # <<>>
  PROVE  /\ Holders(O, Front(s)) = Without(Holders(O, s), <<Len(s), Last(s)>>)
         /\ <<Len(s), Last(s)>> \in Holders(O, s)
         /\ Front(s) \in Seq(S) /\ Len(Front(s)) = Len(s) - 1 /\ Last(s) \in S
  <1> DEFINE t == Front(s)
             n == Len(s)
  <1>1. n \in Nat /\ n >= 1 /\ Last(s) = s[n] /\ s[n] \in S
    BY DEF Last
  <1>2. t \in Seq(S) /\ Len(t) = n - 1 /\ \A i \in 1..(n - 1) : t[i] = s[i]
    <2>1. t = SubSeq(s, 1, n - 1)
      BY DEF Front
    <2>2. /\ SubSeq(s, 1, n - 1) \in Seq(S) /\ Len(SubSeq(s, 1, n - 1)) = n - 1
          /\ \A i \in 1..(n - 1) : SubSeq(s, 1, n - 1)[i] = s[i]
      <3>1. \A i \in 1..(n - 1) : s[i] \in S
        BY <1>1
      <3>2. n - 1 \in Int /\ 1 \in Int /\ (n - 1) - 1 + 1 = n - 1
        BY <1>1
      <3>3. \A i \in 1..(n - 1) : 1 + i - 1 = i
        BY <1>1
      <3> HIDE DEF n
      <3>4. /\ SubSeq(s, 1, n - 1) \in Seq(S)
            /\ Len(SubSeq(s, 1, n - 1)) = IF 1 <= n - 1 THEN (n - 1) - 1 + 1 ELSE 0
            /\ \A i \in 1..((n - 1) - 1 + 1) : SubSeq(s, 1, n - 1)[i] = s[1 + i - 1]
        BY <3>1, <3>2, SubSeqProperties
      <3>5. Len(SubSeq(s, 1, n - 1)) = n - 1
        BY <1>1, <3>4
      <3>6. \A i \in 1..(n - 1) : SubSeq(s, 1, n - 1)[i] = s[i]
        BY <3>2, <3>3, <3>4
      <3> QED BY <3>4, <3>5, <3>6
    <2> QED BY <2>1, <2>2
  <1> HIDE DEF t, n
  <1>3. {<<i, t[i]>> : i \in 1..(n - 1)} = {<<i, s[i]>> : i \in 1..n} \ {<<n, s[n]>>}
    <2>1. \A i \in 1..(n - 1) : i \in 1..n /\ i # n
      BY <1>1
    <2>2. \A i \in 1..n : i # n => i \in 1..(n - 1)
      BY <1>1
    <2>3. \A i, j \in 1..n : <<i, s[i]>> = <<j, s[j]>> => i = j
      OBVIOUS
    <2> QED BY <1>1, <1>2, <2>1, <2>2, <2>3
  <1>4. \A x \in O : <<0, x>> # <<n, s[n]>>
    BY <1>1
  <1>5. Holders(O, t) = Holders(O, s) \ {<<n, s[n]>>}
    BY <1>1, <1>2, <1>3, <1>4 DEF Holders, n
  <1>6. <<n, s[n]>> \in Holders(O, s)
    BY <1>1 DEF Holders, n
  <1> QED BY <1>1, <1>2, <1>5, <1>6 DEF t, n, Without

(* The arenas of a pool. *)
Backings == [layers : Seq(STRING), region : Nat, meta : Nat, base : Nat, len : Nat, committed : Nat]

Idles == [b : Backings, cursor : {0}, marks : {<<>>}, blocks : {{}}]

LEMMA BackingsIs ==
  ASSUME NEW o, NEW X, Holds(o, X), NEW c, NEW k, NEW b, BackingOk(o, c, k, b), Own(b) \subseteq X
  PROVE  b \in Backings
  <1>1. \A r \in X : r \in Nat
    BY ArenaConstants DEF Holds, OsOk
  <1>2. b.region \in Nat /\ b.meta \in Nat
    BY <1>1 DEF Own, BackingOk
  <1>3. b.committed \in Nat
    BY DEF BackingOk, RegionOk, Holds, OsOk, MapOk
  <1> QED BY <1>2, <1>3 DEF BackingOk, BackingRec, Backings

LEMMA IdleIs ==
  ASSUME NEW o, NEW c, NEW H, Sound(o, c, H), NEW h \in H
  PROVE  h[2].b \in Backings
  <1>1. Own(h[2].b) \subseteq Used(H)
    BY DEF Used
  <1> QED BY <1>1, BackingsIs DEF Sound, ArenaOk

LEMMA FreshIdle ==
  ASSUME NEW a, Fresh(a), a.b \in Backings
  PROVE  a \in Idles
BY DEF Fresh, Idles

LEMMA FreshReset ==
  ASSUME NEW a, ArenaRec(a), a.marks = <<>>, \A k \in a.blocks : k.off \in Nat /\ k.size \in Nat \ {0}
  PROVE  Fresh(ResetArena(a)) /\ ResetArena(a).b = a.b
  <1> DEFINE e == [a EXCEPT !.cursor = 0]
             B == {k \in a.blocks : k.off + k.size <= 0}
             x == a.b
             y == a.marks
             z == a.blocks
             f == [b |-> x, cursor |-> 0, marks |-> y, blocks |-> z]
  <1>1. B = {}
    OBVIOUS
  <1>2. e = f
    BY DEF ArenaRec
  <1>3. ResetArena(a) = [e EXCEPT !.blocks = B]
    BY <1>2 DEF ResetArena, RewoundTo
  <1> HIDE DEF B, x, y, z
  <1>4. [f EXCEPT !.blocks = B] = [b |-> x, cursor |-> 0, marks |-> y, blocks |-> B]
    OBVIOUS
  <1> HIDE DEF e, f
  <1>5. ResetArena(a) = [b |-> a.b, cursor |-> 0, marks |-> a.marks, blocks |-> B]
    BY <1>2, <1>3, <1>4 DEF x, y
  <1>6. ResetArena(a).b = a.b
    BY <1>5
  <1> QED BY <1>1, <1>5, <1>6 DEF Fresh, B
-----------------------------------------------------------------------------
(* The bytes of a mapping are written. *)
Refilled(o, n, r) ==
  LET q == o.maps[r]
      m == n.maps[r]
  IN /\ Changed(o, n, r, m) /\ MapOk(m)
     /\ m.addr = q.addr /\ m.len = q.len /\ m.backed = q.backed /\ m.locked = q.locked
     /\ m.guards = q.guards

IsMem(f, extent) == f = [i \in 0..(extent - 1) |-> f[i]]

Filled(o, r, f) == [o EXCEPT !.maps[r].mem = f]

LEMMA RefilledIs ==
  ASSUME NEW o, OsOk(o), NEW r \in DOMAIN o.maps, NEW f, IsMem(f, o.maps[r].len)
  PROVE  Refilled(o, Filled(o, r, f), r) /\ Filled(o, r, f).maps[r].mem = f
  <1> DEFINE q == o.maps[r]
             m == [addr |-> q.addr, len |-> q.len, backed |-> q.backed, locked |-> q.locked,
                   guards |-> q.guards, mem |-> f]
             n == [o EXCEPT !.maps[r].mem = f]
  <1>1. MapOk(q)
    BY DEF OsOk
  <1> HIDE DEF q
  <1>2. [q EXCEPT !.mem = f] = m
    BY <1>1 DEF MapOk
  <1>3. /\ MapOk(m) /\ m.addr = q.addr /\ m.len = q.len /\ m.backed = q.backed
        /\ m.locked = q.locked /\ m.guards = q.guards /\ m.mem = f
    BY <1>1 DEF MapOk, IsMem, q
  <1>4. n = [o EXCEPT !.maps = [o.maps EXCEPT ![r] = [q EXCEPT !.mem = f]]]
    BY DEF q
  <1> HIDE DEF m, n, q
  <1>5. Changed(o, [o EXCEPT !.maps = [o.maps EXCEPT ![r] = m]], r, m)
    BY FieldSet
  <1>6. Changed(o, n, r, m)
    BY <1>2, <1>4, <1>5
  <1>7. n.maps[r] = m
    BY <1>6 DEF Changed
  <1>8. Refilled(o, n, r) /\ n.maps[r].mem = f
    BY <1>3, <1>6, <1>7 DEF Refilled, q
  <1> QED BY <1>8 DEF n, Filled

LEMMA RefilledOk ==
  ASSUME NEW o, OsOk(o), NEW r \in DOMAIN o.maps, NEW n, Refilled(o, n, r)
  PROVE  OsOk(n) /\ r \in DOMAIN n.maps
BY DEF Refilled, Changed, OsOk

LEMMA RefilledTrans ==
  ASSUME NEW o, NEW p, NEW n, NEW r, Refilled(o, p, r), Refilled(p, n, r)
  PROVE  Refilled(o, n, r)
BY DEF Refilled, Changed

LEMMA RefilledBacking ==
  ASSUME NEW o, NEW n, NEW c, NEW k, NEW b, BackingOk(o, c, k, b), Refilled(o, n, b.region)
  PROVE  BackingOk(n, c, k, b)
  <1>1. n.platform = o.platform /\ DOMAIN n.maps = DOMAIN o.maps
    BY DEF Refilled, Changed
  <1>2. RegionLen(n, c) = RegionLen(o, c)
    BY <1>1, SaneSame
  <1>3. LaidOut(n, c, n.maps[b.region])
    BY <1>2 DEF LaidOut, BackingOk, Refilled
  <1>4. RegionOk(n, c, Guarded(c, k), b, n.maps[b.region])
    BY <1>1 DEF RegionOk, BackingOk, Refilled
  <1> QED BY <1>1, <1>3, <1>4 DEF BackingOk

LEMMA WrittenIs ==
  ASSUME NEW o, OsOk(o), NEW b, b.region \in DOMAIN o.maps, NEW off, NEW values
  PROVE  /\ Refilled(o, Written(o, b, off, values), b.region)
         /\ \A i \in 0..(o.maps[b.region].len - 1) :
              Written(o, b, off, values).maps[b.region].mem[i] =
                IF i - b.base - off \in DOMAIN values THEN values[i - b.base - off]
                ELSE o.maps[b.region].mem[i]
  <1> DEFINE r == b.region
             q == o.maps[r]
             f == [i \in 0..(q.len - 1) |->
                     IF i - b.base - off \in DOMAIN values THEN values[i - b.base - off] ELSE q.mem[i]]
             n == Written(o, b, off, values)
  <1>0. MapOk(q)
    BY DEF OsOk
  <1>1. DOMAIN q.mem = 0..(q.len - 1)
    BY <1>0 DEF MapOk
  <1>2. n = Filled(o, r, f)
    BY <1>1 DEF Written, Filled
  <1>3. IsMem(f, o.maps[r].len)
    BY DEF IsMem
  <1>4. \A i \in 0..(q.len - 1) :
          f[i] = IF i - b.base - off \in DOMAIN values THEN values[i - b.base - off] ELSE q.mem[i]
    OBVIOUS
  <1> HIDE DEF f, n
  <1>5. Refilled(o, Filled(o, r, f), r) /\ Filled(o, r, f).maps[r].mem = f
    BY <1>3, RefilledIs
  <1>6. Refilled(o, n, r) /\ n.maps[r].mem = f
    BY <1>2, <1>5
  <1> QED BY <1>4, <1>6 DEF n

(* What is left of the bytes when the blocks in use are known. *)
Settled(o, r, used) ==
  [o EXCEPT !.maps[r].mem =
     [i \in DOMAIN @ |-> IF i \in used \/ @[i] = Poison THEN @[i] ELSE Junk]]

LEMMA SettledIs ==
  ASSUME NEW o, OsOk(o), NEW r \in DOMAIN o.maps, NEW used
  PROVE  /\ Refilled(o, Settled(o, r, used), r)
         /\ \A i \in 0..(o.maps[r].len - 1) :
              i \in used => Settled(o, r, used).maps[r].mem[i] = o.maps[r].mem[i]
  <1> DEFINE q == o.maps[r]
             f == [i \in 0..(q.len - 1) |-> IF i \in used \/ q.mem[i] = Poison THEN q.mem[i] ELSE Junk]
             n == Settled(o, r, used)
  <1>0. MapOk(q)
    BY DEF OsOk
  <1>1. DOMAIN q.mem = 0..(q.len - 1)
    BY <1>0 DEF MapOk
  <1>2. n = Filled(o, r, f)
    BY <1>1 DEF Settled, Filled
  <1>3. IsMem(f, o.maps[r].len)
    BY DEF IsMem
  <1>4. \A i \in 0..(q.len - 1) : i \in used => f[i] = q.mem[i]
    OBVIOUS
  <1> HIDE DEF f, n
  <1>5. Refilled(o, Filled(o, r, f), r) /\ Filled(o, r, f).maps[r].mem = f
    BY <1>3, RefilledIs
  <1>6. Refilled(o, n, r) /\ n.maps[r].mem = f
    BY <1>2, <1>5
  <1> QED BY <1>4, <1>6 DEF n

-----------------------------------------------------------------------------
(* Pages are committed. *)
Grown(o, n, r) ==
  LET q == o.maps[r]
      m == n.maps[r]
  IN /\ Changed(o, n, r, m) /\ MapOk(m)
     /\ m.addr = q.addr /\ m.len = q.len /\ m.locked = q.locked /\ m.guards = q.guards
     /\ m.mem = q.mem /\ q.backed <= m.backed

LEMMA GrownIs ==
  ASSUME NEW o, OsOk(o), NEW r \in DOMAIN o.maps, NEW end \in Nat, end <= o.maps[r].len,
         o.maps[r].backed <= end
  PROVE  /\ Grown(o, [o EXCEPT !.maps[r].backed = end], r)
         /\ [o EXCEPT !.maps[r].backed = end].maps[r].backed = end
  <1> DEFINE q == o.maps[r]
             m == [addr |-> q.addr, len |-> q.len, backed |-> end, locked |-> q.locked,
                   guards |-> q.guards, mem |-> q.mem]
             n == [o EXCEPT !.maps[r].backed = end]
  <1>1. MapOk(q)
    BY DEF OsOk
  <1> HIDE DEF q
  <1>2. [q EXCEPT !.backed = end] = m
    BY <1>1 DEF MapOk
  <1>3. /\ MapOk(m) /\ m.addr = q.addr /\ m.len = q.len /\ m.backed = end
        /\ m.locked = q.locked /\ m.guards = q.guards /\ m.mem = q.mem
    BY <1>1 DEF MapOk, q
  <1>4. n = [o EXCEPT !.maps = [o.maps EXCEPT ![r] = [q EXCEPT !.backed = end]]]
    BY DEF q
  <1> HIDE DEF m, n, q
  <1>5. Changed(o, [o EXCEPT !.maps = [o.maps EXCEPT ![r] = m]], r, m)
    BY FieldSet
  <1>6. Changed(o, n, r, m)
    BY <1>2, <1>4, <1>5
  <1>7. n.maps[r] = m
    BY <1>6 DEF Changed
  <1>8. Grown(o, n, r) /\ n.maps[r].backed = end
    BY <1>3, <1>6, <1>7 DEF Grown, q
  <1> QED BY <1>8 DEF n

LEMMA GrownSelf ==
  ASSUME NEW o, OsOk(o), NEW r \in DOMAIN o.maps
  PROVE  Grown(o, o, r)
BY DEF OsOk, Grown, Changed, MapOk

LEMMA GrownOk ==
  ASSUME NEW o, OsOk(o), NEW r \in DOMAIN o.maps, NEW n, Grown(o, n, r)
  PROVE  OsOk(n) /\ r \in DOMAIN n.maps
BY DEF Grown, Changed, OsOk
Commits(o, c, b, end, v) ==
  \/ v.ok = FALSE /\ v.b = b /\ Fell(o, v.os, "commit")
  \/ /\ v.ok = TRUE /\ Grown(o, v.os, b.region) /\ BackingOk(v.os, c, Len(c.layers), v.b)
     /\ Own(v.b) = Own(b) /\ v.b.region = b.region /\ v.b.base = b.base /\ v.b.len = b.len
     /\ v.b.layers = b.layers /\ b.base + end <= v.os.maps[b.region].backed

LEMMA GuardLayer ==
  ASSUME NEW o, NEW c \in Confs, NEW b, BackingOk(o, c, Len(c.layers), b)
  PROVE  /\ Contains(b.layers, "guard") <=> Guarded(c, Len(c.layers))
         /\ Bottom(b) = c.layers[1]
  <1>1. Len(c.layers) \in Nat /\ Len(c.layers) >= 1
    BY ConfFacts
  <1>2. Len(b.layers) = Len(c.layers) /\ \A i \in 1..Len(c.layers) : b.layers[i] = c.layers[i]
    BY DEF BackingOk
  <1>3. Bottom(b) = c.layers[1]
    BY <1>1, <1>2 DEF Bottom
  <1>4. Contains(b.layers, "guard") <=> Guarded(c, Len(c.layers))
    BY <1>2 DEF Contains, Guarded
  <1> QED BY <1>3, <1>4

LEMMA GrownBacking ==
  ASSUME NEW o, NEW n, NEW c, NEW k, NEW b, BackingOk(o, c, k, b), Grown(o, n, b.region),
         OsOk(o), ~Guarded(c, k), c.layers[1] = "lazy", o.platform = "windows",
         NEW d, BackingRec(d), d.layers = b.layers, d.region = b.region, d.meta = b.meta,
         d.base = b.base, d.len = b.len, d.committed = n.maps[b.region].backed
  PROVE  BackingOk(n, c, k, d) /\ Own(d) = Own(b)
  <1>1. n.platform = o.platform /\ DOMAIN n.maps = DOMAIN o.maps
    BY DEF Grown, Changed
  <1>2. RegionLen(n, c) = RegionLen(o, c)
    BY <1>1, SaneSame
  <1> DEFINE m == n.maps[b.region]
             q == o.maps[b.region]
  <1>3. /\ m.addr = q.addr /\ m.len = q.len /\ m.locked = q.locked /\ m.guards = q.guards
    BY DEF Grown
  <1> HIDE DEF m
  <1>4. LaidOut(n, c, m)
    BY <1>2, <1>3 DEF LaidOut, BackingOk
  <1>5. RegionOk(o, c, Guarded(c, k), b, q)
    BY DEF BackingOk
  <1> HIDE DEF q
  <1>6. RegionOk(n, c, Guarded(c, k), d, m)
    BY <1>1, <1>3, <1>5 DEF RegionOk, m
  <1>7. BackingOk(n, c, k, d)
    BY <1>1, <1>4, <1>6 DEF BackingOk, m
  <1>8. Own(d) = Own(b)
    BY DEF Own
  <1> QED BY <1>7, <1>8

LEMMA CommitIs ==
  ASSUME NEW o, OsOk(o), NEW c \in Confs, NEW b, BackingOk(o, c, Len(c.layers), b),
         NEW off \in Nat, NEW extent \in Nat, off + extent <= b.len, NEW v \in Commit(o, b, off, extent)
  PROVE  Commits(o, c, b, off + extent, v)
  <1> DEFINE r == b.region
             m == o.maps[r]
             k == Len(c.layers)
             paged == AlignUp(off + extent, Page)
             end == IF paged < m.len THEN paged ELSE m.len
  <1>1. /\ MapOk(m) /\ m.len \in Nat /\ m.backed \in Nat /\ b.base \in Nat /\ b.len \in Nat
        /\ r \in DOMAIN o.maps /\ BackingRec(b) /\ OsRec(o) /\ m.backed <= m.len
    <2>1. r \in DOMAIN o.maps /\ b.base \in Nat /\ b.len \in Nat /\ BackingRec(b)
      BY DEF BackingOk
    <2>2. MapOk(m) /\ OsRec(o)
      BY <2>1 DEF OsOk
    <2> QED BY <2>1, <2>2 DEF MapOk
  <1>2. RegionOk(o, c, Guarded(c, k), b, m)
    BY DEF BackingOk
  <1>3. Contains(b.layers, "guard") <=> Guarded(c, k)
    BY GuardLayer
  <1>4. Bottom(b) = c.layers[1]
    BY GuardLayer
  <1>5. b.base + b.len <= m.len /\ b.committed = m.backed
    BY <1>2 DEF RegionOk
  <1>6. paged \in Nat /\ paged >= off + extent
    BY RoundedUp, ArenaConstants
  <1> HIDE DEF m, k, paged
  <1>7. ASSUME v = [os |-> o, b |-> b, ok |-> TRUE], b.base + (off + extent) <= m.backed
        PROVE  Commits(o, c, b, off + extent, v)
    <2>1. v.os = o /\ v.b = b /\ v.ok = TRUE
      BY <1>7
    <2>2. Grown(o, o, r)
      BY <1>1, GrownSelf
    <2> QED BY <1>7, <2>1, <2>2 DEF Commits, m
  <1>8. m.backed = m.len => b.base + (off + extent) <= m.backed
    BY <1>1, <1>5
  <1>9. CASE ~(Bottom(b) \in {"mmap", "lazy", "locked"} /\ ~Contains(b.layers, "guard"))
    <2>1. m.backed = m.len
      BY <1>2, <1>3, <1>4, <1>9 DEF RegionOk
    <2>2. v = [os |-> o, b |-> b, ok |-> TRUE]
      BY <1>9 DEF Commit
    <2> QED BY <1>7, <1>8, <2>1, <2>2
  <1>10. CASE Bottom(b) \in {"mmap", "lazy", "locked"} /\ ~Contains(b.layers, "guard")
    <2>0. v \in OsCommit(o, b, off, extent)
      BY <1>10 DEF Commit
    <2>1. b.base = 0 /\ b.len = m.len
      BY <1>2, <1>3, <1>10 DEF RegionOk
    <2>2. end \in Nat /\ off + extent <= end /\ end <= m.len
      BY <1>1, <1>6, <2>1
    <2>3. CASE o.platform # "windows" \/ end <= b.committed
      <3>1. v = [os |-> o, b |-> b, ok |-> TRUE]
        BY <2>0, <2>3 DEF OsCommit, m, paged
      <3>2. b.base + (off + extent) <= m.backed
        <4>1. CASE o.platform # "windows"
          BY <4>1, <1>2, <1>8 DEF RegionOk
        <4>2. CASE end <= b.committed
          <5> HIDE DEF end
          <5> QED BY <4>2, <1>1, <1>5, <2>1, <2>2
        <4> QED BY <2>3, <4>1, <4>2
      <3> QED BY <1>7, <3>1, <3>2
    <2>4. CASE ~(o.platform # "windows" \/ end <= b.committed)
      <3>1. v \in {[os |-> [o EXCEPT !.maps[r].backed = end], b |-> [b EXCEPT !.committed = end],
                    ok |-> TRUE]}
                  \cup {[os |-> f, b |-> b, ok |-> FALSE] : f \in MayFail(o, "commit")}
        BY <2>0, <2>4 DEF OsCommit, m, paged
      <3> HIDE DEF end
      <3>2. o.platform = "windows" /\ m.backed < end /\ c.layers[1] = "lazy"
        <4>1. o.platform = "windows" /\ m.backed < end
          BY <1>1, <1>5, <2>2, <2>4
        <4>2. m.backed # m.len
          BY <1>1, <2>2, <4>1
        <4> QED BY <4>1, <4>2, <1>2 DEF RegionOk
      <3>3. CASE v \in {[os |-> f, b |-> b, ok |-> FALSE] : f \in MayFail(o, "commit")}
        <4>1. PICK f \in MayFail(o, "commit") : v = [os |-> f, b |-> b, ok |-> FALSE]
          BY <3>3
        <4>2. Fell(o, f, "commit")
          BY <1>1, MayFailIs
        <4> QED BY <4>1, <4>2 DEF Commits
      <3>4. CASE v = [os |-> [o EXCEPT !.maps[r].backed = end], b |-> [b EXCEPT !.committed = end],
                      ok |-> TRUE]
        <4> DEFINE n == [o EXCEPT !.maps[r].backed = end]
                   d == [b EXCEPT !.committed = end]
                   e == [layers |-> b.layers, region |-> b.region, meta |-> b.meta, base |-> b.base,
                         len |-> b.len, committed |-> end]
        <4>1. Grown(o, n, r) /\ n.maps[r].backed = end
          <5>1. end <= o.maps[r].len /\ o.maps[r].backed <= end
            BY <1>1, <2>2, <3>2 DEF m
          <5> HIDE DEF r
          <5> QED BY <1>1, <2>2, <5>1, GrownIs
        <4>2. d = e
          BY <1>1 DEF BackingRec
        <4>3. /\ BackingRec(e) /\ e.layers = b.layers /\ e.region = b.region /\ e.meta = b.meta
              /\ e.base = b.base /\ e.len = b.len /\ e.committed = end
          BY DEF BackingRec
        <4> HIDE DEF n, d, e
        <4>4. BackingOk(n, c, Len(c.layers), e) /\ Own(e) = Own(b)
          <5>1. ~Guarded(c, Len(c.layers))
            BY <1>3, <1>10 DEF k
          <5>2. Grown(o, n, b.region) /\ e.committed = n.maps[b.region].backed
            BY <4>1, <4>3
          <5>3. c.layers[1] = "lazy" /\ o.platform = "windows"
            BY <3>2
          <5> HIDE DEF r
          <5> QED BY <4>3, <5>1, <5>2, <5>3, GrownBacking
        <4>5. v.os = n /\ v.b = e /\ v.ok = TRUE
          BY <3>4, <4>2 DEF n, d
        <4>6. b.base + (off + extent) <= n.maps[r].backed
          BY <2>1, <2>2, <4>1
        <4> QED BY <4>1, <4>3, <4>4, <4>5, <4>6 DEF Commits
      <3> QED BY <3>1, <3>3, <3>4
    <2> QED BY <2>3, <2>4
  <1> QED BY <1>9, <1>10
-----------------------------------------------------------------------------
(* The cursor of an arena moves. *)
Advanced(o, n, c, a, z, end) ==
  /\ Grown(o, n, a.b.region) /\ BackingOk(n, c, Len(c.layers), z.b)
  /\ z = [b |-> z.b, cursor |-> end, marks |-> a.marks, blocks |-> a.blocks]
  /\ Own(z.b) = Own(a.b) /\ z.b.region = a.b.region /\ z.b.base = a.b.base /\ z.b.len = a.b.len
  /\ end \in Nat /\ a.cursor <= end /\ end <= a.b.len
  /\ a.b.base + end <= n.maps[a.b.region].backed

Moves(o, c, a, end, v) ==
  \/ v.ok = FALSE /\ v.a = a /\ Fell(o, v.os, "commit")
  \/ v.ok = TRUE /\ Advanced(o, v.os, c, a, v.a, end)

LEMMA MovesIs ==
  ASSUME NEW o, OsOk(o), NEW c \in Confs, NEW a, ArenaOk(o, c, a), NEW off \in Nat, NEW extent \in Nat,
         off + extent <= a.b.len, a.cursor <= off + extent, NEW v \in CommitThenCursor(o, a, off, extent, off + extent)
  PROVE  Moves(o, c, a, off + extent, v)
  <1> DEFINE end == off + extent
  <1>1. PICK w \in Commit(o, a.b, off, extent) :
          v = [os |-> w.os, ok |-> w.ok, a |-> [a EXCEPT !.b = w.b, !.cursor = IF w.ok THEN end ELSE @]]
    BY DEF CommitThenCursor
  <1>2. BackingOk(o, c, Len(c.layers), a.b) /\ ArenaRec(a)
    BY DEF ArenaOk
  <1>3. Commits(o, c, a.b, end, w)
    BY <1>2, CommitIs
  <1>4. end \in Nat
    OBVIOUS
  <1> HIDE DEF end
  <1> DEFINE z(cur) == [b |-> w.b, cursor |-> cur, marks |-> a.marks, blocks |-> a.blocks]
  <1>5. ASSUME NEW cur PROVE [a EXCEPT !.b = w.b, !.cursor = cur] = z(cur)
    <2>1. [a EXCEPT !.b = w.b] = z(a.cursor)
      BY <1>2 DEF ArenaRec
    <2>2. [a EXCEPT !.b = w.b, !.cursor = cur] = [[a EXCEPT !.b = w.b] EXCEPT !.cursor = cur]
      OBVIOUS
    <2>3. [z(a.cursor) EXCEPT !.cursor = cur] = z(cur)
      OBVIOUS
    <2> QED BY <2>1, <2>2, <2>3
  <1>6. CASE w.ok = FALSE /\ w.b = a.b /\ Fell(o, w.os, "commit")
    <2>1. v = [os |-> w.os, ok |-> FALSE, a |-> [a EXCEPT !.b = w.b, !.cursor = a.cursor]]
      BY <1>1, <1>6
    <2>2. v = [os |-> w.os, ok |-> FALSE, a |-> z(a.cursor)]
      BY <2>1, <1>5
    <2>3. z(a.cursor) = a
      BY <1>2, <1>6 DEF ArenaRec
    <2>4. v.os = w.os /\ v.ok = FALSE /\ v.a = a
      BY <2>2, <2>3
    <2> QED BY <1>6, <2>4 DEF Moves
  <1>7. CASE w.ok = TRUE
    <2>1. v = [os |-> w.os, ok |-> TRUE, a |-> [a EXCEPT !.b = w.b, !.cursor = end]]
      BY <1>1, <1>7
    <2>2. v = [os |-> w.os, ok |-> TRUE, a |-> z(end)]
      BY <2>1, <1>5
    <2> DEFINE y == z(end)
    <2>3. y = [b |-> y.b, cursor |-> end, marks |-> a.marks, blocks |-> a.blocks] /\ y.b = w.b
      OBVIOUS
    <2>4. v.os = w.os /\ v.ok = TRUE /\ v.a = y
      BY <2>2
    <2> HIDE DEF y, z
    <2>5. /\ Grown(o, w.os, a.b.region) /\ BackingOk(w.os, c, Len(c.layers), w.b)
          /\ Own(w.b) = Own(a.b) /\ w.b.region = a.b.region /\ w.b.base = a.b.base
          /\ w.b.len = a.b.len /\ a.b.base + end <= w.os.maps[a.b.region].backed
      BY <1>3, <1>7 DEF Commits
    <2>6. a.cursor <= end /\ end <= a.b.len
      BY DEF end
    <2>7. Advanced(o, w.os, c, a, y, end)
      BY <1>4, <2>3, <2>5, <2>6 DEF Advanced
    <2> QED BY <2>4, <2>7 DEF Moves, end
  <1>8. w.ok = TRUE \/ (w.ok = FALSE /\ w.b = a.b /\ Fell(o, w.os, "commit"))
    BY <1>3 DEF Commits
  <1> QED BY <1>6, <1>7, <1>8 DEF end

(* What a request for l comes back with. *)
Bumps(o, c, a, l, m) ==
  \/ m.ok = FALSE /\ m.a = a /\ (m.os = o \/ Fell(o, m.os, "commit"))
  \/ /\ m.ok = TRUE /\ m.off \in Nat /\ a.cursor <= m.off
     /\ Advanced(o, m.os, c, a, m.a, m.off + l.size)
     /\ (o.maps[a.b.region].addr + a.b.base + m.off) % l.align = 0

LEMMA PromoteIs ==
  ASSUME NEW a, NEW l \in Layout
  PROVE  /\ Promote(a, l).size = l.size /\ l.size \in Nat \ {0} /\ l.align \in Nat \ {0}
         /\ Promote(a, l).align \in Nat \ {0} /\ Promote(a, l).align % l.align = 0
  <1>1. l.size \in Nat \ {0} /\ l.align \in Nat \ {0} /\ l.align \in Aligns
        /\ l = [size |-> l.size, align |-> l.align]
    BY BumpOpsAssumption DEF Layout
  <1>2. CASE Promote(a, l) = l
    BY <1>1, <1>2
  <1>3. CASE Promote(a, l) = [l EXCEPT !.align = HugePage] /\ l.align < HugePage
    <2>1. Promote(a, l).size = l.size /\ Promote(a, l).align = HugePage
      BY <1>1, <1>3
    <2>2. HugePage % l.align = 0
      BY <1>1, <1>3, ArenaPoolAssumption
    <2> QED BY <1>1, <2>1, <2>2, ArenaConstants
  <1> QED BY <1>2, <1>3 DEF Promote

LEMMA BumpsIs ==
  ASSUME NEW o, OsOk(o), conf \in Confs, NEW a, ArenaOk(o, conf, a), NEW layout \in Layout,
         NEW m \in Bumped(o, a, layout)
  PROVE  Bumps(o, conf, a, layout, m)
  <1> DEFINE l == Promote(a, layout)
             base == Base(o, a.b)
             off == AlignedOff(base, a.cursor, l)
  <1>1. l.size = layout.size /\ l.size \in Nat /\ l.align \in Nat \ {0} /\ layout.align \in Nat \ {0}
        /\ l.align % layout.align = 0
    BY PromoteIs
  <1>2. base = o.maps[a.b.region].addr + a.b.base /\ base \in Nat /\ a.cursor \in Nat /\ a.b.len \in Nat
    <2>1. a.b.region \in DOMAIN o.maps /\ a.b.base \in Nat /\ a.cursor \in Nat /\ a.b.len \in Nat
      BY DEF ArenaOk, BackingOk, CursorOk
    <2>2. o.maps[a.b.region].addr \in Nat
      BY <2>1 DEF OsOk, MapOk
    <2> QED BY <2>1, <2>2 DEF Base
  <1> HIDE DEF l, base
  <1>3. /\ AlignUp(base + a.cursor, l.align) \in Nat /\ AlignUp(base + a.cursor, l.align) >= base + a.cursor
        /\ AlignUp(base + a.cursor, l.align) % l.align = 0
    <2>1. base + a.cursor \in Nat
      BY <1>2
    <2> QED BY <1>1, <2>1, RoundedUp
  <1>4. off \in Nat /\ a.cursor <= off /\ base + off = AlignUp(base + a.cursor, l.align)
    BY <1>2, <1>3 DEF AlignedOff
  <1>5. (base + off) % layout.align = 0
    <2>1. base + off \in Nat /\ (base + off) % l.align = 0
      BY <1>3, <1>4
    <2> HIDE DEF off
    <2> QED BY <1>1, <2>1, DividesTrans
  <1>6. CASE m = [os |-> o, ok |-> FALSE, a |-> a, off |-> 0]
    <2>1. m.os = o /\ m.ok = FALSE /\ m.a = a
      BY <1>6
    <2> QED BY <2>1 DEF Bumps
  <1>7. CASE /\ Fits(base, a.b.len, a.cursor, l)
             /\ m \in {[os |-> v.os, ok |-> v.ok, a |-> v.a, off |-> off] :
                         v \in CommitThenCursor(o, a, off, l.size, EndOff(base, a.cursor, l))}
    <2>1. EndOff(base, a.cursor, l) = off + l.size /\ off + l.size <= a.b.len
      BY <1>7 DEF EndOff, Fits
    <2>2. PICK v \in CommitThenCursor(o, a, off, l.size, off + l.size) :
            m = [os |-> v.os, ok |-> v.ok, a |-> v.a, off |-> off]
      BY <1>7, <2>1
    <2>3. a.cursor <= off + l.size
      BY <1>1, <1>2, <1>4
    <2> HIDE DEF off
    <2>4. Moves(o, conf, a, off + l.size, v)
      BY <1>1, <1>4, <2>1, <2>2, <2>3, MovesIs
    <2>5. m.os = v.os /\ m.ok = v.ok /\ m.a = v.a /\ m.off = off
      BY <2>2
    <2> QED BY <1>1, <1>2, <1>4, <1>5, <2>4, <2>5 DEF Moves, Bumps
  <1> QED BY <1>6, <1>7 DEF Bumped, l, base

LEMMA ExtendsIs ==
  ASSUME NEW o, OsOk(o), conf \in Confs, NEW a, ArenaOk(o, conf, a), NEW k \in a.blocks,
         NEW l \in Layout, IsLast(a, k, l), NEW m \in Extended(o, a, k, l)
  PROVE  /\ m.off = k.off
         /\ Moves(o, conf, a, k.off + l.size, m)
  <1>1. PICK v \in CommitThenCursor(o, a, k.off, l.size, k.off + l.size) :
          m = [os |-> v.os, ok |-> v.ok, a |-> v.a, off |-> k.off]
    BY DEF Extended
  <1>2. k.off \in Nat /\ k.size \in Nat /\ l.size \in Nat
    BY PromoteIs DEF ArenaOk, BlocksOk, BlockOk
  <1>3. k.off + l.size <= a.b.len /\ a.cursor <= k.off + l.size
    BY <1>2 DEF IsLast
  <1>4. Moves(o, conf, a, k.off + l.size, v)
    BY <1>1, <1>2, <1>3, MovesIs
  <1>5. m.os = v.os /\ m.ok = v.ok /\ m.a = v.a /\ m.off = k.off
    BY <1>1
  <1> QED BY <1>4, <1>5 DEF Moves
-----------------------------------------------------------------------------
(* A step that reaches one mapping only. *)
Local(o, n, r) ==
  /\ OsOk(n) /\ DOMAIN n.maps = DOMAIN o.maps /\ n.lost = o.lost /\ n.platform = o.platform
  /\ \A q \in DOMAIN o.maps : q # r => n.maps[q] = o.maps[q]
  /\ n.failed \subseteq o.failed \cup {"commit"}

LEMMA LocalSelf ==
  ASSUME NEW o, OsOk(o), NEW r
  PROVE  Local(o, o, r)
BY DEF Local

LEMMA LocalFell ==
  ASSUME NEW o, OsOk(o), NEW r, NEW n, Fell(o, n, "commit")
  PROVE  Local(o, n, r)
BY DEF Local, Fell, OsOk

LEMMA LocalGrown ==
  ASSUME NEW o, OsOk(o), NEW r \in DOMAIN o.maps, NEW n, Grown(o, n, r)
  PROVE  Local(o, n, r)
  <1>1. OsOk(n)
    BY GrownOk
  <1> QED BY <1>1 DEF Local, Grown, Changed

LEMMA LocalRefilled ==
  ASSUME NEW o, OsOk(o), NEW r \in DOMAIN o.maps, NEW n, Refilled(o, n, r)
  PROVE  Local(o, n, r)
  <1>1. OsOk(n)
    BY RefilledOk
  <1> QED BY <1>1 DEF Local, Refilled, Changed

LEMMA LocalTrans ==
  ASSUME NEW o, NEW p, NEW n, NEW r, Local(o, p, r), Local(p, n, r)
  PROVE  Local(o, n, r)
BY DEF Local

LEMMA LocalHolds ==
  ASSUME NEW o, NEW n, NEW r, NEW X, NEW Y, Holds(o, X), Local(o, n, r), Y \subseteq X, r \notin Y
  PROVE  Holds(n, X) /\ Untouched(o, n, Y)
BY DEF Holds, Local, Untouched

-----------------------------------------------------------------------------
(* The blocks of an arena. *)
LEMMA BlocksSubset ==
  ASSUME NEW m, NEW at, NEW cursor, NEW marks, NEW blocks, BlocksOk(m, at, cursor, marks, blocks),
         NEW B, B \subseteq blocks
  PROVE  BlocksOk(m, at, cursor, marks, B)
BY DEF BlocksOk

LEMMA BlocksSame ==
  ASSUME NEW m, NEW at \in Nat, NEW cursor, NEW marks, NEW blocks,
         BlocksOk(m, at, cursor, marks, blocks), NEW n, MapOk(m), MapOk(n),
         n.addr = m.addr, n.guards = m.guards, m.backed <= n.backed,
         \A k \in blocks : \A i \in (at + k.off)..(at + k.off + k.known - 1) : n.mem[i] = m.mem[i],
         NEW end \in Nat, cursor \in Nat, cursor <= end
  PROVE  BlocksOk(n, at, end, marks, blocks)
  <1> SUFFICES ASSUME NEW k \in blocks PROVE BlockOk(n, at, end, marks, k)
    BY DEF BlocksOk
  <1>1. BlockOk(m, at, cursor, marks, k)
    BY DEF BlocksOk
  <1>2. k.off \in Nat /\ k.size \in Nat /\ k.off + k.size <= cursor
    BY <1>1 DEF BlockOk
  <1>3. at + k.off + k.size <= n.backed
    <2>1. m.backed \in Nat /\ n.backed \in Nat
      BY DEF MapOk
    <2>2. at + k.off + k.size <= m.backed
      BY <1>1 DEF BlockOk, BytesOk
    <2> QED BY <1>2, <2>1, <2>2
  <1>4. \A i \in (at + k.off)..(at + k.off + k.known - 1) : n.mem[i] = k.holds
    BY <1>1 DEF BlockOk, BytesOk
  <1>5. BytesOk(n, at, k)
    BY <1>1, <1>3, <1>4 DEF BlockOk, BytesOk
  <1>6. k.off + k.size <= end
    BY <1>2
  <1> QED BY <1>1, <1>5, <1>6 DEF BlockOk

LEMMA BlocksPlus ==
  ASSUME NEW m, NEW at, NEW cursor, NEW marks, NEW blocks, BlocksOk(m, at, cursor, marks, blocks),
         NEW k, BlockOk(m, at, cursor, marks, k), \A l \in blocks : l.off + l.size <= k.off
  PROVE  BlocksOk(m, at, cursor, marks, blocks \cup {k})
  <1>1. \A l \in blocks \cup {k} : BlockOk(m, at, cursor, marks, l)
    BY DEF BlocksOk
  <1>2. ASSUME NEW l \in blocks \cup {k}, NEW j \in blocks \cup {k}, l # j PROVE Apart(l, j)
    <2>1. CASE l \in blocks /\ j \in blocks
      BY <1>2, <2>1 DEF BlocksOk
    <2>2. CASE l \in blocks /\ j = k
      BY <2>2 DEF Apart
    <2>3. CASE j \in blocks /\ l = k
      BY <2>3 DEF Apart
    <2> QED BY <1>2, <2>1, <2>2, <2>3
  <1> QED BY <1>1, <1>2 DEF BlocksOk

(* The bytes of the range of an arena are no guards. *)
LEMMA RangeOpen ==
  ASSUME NEW o, OsOk(o), NEW c, NEW k, NEW b, BackingOk(o, c, k, b)
  PROVE  \A i \in b.base..(b.base + b.len - 1) : i \notin o.maps[b.region].guards
  <1> DEFINE m == o.maps[b.region]
  <1>1. b.base \in Nat /\ b.len \in Nat /\ MapOk(m) /\ RegionOk(o, c, Guarded(c, k), b, m)
    BY DEF BackingOk, OsOk
  <1> HIDE DEF m
  <1>2. m.len \in Nat /\ b.base + b.len <= m.len
    BY <1>1 DEF RegionOk, MapOk
  <1> SUFFICES ASSUME NEW i \in b.base..(b.base + b.len - 1) PROVE i \notin m.guards
    BY DEF m
  <1>3. i \in 0..(m.len - 1)
    BY <1>1, <1>2
  <1>4. CASE Guarded(c, k)
    BY <1>1, <1>3, <1>4 DEF RegionOk
  <1>5. CASE ~Guarded(c, k)
    BY <1>1, <1>5 DEF RegionOk
  <1> QED BY <1>4, <1>5

(* The bytes the blocks of an arena stand on. *)
UsedBytes(z) == UNION {(z.b.base + k.off)..(z.b.base + k.off + k.size - 1) : k \in z.blocks}

LEMMA ArenaSettled ==
  ASSUME NEW n, OsOk(n), NEW c, NEW z, ArenaOk(n, c, z)
  PROVE  LET p == Settled(n, z.b.region, UsedBytes(z))
         IN ArenaOk(p, c, z) /\ Refilled(n, p, z.b.region)
  <1> DEFINE r == z.b.region
             used == UsedBytes(z)
             p == Settled(n, r, used)
             m == n.maps[r]
             q == p.maps[r]
             at == z.b.base
  <1>1. /\ r \in DOMAIN n.maps /\ at \in Nat /\ BackingOk(n, c, Len(c.layers), z.b)
        /\ ArenaRec(z) /\ CursorOk(z.cursor, z.b.len, z.marks) /\ z.cursor \in Nat
        /\ BlocksOk(m, at, z.cursor, z.marks, z.blocks)
    BY DEF ArenaOk, BackingOk, CursorOk
  <1>2. Refilled(n, p, r) /\ \A i \in 0..(m.len - 1) : i \in used => q.mem[i] = m.mem[i]
    <2> HIDE DEF used, r
    <2> QED BY <1>1, SettledIs
  <1>3. /\ MapOk(m) /\ MapOk(q) /\ q.addr = m.addr /\ q.guards = m.guards /\ m.backed <= q.backed
        /\ m.len \in Nat /\ m.backed \in Nat /\ m.backed <= m.len
    <2>1. MapOk(m)
      BY <1>1 DEF OsOk
    <2>2. MapOk(q) /\ q.addr = m.addr /\ q.guards = m.guards /\ q.backed = m.backed
      BY <1>2 DEF Refilled
    <2> HIDE DEF m, q
    <2> QED BY <2>1, <2>2 DEF MapOk
  <1>4. BackingOk(p, c, Len(c.layers), z.b)
    BY <1>1, <1>2, RefilledBacking
  <1> HIDE DEF p, m, q, at
  <1>5. ASSUME NEW k \in z.blocks, NEW i \in (at + k.off)..(at + k.off + k.known - 1)
        PROVE  q.mem[i] = m.mem[i]
    <2>1. /\ k.off \in Nat /\ k.size \in Nat /\ k.known \in Nat /\ k.known <= k.size
          /\ at + k.off + k.size <= m.backed
      BY <1>1 DEF BlocksOk, BlockOk, BytesOk
    <2>a. at \in Nat /\ m.len \in Nat /\ m.backed \in Nat /\ m.backed <= m.len
      BY <1>1, <1>3
    <2>2. i \in 0..(m.len - 1) /\ i \in (at + k.off)..(at + k.off + k.size - 1)
      BY <2>a, <2>1
    <2>3. i \in used
      BY <2>2 DEF UsedBytes, at
    <2> HIDE DEF used
    <2> QED BY <1>2, <2>2, <2>3
  <1>6. BlocksOk(q, at, z.cursor, z.marks, z.blocks)
    <2>1. z.cursor <= z.cursor
      BY <1>1
    <2> QED BY <1>1, <1>3, <1>5, <2>1, BlocksSame
  <1>7. ArenaOk(p, c, z)
    BY <1>1, <1>4, <1>6 DEF ArenaOk, q, at
  <1> QED BY <1>2, <1>7 DEF p
-----------------------------------------------------------------------------
(* A block is put at the end of an arena, and values are written to it.    *)
WithBlocks(a, blocks) == [a EXCEPT !.blocks = blocks]

NewBlock(o, a, off, size, k, values, extent) ==
  /\ BlockRec(k) /\ k.off = off /\ k.size = size /\ k.known \in Nat /\ k.known <= size
  /\ k.align \in Nat \ {0} /\ (o.maps[a.b.region].addr + a.b.base + off) % k.align = 0
  /\ k.depth \in Nat /\ k.depth <= Len(a.marks)
  /\ \A j \in 1..Len(a.marks) : k.depth < j => off + size <= a.marks[j]
  /\ DOMAIN values = 0..(extent - 1) /\ k.known <= extent
  /\ \A i \in 0..(k.known - 1) : values[i] = k.holds

(* The arena and its system are as they have to be after a step on it. *)
Stepped(o, n, c, a, z) ==
  /\ ArenaOk(n, c, z) /\ Local(o, n, a.b.region) /\ Own(z.b) = Own(a.b) /\ z.b.region = a.b.region

LEMMA ArenaFacts ==
  ASSUME NEW o, OsOk(o), NEW c, NEW a, ArenaOk(o, c, a)
  PROVE  /\ a.b.region \in DOMAIN o.maps /\ a.b.base \in Nat /\ a.b.len \in Nat /\ a.cursor \in Nat
         /\ a.cursor <= a.b.len /\ a.marks \in Seq(Nat) /\ Len(a.marks) \in Nat
         /\ MapOk(o.maps[a.b.region]) /\ ArenaRec(a) /\ BackingOk(o, c, Len(c.layers), a.b)
         /\ \A k \in a.blocks : k.off \in Nat /\ k.size \in Nat \ {0} /\ k.known \in Nat
                                /\ k.known <= k.size /\ k.off + k.size <= a.cursor
                                /\ a.b.base + k.off + k.size <= o.maps[a.b.region].backed
                                /\ BlockRec(k)
  <1>1. /\ a.b.region \in DOMAIN o.maps /\ a.b.base \in Nat /\ a.b.len \in Nat /\ a.cursor \in Nat
        /\ a.cursor <= a.b.len /\ a.marks \in Seq(Nat) /\ ArenaRec(a)
        /\ BackingOk(o, c, Len(c.layers), a.b)
    BY DEF ArenaOk, BackingOk, CursorOk
  <1>2. Len(a.marks) \in Nat /\ MapOk(o.maps[a.b.region])
    BY <1>1 DEF OsOk
  <1>3. \A k \in a.blocks : k.off \in Nat /\ k.size \in Nat \ {0} /\ k.known \in Nat
                            /\ k.known <= k.size /\ k.off + k.size <= a.cursor
                            /\ a.b.base + k.off + k.size <= o.maps[a.b.region].backed
                            /\ BlockRec(k)
    BY DEF ArenaOk, BlocksOk, BlockOk, BytesOk
  <1> QED BY <1>1, <1>2, <1>3

LEMMA PutBlock ==
  ASSUME NEW o, OsOk(o), NEW c \in Confs, NEW a, ArenaOk(o, c, a), NEW p, NEW y, NEW off \in Nat,
         NEW size \in Nat \ {0}, Advanced(o, p, c, a, y, off + size), NEW B, B \subseteq a.blocks,
         \A l \in B : l.off + l.size <= off, NEW k, NEW values, NEW extent \in Nat, extent <= size,
         NewBlock(o, a, off, size, k, values, extent)
  PROVE  Stepped(o, Written(p, y.b, off, values), c, a, WithBlocks(y, B \cup {k}))
  <1> DEFINE r == a.b.region
             at == a.b.base
             n == Written(p, y.b, off, values)
             z == WithBlocks(y, B \cup {k})
             end == off + size
             q == p.maps[r]
             m == n.maps[r]
  <1>1. /\ r \in DOMAIN o.maps /\ at \in Nat /\ a.b.len \in Nat /\ a.cursor \in Nat
        /\ a.marks \in Seq(Nat) /\ Len(a.marks) \in Nat /\ MapOk(o.maps[r])
        /\ BlocksOk(o.maps[r], at, a.cursor, a.marks, a.blocks)
        /\ CursorOk(a.cursor, a.b.len, a.marks)
    BY ArenaFacts DEF ArenaOk
  <1>2. /\ Grown(o, p, r) /\ BackingOk(p, c, Len(c.layers), y.b)
        /\ y = [b |-> y.b, cursor |-> end, marks |-> a.marks, blocks |-> a.blocks]
        /\ Own(y.b) = Own(a.b) /\ y.b.region = r /\ y.b.base = at /\ y.b.len = a.b.len
        /\ end \in Nat /\ a.cursor <= end /\ end <= a.b.len /\ at + end <= q.backed
    BY DEF Advanced
  <1>3. z = [b |-> y.b, cursor |-> end, marks |-> a.marks, blocks |-> B \cup {k}]
    <2> DEFINE S == B \cup {k}
               w == y.b
    <2> HIDE DEF S, end, w
    <2>1. y = [b |-> w, cursor |-> end, marks |-> a.marks, blocks |-> a.blocks]
      BY <1>2 DEF w
    <2>2. [y EXCEPT !.blocks = S] = [b |-> w, cursor |-> end, marks |-> a.marks, blocks |-> S]
      BY <2>1
    <2> QED BY <2>2 DEF S, w, WithBlocks
  <1>4. z.b = y.b /\ z.cursor = end /\ z.marks = a.marks /\ z.blocks = B \cup {k} /\ ArenaRec(z)
    <2> HIDE DEF z, end
    <2> QED BY <1>3 DEF ArenaRec
  <1>5. OsOk(p) /\ r \in DOMAIN p.maps
    BY <1>1, <1>2, GrownOk
  <1>6. /\ Refilled(p, n, r)
        /\ \A i \in 0..(q.len - 1) :
             m.mem[i] = IF i - at - off \in DOMAIN values THEN values[i - at - off] ELSE q.mem[i]
    <2>1. y.b.region \in DOMAIN p.maps
      BY <1>2, <1>5
    <2>2. /\ Refilled(p, n, y.b.region)
          /\ \A i \in 0..(p.maps[y.b.region].len - 1) :
               n.maps[y.b.region].mem[i] =
                 IF i - y.b.base - off \in DOMAIN values THEN values[i - y.b.base - off]
                 ELSE p.maps[y.b.region].mem[i]
      BY <1>5, <2>1, WrittenIs
    <2>3. y.b.base = at /\ y.b.region = r
      BY <1>2
    <2> HIDE DEF n
    <2> QED BY <2>2, <2>3
  <1>7. /\ MapOk(m) /\ m.addr = o.maps[r].addr /\ m.guards = o.maps[r].guards
        /\ m.backed = q.backed /\ o.maps[r].backed <= m.backed /\ q.mem = o.maps[r].mem
        /\ q.len = o.maps[r].len /\ m.len = o.maps[r].len
    BY <1>2, <1>6 DEF Grown, Refilled
  <1>8. BackingOk(n, c, Len(c.layers), y.b)
    BY <1>2, <1>6, RefilledBacking
  <1>9. OsOk(n) /\ Local(o, n, r)
    <2>1. Local(o, p, r) /\ Local(p, n, r)
      BY <1>1, <1>2, <1>5, <1>6, LocalGrown, LocalRefilled
    <2> QED BY <2>1, LocalTrans DEF Local
  <1>10. \A i \in at..(at + a.b.len - 1) : i \notin m.guards
    <2>1. \A i \in y.b.base..(y.b.base + y.b.len - 1) : i \notin n.maps[y.b.region].guards
      BY <1>8, <1>9, RangeOpen
    <2> QED BY <2>1, <1>2
  <1> HIDE DEF n, z, q, m, r, at
  <1>11. BlocksOk(m, at, end, a.marks, B)
    <2>1. BlocksOk(o.maps[r], at, a.cursor, a.marks, B)
      BY <1>1, BlocksSubset
    <2>2. ASSUME NEW l \in B, NEW i \in (at + l.off)..(at + l.off + l.known - 1)
          PROVE  m.mem[i] = o.maps[r].mem[i]
      <3>1. /\ l.off \in Nat /\ l.size \in Nat /\ l.known \in Nat /\ l.known <= l.size
            /\ at + l.off + l.size <= o.maps[r].backed
        BY <2>1 DEF BlocksOk, BlockOk, BytesOk
      <3>2. o.maps[r].backed <= o.maps[r].len /\ o.maps[r].backed \in Nat /\ o.maps[r].len \in Nat
        BY <1>1 DEF MapOk
      <3>a. at \in Nat /\ q.len = o.maps[r].len /\ l.off + l.size <= off
        BY <1>1, <1>7
      <3>b. i \in Int /\ at + l.off <= i /\ i < at + l.off + l.size
        BY <3>1, <3>a
      <3>c. i < o.maps[r].backed
        BY <3>1, <3>2, <3>a, <3>b
      <3>d. i < q.len /\ 0 <= i
        BY <3>1, <3>2, <3>a, <3>b, <3>c
      <3>e. q.len \in Nat
        BY <3>2, <3>a
      <3>3. i \in 0..(q.len - 1) /\ i - at - off < 0
        BY <3>1, <3>a, <3>b, <3>d, <3>e
      <3>4. i - at - off \notin DOMAIN values
        BY <3>3 DEF NewBlock
      <3> QED BY <1>6, <1>7, <3>3, <3>4
    <2> QED BY <1>1, <1>2, <1>7, <2>1, <2>2, BlocksSame
  <1>12. BlockOk(m, at, end, a.marks, k)
    <2>1. /\ BlockRec(k) /\ k.off = off /\ k.size = size /\ k.known \in Nat /\ k.known <= k.size
          /\ k.align \in Nat \ {0}
          /\ k.depth \in Nat /\ k.depth <= Len(a.marks)
          /\ \A j \in 1..Len(a.marks) : k.depth < j => off + size <= a.marks[j]
          /\ DOMAIN values = 0..(extent - 1) /\ k.known <= extent
          /\ \A i \in 0..(k.known - 1) : values[i] = k.holds
      BY DEF NewBlock
    <2>2. (m.addr + at + k.off) % k.align = 0
      BY <1>7 DEF NewBlock, r, at
    <2>3. at + k.off + k.size <= m.backed
      <3>1. at + k.off + k.size = at + end
        BY <1>1, <2>1
      <3> QED BY <3>1, <1>2, <1>7
    <2>4. \A i \in (at + k.off)..(at + k.off + k.size - 1) : i \notin m.guards
      <3>1. \A i \in (at + k.off)..(at + k.off + k.size - 1) : i \in at..(at + a.b.len - 1)
        <4>1. at \in Nat /\ a.b.len \in Nat
          BY <1>1
        <4>2. k.off \in Nat /\ k.size \in Nat /\ k.off + k.size <= a.b.len
          BY <1>2, <2>1
        <4>3. ASSUME NEW i \in (at + k.off)..(at + k.off + k.size - 1) PROVE i \in at..(at + a.b.len - 1)
          <5>1. i \in Int /\ i >= at + k.off /\ i <= at + k.off + k.size - 1
            BY <4>1, <4>2
          <5>2. i >= at /\ i <= at + a.b.len - 1
            BY <4>1, <4>2, <5>1
          <5> QED BY <4>1, <5>1, <5>2
        <4> QED BY <4>3
      <3> QED BY <3>1, <1>10
    <2>5. ASSUME NEW i \in (at + k.off)..(at + k.off + k.known - 1) PROVE m.mem[i] = k.holds
      <3>1. i - at - off \in 0..(k.known - 1) /\ i - at - off \in 0..(extent - 1)
        <4>1. at \in Nat /\ k.off = off /\ k.known \in Nat /\ k.known <= extent
          BY <1>1, <2>1
        <4>2. i \in Int /\ at + off <= i /\ i <= at + off + k.known - 1
          BY <4>1
        <4> QED BY <4>1, <4>2
      <3>2. i \in 0..(q.len - 1)
        <4>1. m.backed \in Nat /\ m.len \in Nat /\ m.backed <= m.len
          BY <1>7 DEF MapOk
        <4>2. q.len = m.len
          BY <1>7
        <4>3. at \in Nat /\ k.off \in Nat /\ k.size \in Nat /\ k.known \in Nat /\ k.known <= k.size
          BY <1>1, <2>1
        <4>4. i \in Int /\ at + k.off <= i /\ i < at + k.off + k.size
          BY <4>3
        <4>5. i < m.backed
          BY <2>3, <4>1, <4>3, <4>4
        <4>6. i < m.len /\ 0 <= i
          BY <4>1, <4>3, <4>4, <4>5
        <4> QED BY <4>1, <4>2, <4>4, <4>6
      <3> QED BY <1>6, <2>1, <3>1, <3>2
    <2>6. BytesOk(m, at, k)
      BY <2>3, <2>4, <2>5 DEF BytesOk
    <2> QED BY <2>1, <2>2, <2>6 DEF BlockOk
  <1>13. BlocksOk(m, at, end, a.marks, B \cup {k})
    <2>1. \A l \in B : l.off + l.size <= k.off
      BY DEF NewBlock
    <2> HIDE DEF end
    <2> QED BY <1>11, <1>12, <2>1, BlocksPlus
  <1>14. CursorOk(end, a.b.len, a.marks)
    <2>1. \A i \in 1..Len(a.marks) : a.marks[i] <= end
      <3>1. \A i \in 1..Len(a.marks) : a.marks[i] \in Nat /\ a.marks[i] <= a.cursor
        BY <1>1 DEF CursorOk
      <3>2. end \in Nat /\ a.cursor \in Nat /\ a.cursor <= end
        BY <1>1, <1>2
      <3> HIDE DEF end
      <3> QED BY <3>1, <3>2
    <2>2. \A i, j \in 1..Len(a.marks) : i <= j => a.marks[i] <= a.marks[j]
      BY <1>1 DEF CursorOk
    <2> QED BY <1>1, <1>2, <2>1, <2>2 DEF CursorOk
  <1>15. ArenaOk(n, c, z)
    BY <1>2, <1>4, <1>8, <1>13, <1>14 DEF ArenaOk, m
  <1>16. Own(z.b) = Own(a.b) /\ z.b.region = a.b.region
    BY <1>2, <1>4 DEF r
  <1> QED BY <1>9, <1>15, <1>16 DEF Stepped, n, z, r
-----------------------------------------------------------------------------
(* The inductive invariant: every arena is in order and owns its mappings  *)
(* alone, and a failure is explained.                                      *)
LastOk(o, c, result) ==
  /\ o.failed \subseteq Calls
  /\ result = "err" => Refused(o, c)
  /\ result = "ok" => o.failed = {}

ArenaInv ==
  /\ conf \in Confs
  /\ idle \in Seq(Idles) /\ Len(idle) <= conf.cap
  /\ IsFiniteSet(out)
  /\ Sound(os, conf, Holders(out, idle))
  /\ LastOk(os, conf, last)

LEMMA NowIs ==
  ASSUME NEW c, NEW H, Sound(os, c, H)
  PROVE  /\ Sound(Now, c, H) /\ OsOk(Now) /\ Holds(Now, Used(H)) /\ Now.failed = {}
         /\ Now.platform = os.platform /\ Now.maps = os.maps
  <1> DEFINE n == [platform |-> os.platform, maps |-> os.maps, lost |-> os.lost, err |-> os.err,
                   failed |-> {}, faults |-> os.faults]
  <1>1. OsRec(os)
    BY DEF Sound, Holds, OsOk
  <1>2. Now = n
    BY <1>1 DEF Now, OsRec
  <1>3. /\ OsRec(n) /\ n.platform = os.platform /\ n.maps = os.maps /\ n.lost = os.lost
        /\ n.failed = {}
    BY DEF OsRec
  <1> HIDE DEF n
  <1>4. Sound(n, c, H)
    BY <1>3, SoundSame
  <1>5. Holds(n, Used(H)) /\ OsOk(n)
    BY <1>4 DEF Sound, Holds
  <1> QED BY <1>2, <1>3, <1>4, <1>5

LEMMA IdleLen ==
  ASSUME ArenaInv
  PROVE  Len(idle) \in Nat
BY DEF ArenaInv

LEMMA OutHolder ==
  ASSUME NEW a \in out, ArenaInv
  PROVE  /\ <<0, a>> \in Holders(out, idle) /\ <<0, a>>[2] = a
         /\ ArenaOk(os, conf, a) /\ ArenaOk(Now, conf, a) /\ OsOk(Now) /\ Now.failed = {}
  <1>1. <<0, a>> \in Holders(out, idle) /\ <<0, a>>[2] = a
    BY DEF Holders
  <1>2. ArenaOk(os, conf, a)
    BY <1>1 DEF ArenaInv, Sound
  <1>3. Sound(Now, conf, Holders(out, idle)) /\ OsOk(Now) /\ Now.failed = {}
    BY NowIs DEF ArenaInv
  <1>4. ArenaOk(Now, conf, a)
    BY <1>1, <1>3 DEF Sound
  <1> QED BY <1>1, <1>2, <1>3, <1>4

(* An arena is replaced by what it has become. *)
LEMMA ReplaceInv ==
  ASSUME ArenaInv, NEW a \in out, NEW z, NEW n, Stepped(Now, n, conf, a, z), Replace(a, z, n),
         conf' = conf, idle' = idle, last' = "none"
  PROVE  ArenaInv'
  <1> DEFINE H == Holders(out, idle)
             h == <<0, a>>
             g == <<0, z>>
             r == z.b.region
             p == Settled(n, r, UsedBytes(z))
  <1>1. /\ ArenaOk(n, conf, z) /\ Local(Now, n, a.b.region) /\ Own(z.b) = Own(a.b)
        /\ z.b.region = a.b.region
    BY DEF Stepped
  <1>2. OsOk(n) /\ r \in DOMAIN n.maps
    BY <1>1 DEF Local, ArenaOk, BackingOk
  <1>3. os' = p /\ out' = (out \ {a}) \cup {z}
    BY DEF Replace, Settled, UsedBytes
  <1>4. ArenaOk(p, conf, z) /\ Refilled(n, p, r)
    BY <1>1, <1>2, ArenaSettled
  <1> HIDE DEF p
  <1>5. Local(n, p, r)
    BY <1>2, <1>4, LocalRefilled
  <1>6. Local(Now, p, r)
    BY <1>1, <1>5, LocalTrans
  <1>7. Sound(Now, conf, H) /\ Holds(Now, Used(H)) /\ Now.failed = {}
    BY NowIs DEF ArenaInv
  <1>8. h \in H /\ h[2] = a /\ g[2] = z
    BY OutHolder
  <1> HIDE DEF H, h, g
  <1>9. Used(H) = Used(H \ {h}) \cup Own(a.b) /\ r \notin Used(H \ {h}) /\ Used(H \ {h}) \subseteq Used(H)
    BY <1>1, <1>7, <1>8, OneOfUsed
  <1>10. Holds(p, Used(H)) /\ Untouched(Now, p, Used(H \ {h}))
    <2> HIDE DEF r
    <2> QED BY <1>6, <1>7, <1>9, LocalHolds
  <1>11. Sound(p, conf, (H \ {h}) \cup {g})
    <2>1. Own(g[2].b) = Own(h[2].b) /\ ArenaOk(p, conf, g[2])
      BY <1>1, <1>4, <1>8
    <2> QED BY <1>7, <1>8, <1>10, <2>1, SoundSwap
  <1>12. Holders((out \ {a}) \cup {z}, idle) = (H \ {h}) \cup {g}
    <2>1. Holders(Without(out, a), idle) = Without(Holders(out, idle), <<0, a>>)
      BY IdleLen, HoldersLess
    <2>2. Holders(With(Without(out, a), z), idle) = With(Holders(Without(out, a), idle), <<0, z>>)
      BY HoldersMore
    <2> QED BY <2>1, <2>2 DEF With, Without, H, h, g
  <1>13. IsFiniteSet((out \ {a}) \cup {z})
    BY FS_AddElement, FS_RemoveElement DEF ArenaInv
  <1>14. LastOk(p, conf, "none")
    BY <1>6, <1>7 DEF LastOk, Local, Calls
  <1>15. /\ conf' \in Confs /\ idle' \in Seq(Idles) /\ Len(idle') <= conf'.cap /\ IsFiniteSet(out')
         /\ Sound(os', conf', Holders(out', idle')) /\ LastOk(os', conf', last')
    BY <1>3, <1>11, <1>12, <1>13, <1>14 DEF ArenaInv
  <1> QED BY <1>15 DEF ArenaInv

(* Nothing was done to an arena, or a commit failed. *)
LEMMA SteppedSelf ==
  ASSUME NEW o, OsOk(o), NEW c, NEW a, ArenaOk(o, c, a)
  PROVE  Stepped(o, o, c, a, a)
BY LocalSelf DEF Stepped

LEMMA SteppedFell ==
  ASSUME NEW o, OsOk(o), NEW c, NEW a, ArenaOk(o, c, a), NEW n, Fell(o, n, "commit")
  PROVE  Stepped(o, n, c, a, a)
  <1>1. Local(o, n, a.b.region)
    BY LocalFell
  <1>2. Untouched(o, n, {a.b.region}) /\ a.b.region \in DOMAIN n.maps
    BY DEF Fell, Untouched, ArenaOk, BackingOk
  <1>3. ArenaOk(n, c, a)
    BY <1>2, ArenaKept
  <1> QED BY <1>1, <1>3 DEF Stepped
-----------------------------------------------------------------------------
(* What a step makes of an arena. *)
LEMMA WithBlocksIs ==
  ASSUME NEW a, ArenaRec(a), NEW B
  PROVE  WithBlocks(a, B) = [b |-> a.b, cursor |-> a.cursor, marks |-> a.marks, blocks |-> B]
BY DEF ArenaRec, WithBlocks

LEMMA Trimmed ==
  ASSUME NEW o, OsOk(o), NEW c, NEW a, ArenaOk(o, c, a), NEW z, NEW cursor, NEW marks, NEW B,
         z = [b |-> a.b, cursor |-> cursor, marks |-> marks, blocks |-> B],
         CursorOk(cursor, a.b.len, marks), B \subseteq a.blocks,
         \A k \in B : /\ k.off + k.size <= cursor /\ k.depth <= Len(marks)
                      /\ \A j \in 1..Len(marks) : k.depth < j => k.off + k.size <= marks[j]
  PROVE  Stepped(o, o, c, a, z)
  <1> DEFINE m == o.maps[a.b.region]
             at == a.b.base
  <1>1. BlocksOk(m, at, a.cursor, a.marks, a.blocks) /\ BackingOk(o, c, Len(c.layers), a.b)
    BY DEF ArenaOk
  <1>2. z.b = a.b /\ z.cursor = cursor /\ z.marks = marks /\ z.blocks = B /\ ArenaRec(z)
    BY DEF ArenaRec
  <1> HIDE DEF m, at
  <1>3. ASSUME NEW k \in B PROVE BlockOk(m, at, cursor, marks, k)
    BY <1>1 DEF BlocksOk, BlockOk
  <1>4. BlocksOk(m, at, cursor, marks, B)
    BY <1>1, <1>3 DEF BlocksOk
  <1>5. ArenaOk(o, c, z)
    BY <1>1, <1>2, <1>4 DEF ArenaOk, m, at
  <1>6. Local(o, o, a.b.region)
    BY LocalSelf
  <1> QED BY <1>2, <1>5, <1>6 DEF Stepped

LEMMA Forgotten ==
  ASSUME NEW o, OsOk(o), NEW c, NEW a, ArenaOk(o, c, a), NEW B, B \subseteq a.blocks
  PROVE  Stepped(o, o, c, a, WithBlocks(a, B))
  <1>1. ArenaRec(a) /\ BlocksOk(o.maps[a.b.region], a.b.base, a.cursor, a.marks, a.blocks)
        /\ CursorOk(a.cursor, a.b.len, a.marks)
    BY DEF ArenaOk
  <1>2. WithBlocks(a, B) = [b |-> a.b, cursor |-> a.cursor, marks |-> a.marks, blocks |-> B]
    BY <1>1, WithBlocksIs
  <1>3. \A k \in B : /\ k.off + k.size <= a.cursor /\ k.depth <= Len(a.marks)
                     /\ \A j \in 1..Len(a.marks) : k.depth < j => k.off + k.size <= a.marks[j]
    BY <1>1 DEF BlocksOk, BlockOk
  <1> DEFINE z == WithBlocks(a, B)
  <1> HIDE DEF z
  <1>4. Stepped(o, o, c, a, z)
    BY <1>1, <1>2, <1>3, Trimmed DEF z
  <1> QED BY <1>4 DEF z

Spans(values, extent) == DOMAIN values = 0..(extent - 1)

(* The bytes of a block are written over, and the block is forgotten. *)
LEMMA Overwritten ==
  ASSUME NEW o, OsOk(o), NEW c, NEW a, ArenaOk(o, c, a), NEW k \in a.blocks, NEW values,
         Spans(values, k.size)
  PROVE  Stepped(o, Written(o, a.b, k.off, values), c, a, WithBlocks(a, a.blocks \ {k}))
  <1> DEFINE r == a.b.region
             at == a.b.base
             n == Written(o, a.b, k.off, values)
             B == a.blocks \ {k}
             z == WithBlocks(a, B)
             q == o.maps[r]
             m == n.maps[r]
  <1>1. /\ r \in DOMAIN o.maps /\ at \in Nat /\ a.cursor \in Nat /\ MapOk(q) /\ ArenaRec(a)
        /\ BackingOk(o, c, Len(c.layers), a.b) /\ CursorOk(a.cursor, a.b.len, a.marks)
        /\ BlocksOk(q, at, a.cursor, a.marks, a.blocks)
    BY ArenaFacts DEF ArenaOk
  <1>2. /\ Refilled(o, n, r)
        /\ \A i \in 0..(q.len - 1) :
             m.mem[i] = IF i - at - k.off \in DOMAIN values THEN values[i - at - k.off] ELSE q.mem[i]
    <2>1. a.b.region \in DOMAIN o.maps
      BY <1>1
    <2>2. /\ Refilled(o, n, a.b.region)
          /\ \A i \in 0..(o.maps[a.b.region].len - 1) :
               n.maps[a.b.region].mem[i] =
                 IF i - a.b.base - k.off \in DOMAIN values THEN values[i - a.b.base - k.off]
                 ELSE o.maps[a.b.region].mem[i]
      BY <2>1, WrittenIs
    <2> HIDE DEF n
    <2> QED BY <2>2
  <1> HIDE DEF n
  <1>3. MapOk(m) /\ m.addr = q.addr /\ m.guards = q.guards /\ m.backed = q.backed
    BY <1>2 DEF Refilled
  <1>4. BackingOk(n, c, Len(c.layers), a.b)
    BY <1>1, <1>2, RefilledBacking
  <1>5. Local(o, n, r)
    BY <1>1, <1>2, LocalRefilled
  <1>6. z = [b |-> a.b, cursor |-> a.cursor, marks |-> a.marks, blocks |-> B]
    BY <1>1, WithBlocksIs
  <1>7. z.b = a.b /\ z.cursor = a.cursor /\ z.marks = a.marks /\ z.blocks = B /\ ArenaRec(z)
    <2> HIDE DEF z, B
    <2> QED BY <1>6 DEF ArenaRec
  <1> HIDE DEF z, q, m, r, at
  <1>8. BlocksOk(q, at, a.cursor, a.marks, B)
    BY <1>1, BlocksSubset
  <1>9. ASSUME NEW l \in B, NEW i \in (at + l.off)..(at + l.off + l.known - 1)
        PROVE  m.mem[i] = q.mem[i]
    <2>1. /\ l.off \in Nat /\ l.size \in Nat /\ l.known \in Nat /\ l.known <= l.size
          /\ at + l.off + l.size <= q.backed
      BY <1>8 DEF BlocksOk, BlockOk, BytesOk
    <2>2. q.backed <= q.len /\ q.backed \in Nat /\ q.len \in Nat
      BY <1>1 DEF MapOk
    <2>3. k.off \in Nat /\ k.size \in Nat
      BY <1>1 DEF BlocksOk, BlockOk
    <2>4. k.off + k.size <= l.off \/ l.off + l.size <= k.off
      BY <1>1 DEF BlocksOk, Apart
    <2>5. at \in Nat
      BY <1>1
    <2>6. i \in Int /\ at + l.off <= i /\ i < at + l.off + l.size
      BY <2>1, <2>5
    <2>7. i < q.len
      BY <2>1, <2>2, <2>5, <2>6
    <2>8. i \in 0..(q.len - 1)
      BY <2>1, <2>2, <2>5, <2>6, <2>7
    <2>9. i - at - k.off \notin 0..(k.size - 1)
      <3>1. CASE k.off + k.size <= l.off
        <4>1. i - at - k.off >= k.size
          BY <2>1, <2>3, <2>5, <2>6, <3>1
        <4> QED BY <2>3, <2>5, <2>6, <4>1
      <3>2. CASE l.off + l.size <= k.off
        <4>1. i - at - k.off < 0
          BY <2>1, <2>3, <2>5, <2>6, <3>2
        <4> QED BY <2>3, <2>5, <2>6, <4>1
      <3> QED BY <2>4, <3>1, <3>2
    <2> QED BY <1>2, <2>8, <2>9 DEF Spans
  <1>10. BlocksOk(m, at, a.cursor, a.marks, B)
    <2>1. q.backed <= m.backed /\ a.cursor <= a.cursor
      BY <1>1, <1>3 DEF MapOk
    <2> HIDE DEF B
    <2> QED BY <1>1, <1>3, <1>8, <1>9, <2>1, BlocksSame
  <1>11. ArenaOk(n, c, z)
    BY <1>1, <1>4, <1>7, <1>10 DEF ArenaOk, m, r, at
  <1> QED BY <1>5, <1>7, <1>11 DEF Stepped, n, z, r, B

-----------------------------------------------------------------------------
(* allocate and its like. *)
LEMMA NotServed ==
  ASSUME NEW o, OsOk(o), NEW c, NEW a, ArenaOk(o, c, a), NEW n, n = o \/ Fell(o, n, "commit")
  PROVE  Stepped(o, n, c, a, a)
BY SteppedSelf, SteppedFell

LEMMA AdvancedBlocks ==
  ASSUME NEW o, NEW n, NEW c, NEW a, NEW y, NEW end, Advanced(o, n, c, a, y, end)
  PROVE  y.blocks = a.blocks /\ y.b.base = a.b.base /\ y.b.region = a.b.region
BY DEF Advanced

LEMMA AllocateInv ==
  ASSUME ArenaInv, NEW a \in out, NEW l \in Layout, NEW zeroed \in BOOLEAN, Allocate(a, l, zeroed)
  PROVE  ArenaInv'
  <1> DEFINE holds == IF zeroed THEN Zero ELSE FreshId(a)
             B == a.blocks
             values == Constantly(holds, l.size)
             block(off) == [id |-> FreshId(a), off |-> off, size |-> l.size, align |-> l.align,
                            known |-> l.size, holds |-> holds, depth |-> Len(a.marks)]
  <1>1. PICK m \in Bumped(Now, a, l) :
          IF m.ok
          THEN Replace(a, [m.a EXCEPT !.blocks = @ \cup {block(m.off)}],
                       Written(m.os, m.a.b, m.off, values))
          ELSE Replace(a, m.a, m.os)
    BY DEF Allocate
  <1>2. conf' = conf /\ idle' = idle /\ last' = "none"
    BY DEF Allocate
  <1>3. ArenaOk(Now, conf, a) /\ OsOk(Now) /\ conf \in Confs
    BY OutHolder DEF ArenaInv
  <1>4. Bumps(Now, conf, a, l, m)
    BY <1>3, BumpsIs
  <1> DEFINE k == block(m.off)
             o == Now
  <1>5. /\ BlockRec(k) /\ k.off = m.off /\ k.size = l.size /\ k.align = l.align /\ k.known = l.size
        /\ k.holds = holds /\ k.depth = Len(a.marks)
    BY DEF BlockRec
  <1>6. DOMAIN values = 0..(l.size - 1) /\ \A i \in 0..(l.size - 1) : values[i] = holds
    BY DEF Constantly
  <1> HIDE DEF holds, k, block, values
  <1>7. CASE m.ok = FALSE
    <2>1. m.a = a /\ (m.os = o \/ Fell(o, m.os, "commit")) /\ Replace(a, m.a, m.os)
      BY <1>1, <1>4, <1>7 DEF Bumps
    <2> HIDE DEF o
    <2>2. Stepped(o, m.os, conf, a, a)
      BY <1>3, <2>1, NotServed DEF o
    <2> QED BY <1>2, <2>1, <2>2, ReplaceInv DEF o
  <1>8. CASE m.ok = TRUE
    <2>1. /\ m.off \in Nat /\ a.cursor <= m.off /\ Advanced(o, m.os, conf, a, m.a, m.off + l.size)
          /\ (o.maps[a.b.region].addr + a.b.base + m.off) % l.align = 0
      BY <1>4, <1>8 DEF Bumps
    <2>2. l.size \in Nat \ {0} /\ l.align \in Nat \ {0}
      BY PromoteIs
    <2> HIDE DEF o
    <2>3. Replace(a, WithBlocks(m.a, B \cup {k}), Written(m.os, m.a.b, m.off, values))
      <3>1. m.a.blocks = B
        BY <2>1, AdvancedBlocks
      <3> QED BY <1>1, <1>8, <3>1 DEF WithBlocks, k
    <2>4. /\ a.cursor \in Nat /\ Len(a.marks) \in Nat
          /\ \A j \in a.blocks : j.off \in Nat /\ j.size \in Nat /\ j.off + j.size <= a.cursor
      BY <1>3, ArenaFacts DEF o
    <2>5. NewBlock(o, a, m.off, l.size, k, values, l.size)
      <3>1. \A j \in 1..Len(a.marks) : ~(k.depth < j)
        BY <1>5, <2>4
      <3> QED BY <1>5, <1>6, <2>1, <2>2, <2>4, <3>1 DEF NewBlock
    <2>6. \A j \in B : j.off + j.size <= m.off
      BY <2>1, <2>4
    <2>7. Stepped(o, Written(m.os, m.a.b, m.off, values), conf, a, WithBlocks(m.a, B \cup {k}))
      <3>1. l.size \in Nat /\ l.size <= l.size
        BY <2>2
      <3> QED BY <1>3, <2>1, <2>2, <2>5, <2>6, <3>1, PutBlock DEF o
    <2> QED BY <1>2, <2>3, <2>7, ReplaceInv DEF o
  <1> QED BY <1>4, <1>7, <1>8 DEF Bumps
-----------------------------------------------------------------------------
(* grow and shrink. *)
LeastOf(x, y) == IF x < y THEN x ELSE y

Kept(k, l) == IF l.size < k.size THEN l.size ELSE k.size

ResizedTo(k, off, l) ==
  [k EXCEPT !.off = off, !.size = l.size, !.known = IF @ < l.size THEN @ ELSE l.size]

LEMMA ResizedIs ==
  ASSUME NEW k, BlockRec(k), NEW off, NEW l, k.known \in Nat, k.size \in Nat, l.size \in Nat,
         k.known <= k.size
  PROVE  LET r == ResizedTo(k, off, l)
         IN /\ BlockRec(r) /\ r.off = off /\ r.size = l.size /\ r.align = k.align
            /\ r.holds = k.holds /\ r.depth = k.depth /\ r.known \in Nat /\ r.known <= k.known
            /\ r.known <= l.size /\ r.known <= Kept(k, l)
            /\ Kept(k, l) \in Nat /\ Kept(k, l) <= l.size
  <1> DEFINE x == LeastOf(k.known, l.size)
             y == l.size
             a == [id |-> k.id, off |-> off, size |-> k.size, align |-> k.align, known |-> k.known,
                   holds |-> k.holds, depth |-> k.depth]
             b == [id |-> k.id, off |-> off, size |-> y, align |-> k.align, known |-> k.known,
                   holds |-> k.holds, depth |-> k.depth]
             r == [id |-> k.id, off |-> off, size |-> y, align |-> k.align, known |-> x,
                   holds |-> k.holds, depth |-> k.depth]
  <1>0. x \in Nat /\ x <= k.known /\ x <= l.size /\ x <= Kept(k, l) /\ Kept(k, l) \in Nat
        /\ Kept(k, l) <= l.size
    BY DEF LeastOf, Kept
  <1>1. ResizedTo(k, off, l) = [k EXCEPT !.off = off, !.size = l.size, !.known = x]
    BY DEF ResizedTo, LeastOf
  <1> HIDE DEF x, y
  <1>2. [k EXCEPT !.off = off] = a
    BY DEF BlockRec
  <1>3. [a EXCEPT !.size = y] = b
    OBVIOUS
  <1>4. [b EXCEPT !.known = x] = r
    OBVIOUS
  <1>5. ResizedTo(k, off, l) = r
    BY <1>1, <1>2, <1>3, <1>4 DEF y
  <1>6. /\ BlockRec(r) /\ r.off = off /\ r.size = y /\ r.align = k.align
        /\ r.holds = k.holds /\ r.depth = k.depth /\ r.known = x
    BY DEF BlockRec
  <1> HIDE DEF r
  <1> QED BY <1>0, <1>5, <1>6 DEF y

LEMMA ContentsKnown ==
  ASSUME NEW o, OsOk(o), NEW c, NEW a, ArenaOk(o, c, a), NEW k \in a.blocks, NEW n,
         NEW y, NEW end, Advanced(o, n, c, a, y, end), NEW extent \in Nat
  PROVE  /\ Spans(Contents(n, y.b, k.off, extent), extent)
         /\ \A i \in 0..(extent - 1) : i < k.known => Contents(n, y.b, k.off, extent)[i] = k.holds
  <1>1. /\ a.b.base \in Nat /\ k.off \in Nat /\ k.known \in Nat
        /\ \A i \in (a.b.base + k.off)..(a.b.base + k.off + k.known - 1) :
             o.maps[a.b.region].mem[i] = k.holds
    BY ArenaFacts DEF ArenaOk, BlocksOk, BlockOk, BytesOk
  <1>2. y.b.region = a.b.region /\ y.b.base = a.b.base
        /\ n.maps[a.b.region].mem = o.maps[a.b.region].mem
    BY DEF Advanced, Grown
  <1>3. ASSUME NEW i \in 0..(extent - 1), i < k.known
        PROVE  Contents(n, y.b, k.off, extent)[i] = k.holds
    <2>1. Contents(n, y.b, k.off, extent)[i] = o.maps[a.b.region].mem[a.b.base + k.off + i]
      BY <1>2 DEF Contents
    <2>2. a.b.base + k.off + i \in (a.b.base + k.off)..(a.b.base + k.off + k.known - 1)
      BY <1>1, <1>3
    <2> QED BY <1>1, <2>1, <2>2
  <1>4. Spans(Contents(n, y.b, k.off, extent), extent)
    BY DEF Spans, Contents
  <1> QED BY <1>3, <1>4

LEMMA ResizeInv ==
  ASSUME ArenaInv, NEW a \in out, NEW l \in Layout, NEW k \in a.blocks, Resize(a, k, l)
  PROVE  ArenaInv'
  <1> DEFINE o == Now
             B == a.blocks \ {k}
             kept == Kept(k, l)
  <1>1. PICK m \in IF IsLast(a, k, l) THEN Extended(Now, a, k, l) ELSE Bumped(Now, a, l) :
          IF m.ok
          THEN Replace(a, [m.a EXCEPT !.blocks = (@ \ {k}) \cup {ResizedTo(k, m.off, l)}],
                       Written(m.os, m.a.b, m.off, Contents(m.os, m.a.b, k.off, kept)))
          ELSE Replace(a, m.a, m.os)
    BY DEF Resize, ResizedTo, Kept
  <1>2. conf' = conf /\ idle' = idle /\ last' = "none" /\ a.marks = <<>> /\ k.align = l.align
    BY DEF Resize, ScopeOffers
  <1>3. ArenaOk(Now, conf, a) /\ OsOk(Now) /\ conf \in Confs
    BY OutHolder DEF ArenaInv
  <1>4. l.size \in Nat \ {0} /\ l.align \in Nat \ {0}
    BY PromoteIs
  <1> DEFINE r == ResizedTo(k, m.off, l)
             values == Contents(m.os, m.a.b, k.off, kept)
  <1>5. /\ a.cursor \in Nat /\ BlocksOk(o.maps[a.b.region], a.b.base, a.cursor, a.marks, a.blocks)
        /\ \A j \in a.blocks : /\ j.off \in Nat /\ j.size \in Nat \ {0} /\ j.known \in Nat
                               /\ j.known <= j.size /\ j.off + j.size <= a.cursor /\ BlockRec(j)
    BY <1>3, ArenaFacts DEF ArenaOk
  <1>6. /\ BlockRec(r) /\ r.off = m.off /\ r.size = l.size /\ r.align = k.align
        /\ r.holds = k.holds /\ r.depth = k.depth /\ r.known \in Nat /\ r.known <= k.known
        /\ r.known <= l.size /\ r.known <= kept /\ kept \in Nat /\ kept <= l.size
    <2>1. BlockRec(k) /\ k.known \in Nat /\ k.size \in Nat /\ k.known <= k.size /\ l.size \in Nat
      BY <1>4, <1>5
    <2> QED BY <2>1, ResizedIs
  <1> HIDE DEF r, kept, o
  <1>7. \/ m.ok = FALSE /\ m.a = a /\ (m.os = o \/ Fell(o, m.os, "commit"))
        \/ /\ m.ok = TRUE /\ m.off \in Nat
           /\ Advanced(o, m.os, conf, a, m.a, m.off + l.size)
           /\ (o.maps[a.b.region].addr + a.b.base + m.off) % l.align = 0
           /\ \A j \in B : j.off + j.size <= m.off
    <2>1. CASE IsLast(a, k, l)
      <3>1. m.off = k.off /\ Moves(o, conf, a, k.off + l.size, m)
        BY <1>1, <1>3, <2>1, ExtendsIs DEF o
      <3>2. k.off \in Nat /\ (o.maps[a.b.region].addr + a.b.base + k.off) % l.align = 0
        BY <1>2, <1>5 DEF BlocksOk, BlockOk
      <3>3. ASSUME NEW j \in B PROVE j.off + j.size <= k.off
        <4>1. Apart(k, j)
          BY <1>5 DEF BlocksOk
        <4>2. k.off + k.size = a.cursor
          BY <2>1 DEF IsLast
        <4> QED BY <1>5, <4>1, <4>2 DEF Apart
      <3> QED BY <3>1, <3>2, <3>3 DEF Moves
    <2>2. CASE ~IsLast(a, k, l)
      <3>1. Bumps(o, conf, a, l, m)
        BY <1>1, <1>3, <2>2, BumpsIs DEF o
      <3>2. ASSUME m.off \in Nat, a.cursor <= m.off, NEW j \in B PROVE j.off + j.size <= m.off
        BY <1>5, <3>2
      <3> QED BY <3>1, <3>2 DEF Bumps
    <2> QED BY <2>1, <2>2
  <1>8. CASE m.ok = FALSE
    <2>1. m.a = a /\ (m.os = o \/ Fell(o, m.os, "commit")) /\ Replace(a, m.a, m.os)
      BY <1>1, <1>7, <1>8
    <2>2. Stepped(o, m.os, conf, a, a)
      BY <1>3, <2>1, NotServed DEF o
    <2> QED BY <1>2, <2>1, <2>2, ReplaceInv DEF o
  <1>9. CASE m.ok = TRUE
    <2>1. /\ m.off \in Nat /\ Advanced(o, m.os, conf, a, m.a, m.off + l.size)
          /\ (o.maps[a.b.region].addr + a.b.base + m.off) % l.align = 0
          /\ \A j \in B : j.off + j.size <= m.off
      BY <1>7, <1>9
    <2>2. Replace(a, WithBlocks(m.a, B \cup {r}), Written(m.os, m.a.b, m.off, values))
      <3>1. m.a.blocks = a.blocks
        BY <2>1, AdvancedBlocks
      <3> QED BY <1>1, <1>9, <3>1 DEF WithBlocks, r
    <2>3. /\ Spans(values, kept)
          /\ \A i \in 0..(kept - 1) : i < k.known => values[i] = k.holds
      BY <1>3, <1>6, <2>1, ContentsKnown DEF o
    <2> HIDE DEF values, B
    <2>4. NewBlock(o, a, m.off, l.size, r, values, kept)
      <3>1. \A i \in 0..(r.known - 1) : values[i] = r.holds
        <4>1. \A i \in 0..(r.known - 1) : i \in 0..(kept - 1) /\ i < k.known
          BY <1>5, <1>6
        <4> QED BY <1>6, <2>3, <4>1
      <3>2. r.depth \in Nat /\ r.depth <= Len(a.marks)
        BY <1>5, <1>6 DEF BlocksOk, BlockOk
      <3>3. \A j \in 1..Len(a.marks) : FALSE
        BY <1>2
      <3>4. r.align \in Nat \ {0} /\ (o.maps[a.b.region].addr + a.b.base + m.off) % r.align = 0
        BY <1>2, <1>4, <1>6, <2>1
      <3> QED BY <1>6, <2>3, <3>1, <3>2, <3>3, <3>4 DEF NewBlock, Spans
    <2>5. Stepped(o, Written(m.os, m.a.b, m.off, values), conf, a, WithBlocks(m.a, B \cup {r}))
      <3>1. B \subseteq a.blocks
        BY DEF B
      <3> QED BY <1>3, <1>4, <1>6, <2>1, <2>4, <3>1, PutBlock DEF o
    <2> QED BY <1>2, <2>2, <2>5, ReplaceInv DEF o
  <1> QED BY <1>7, <1>8, <1>9
-----------------------------------------------------------------------------
(* deallocate, forge_bump_free, and what moves the cursor back. *)
LEMMA DeallocateInv ==
  ASSUME ArenaInv, NEW a \in out, NEW k \in a.blocks, Deallocate(a, k)
  PROVE  ArenaInv'
  <1> DEFINE B == a.blocks \ {k}
             z == WithBlocks(a, B)
  <1>1. Replace(a, z, Now) /\ conf' = conf /\ idle' = idle /\ last' = "none"
    BY DEF Deallocate, WithBlocks
  <1>2. ArenaOk(Now, conf, a) /\ OsOk(Now)
    BY OutHolder
  <1>3. B \subseteq a.blocks
    OBVIOUS
  <1> HIDE DEF B
  <1>4. Stepped(Now, Now, conf, a, z)
    BY <1>2, <1>3, Forgotten
  <1> HIDE DEF z
  <1> QED BY <1>1, <1>4, ReplaceInv

LEMMA CFreeInv ==
  ASSUME ArenaInv, NEW a \in out, NEW k \in a.blocks, CFree(a, k)
  PROVE  ArenaInv'
  <1> DEFINE z == WithBlocks(a, a.blocks \ {k})
             values == Constantly(Poison, k.size)
             n == Written(Now, a.b, k.off, values)
  <1>1. Replace(a, z, n) /\ conf' = conf /\ idle' = idle /\ last' = "none"
    BY DEF CFree, WithBlocks
  <1>2. ArenaOk(Now, conf, a) /\ OsOk(Now)
    BY OutHolder
  <1>3. Spans(values, k.size)
    BY DEF Spans, Constantly
  <1> HIDE DEF values
  <1>4. Stepped(Now, n, conf, a, z)
    BY <1>2, <1>3, Overwritten
  <1> HIDE DEF z, n
  <1> QED BY <1>1, <1>4, ReplaceInv

(* An arena with its cursor moved back. *)
LEMMA RewindInv ==
  ASSUME ArenaInv, NEW a \in out, NEW z, Rewind(a, z), conf' = conf, idle' = idle,
         NEW cursor, NEW marks, NEW B,
         z = [b |-> a.b, cursor |-> cursor, marks |-> marks, blocks |-> B],
         CursorOk(cursor, a.b.len, marks), B \subseteq a.blocks,
         \A k \in B : /\ k.off + k.size <= cursor /\ k.depth <= Len(marks)
                      /\ \A j \in 1..Len(marks) : k.depth < j => k.off + k.size <= marks[j]
  PROVE  ArenaInv'
  <1>1. Replace(a, z, Now) /\ last' = "none"
    BY DEF Rewind
  <1>2. ArenaOk(Now, conf, a) /\ OsOk(Now)
    BY OutHolder
  <1>3. Stepped(Now, Now, conf, a, z)
    BY <1>2, Trimmed
  <1> QED BY <1>1, <1>3, ReplaceInv

LEMMA RewoundIs ==
  ASSUME NEW a, ArenaRec(a), NEW mark
  PROVE  RewoundTo(a, mark) = [b |-> a.b, cursor |-> mark, marks |-> a.marks,
                               blocks |-> {k \in a.blocks : k.off + k.size <= mark}]
  <1> DEFINE B == {k \in a.blocks : k.off + k.size <= mark}
             x == a.b
             y == a.marks
             w == a.blocks
             e == [b |-> x, cursor |-> mark, marks |-> y, blocks |-> w]
             r == [b |-> x, cursor |-> mark, marks |-> y, blocks |-> B]
  <1>1. [a EXCEPT !.cursor = mark] = e
    BY DEF ArenaRec
  <1>2. RewoundTo(a, mark) = [[a EXCEPT !.cursor = mark] EXCEPT !.blocks = B]
    BY DEF RewoundTo
  <1> HIDE DEF B, x, y, w
  <1>3. [e EXCEPT !.blocks = B] = r
    OBVIOUS
  <1>4. RewoundTo(a, mark) = r
    BY <1>1, <1>2, <1>3
  <1> QED BY <1>4 DEF B, x, y

LEMMA RewoundInv ==
  ASSUME ArenaInv, NEW a \in out, a.marks = <<>>, NEW mark \in Nat, mark <= a.cursor,
         Rewind(a, RewoundTo(a, mark)), conf' = conf, idle' = idle
  PROVE  ArenaInv'
  <1> DEFINE B == {k \in a.blocks : k.off + k.size <= mark}
             z == RewoundTo(a, mark)
  <1>1. ArenaOk(os, conf, a)
    BY OutHolder
  <1>2. /\ ArenaRec(a) /\ a.cursor \in Nat /\ a.b.len \in Nat /\ a.cursor <= a.b.len
        /\ \A k \in a.blocks : k.depth <= Len(a.marks)
    BY <1>1 DEF ArenaOk, CursorOk, BackingOk, BlocksOk, BlockOk
  <1>3. z = [b |-> a.b, cursor |-> mark, marks |-> a.marks, blocks |-> B]
    BY <1>2, RewoundIs
  <1>4. CursorOk(mark, a.b.len, a.marks)
    <2>1. mark <= a.b.len
      BY <1>2
    <2> QED BY <2>1 DEF CursorOk
  <1>5. /\ B \subseteq a.blocks
        /\ \A k \in B : /\ k.off + k.size <= mark /\ k.depth <= Len(a.marks)
                        /\ \A j \in 1..Len(a.marks) : k.depth < j => k.off + k.size <= a.marks[j]
    <2>1. \A j \in 1..Len(a.marks) : FALSE
      OBVIOUS
    <2> QED BY <1>2, <2>1
  <1> HIDE DEF B, z
  <1>6. Rewind(a, z)
    BY DEF z
  <1> QED BY <1>3, <1>4, <1>5, <1>6, RewindInv

LEMMA ResetInv ==
  ASSUME ArenaInv, NEW a \in out, Reset(a)
  PROVE  ArenaInv'
  <1>1. a.marks = <<>> /\ Rewind(a, RewoundTo(a, 0))
    BY DEF Reset, ResetArena
  <1>2. conf' = conf /\ idle' = idle
    BY DEF Reset, Rewind
  <1>3. 0 <= a.cursor
    <2>1. ArenaOk(os, conf, a)
      BY OutHolder
    <2> QED BY <2>1 DEF ArenaOk, CursorOk
  <1> QED BY <1>1, <1>2, <1>3, RewoundInv

LEMMA RewindToInv ==
  ASSUME ArenaInv, NEW a \in out, NEW mark \in {0} \cup {k.off + k.size : k \in a.blocks},
         RewindTo(a, mark)
  PROVE  ArenaInv'
  <1>1. a.marks = <<>> /\ mark <= a.cursor /\ Rewind(a, RewoundTo(a, mark))
    BY DEF RewindTo
  <1>2. conf' = conf /\ idle' = idle
    BY DEF RewindTo, Rewind
  <1>3. mark \in Nat
    <2>1. ArenaOk(os, conf, a)
      BY OutHolder
    <2>2. \A k \in a.blocks : k.off \in Nat /\ k.size \in Nat
      BY <2>1 DEF ArenaOk, BlocksOk, BlockOk
    <2> QED BY <2>2
  <1> QED BY <1>1, <1>2, <1>3, RewoundInv

-----------------------------------------------------------------------------
(* Scopes. *)
LEMMA OpenScopeInv ==
  ASSUME ArenaInv, NEW a \in out, OpenScope(a)
  PROVE  ArenaInv'
  <1> DEFINE t == a.marks
             marks == Append(a.marks, a.cursor)
             z == [a EXCEPT !.marks = marks]
  <1>1. Rewind(a, z)
    BY DEF OpenScope
  <1>2. conf' = conf /\ idle' = idle
    BY DEF OpenScope, Rewind
  <1>3. ArenaOk(os, conf, a)
    BY OutHolder
  <1>4. /\ ArenaRec(a) /\ a.cursor \in Nat /\ t \in Seq(Nat) /\ Len(t) \in Nat
        /\ a.cursor <= a.b.len
        /\ \A i \in 1..Len(t) : t[i] <= a.cursor
        /\ \A i, j \in 1..Len(t) : i <= j => t[i] <= t[j]
        /\ \A k \in a.blocks : k.depth \in Nat /\ k.depth <= Len(t)
                               /\ k.off + k.size <= a.cursor
                               /\ \A j \in 1..Len(t) : k.depth < j => k.off + k.size <= t[j]
    BY <1>3 DEF ArenaOk, CursorOk, BlocksOk, BlockOk
  <1>5. z = [b |-> a.b, cursor |-> a.cursor, marks |-> marks, blocks |-> a.blocks]
    <2> HIDE DEF marks
    <2> QED BY <1>4 DEF ArenaRec
  <1>6. /\ marks \in Seq(Nat) /\ Len(marks) = Len(t) + 1 /\ marks[Len(t) + 1] = a.cursor
        /\ \A i \in 1..Len(t) : marks[i] = t[i]
    BY <1>4
  <1>7. \A i \in 1..Len(marks) : i \in 1..Len(t) \/ i = Len(t) + 1
    BY <1>4, <1>6
  <1> HIDE DEF marks, t, z
  <1>8. \A i \in 1..Len(marks) : marks[i] <= a.cursor
    <2>1. ASSUME NEW i \in 1..Len(marks) PROVE marks[i] <= a.cursor
      <3>1. CASE i = Len(t) + 1
        BY <1>4, <1>6, <3>1
      <3>2. CASE i \in 1..Len(t)
        BY <1>4, <1>6, <3>2
      <3> QED BY <1>7, <3>1, <3>2
    <2> QED BY <2>1
  <1>9. ASSUME NEW i \in 1..Len(marks), NEW j \in 1..Len(marks), i <= j PROVE marks[i] <= marks[j]
    <2>1. CASE j = Len(t) + 1
      BY <2>1, <1>6, <1>8
    <2>2. CASE j \in 1..Len(t)
      <3>1. i \in 1..Len(t)
        BY <1>9, <2>2, <1>4, <1>7
      <3> QED BY <1>4, <1>6, <1>9, <2>2, <3>1
    <2> QED BY <1>7, <2>1, <2>2
  <1>10. CursorOk(a.cursor, a.b.len, marks)
    BY <1>4, <1>6, <1>8, <1>9 DEF CursorOk
  <1>11. ASSUME NEW k \in a.blocks
         PROVE  /\ k.off + k.size <= a.cursor /\ k.depth <= Len(marks)
                /\ \A j \in 1..Len(marks) : k.depth < j => k.off + k.size <= marks[j]
    BY <1>4, <1>6, <1>7
  <1> QED BY <1>1, <1>2, <1>5, <1>10, <1>11, RewindInv

LEMMA CloseScopeInv ==
  ASSUME ArenaInv, NEW a \in out, CloseScope(a)
  PROVE  ArenaInv'
  <1> DEFINE t == a.marks
             marks == Front(a.marks)
             cursor == Last(a.marks)
             B == {k \in a.blocks : k.depth < Len(a.marks)}
             z == [a EXCEPT !.cursor = cursor, !.marks = marks, !.blocks = B]
  <1>1. Rewind(a, z) /\ t # <<>>
    BY DEF CloseScope
  <1>2. conf' = conf /\ idle' = idle
    BY DEF CloseScope, Rewind
  <1>3. ArenaOk(os, conf, a)
    BY OutHolder
  <1>4. /\ ArenaRec(a) /\ a.cursor \in Nat /\ t \in Seq(Nat) /\ Len(t) \in Nat
        /\ a.cursor <= a.b.len /\ a.b.len \in Nat
        /\ \A i \in 1..Len(t) : t[i] <= a.cursor
        /\ \A i, j \in 1..Len(t) : i <= j => t[i] <= t[j]
        /\ \A k \in a.blocks : k.depth \in Nat /\ k.depth <= Len(t)
                               /\ \A j \in 1..Len(t) : k.depth < j => k.off + k.size <= t[j]
    BY <1>3 DEF ArenaOk, CursorOk, BackingOk, BlocksOk, BlockOk
  <1>5. z = [b |-> a.b, cursor |-> cursor, marks |-> marks, blocks |-> B]
    <2> DEFINE x == a.b
               y == a.blocks
               w == a.marks
               e == [b |-> x, cursor |-> cursor, marks |-> w, blocks |-> y]
               f == [b |-> x, cursor |-> cursor, marks |-> marks, blocks |-> y]
               g == [b |-> x, cursor |-> cursor, marks |-> marks, blocks |-> B]
    <2> HIDE DEF cursor, marks, B
    <2>1. [a EXCEPT !.cursor = cursor] = e
      BY <1>4 DEF ArenaRec
    <2>2. z = [[[a EXCEPT !.cursor = cursor] EXCEPT !.marks = marks] EXCEPT !.blocks = B]
      OBVIOUS
    <2> HIDE DEF x, y, w, z
    <2>3. [e EXCEPT !.marks = marks] = f
      OBVIOUS
    <2>4. [f EXCEPT !.blocks = B] = g
      OBVIOUS
    <2>5. z = g
      BY <2>1, <2>2, <2>3, <2>4
    <2> QED BY <2>5 DEF x
  <1>6. /\ marks \in Seq(Nat) /\ Len(marks) = Len(t) - 1 /\ cursor = t[Len(t)]
        /\ \A i \in 1..(Len(t) - 1) : marks[i] = t[i]
    <2>1. t \in Seq(Nat) /\ t # <<>>
      BY <1>1, <1>4
    <2>2. Front(t) \in Seq(Nat) /\ Len(Front(t)) = Len(t) - 1
      BY <2>1, HoldersFront
    <2>3. \A i \in 1..(Len(t) - 1) : Front(t)[i] = t[i]
      <3>1. Front(t) = SubSeq(t, 1, Len(t) - 1)
        BY DEF Front
      <3>2. \A i \in 1..(Len(t) - 1) : SubSeq(t, 1, Len(t) - 1)[i] = t[i]
        BY <2>1
      <3> QED BY <3>1, <3>2
    <2>4. Last(t) = t[Len(t)]
      BY DEF Last
    <2> QED BY <2>2, <2>3, <2>4
  <1>7. Len(t) >= 1 /\ cursor \in Nat
    BY <1>1, <1>4, <1>6
  <1> HIDE DEF marks, t, z, cursor
  <1>8. \A i \in 1..Len(marks) : i \in 1..Len(t) /\ i <= Len(t) - 1 /\ marks[i] = t[i] /\ i <= Len(t)
    BY <1>4, <1>6
  <1>9. Len(t) \in 1..Len(t)
    BY <1>4, <1>7
  <1>10. \A i \in 1..Len(marks) : marks[i] <= cursor
    BY <1>4, <1>6, <1>8, <1>9
  <1>11. \A i, j \in 1..Len(marks) : i <= j => marks[i] <= marks[j]
    BY <1>4, <1>8
  <1>12. cursor <= a.b.len
    <2>1. cursor <= a.cursor
      BY <1>4, <1>6, <1>9
    <2> QED BY <1>4, <1>7, <2>1
  <1>13. CursorOk(cursor, a.b.len, marks)
    BY <1>6, <1>7, <1>10, <1>11, <1>12 DEF CursorOk
  <1>14. ASSUME NEW k \in B
         PROVE  /\ k.off + k.size <= cursor /\ k.depth <= Len(marks)
                /\ \A j \in 1..Len(marks) : k.depth < j => k.off + k.size <= marks[j]
    <2>1. k \in a.blocks /\ k.depth < Len(t)
      BY DEF t
    <2>2. k.depth \in Nat /\ \A j \in 1..Len(t) : k.depth < j => k.off + k.size <= t[j]
      BY <1>4, <2>1
    <2>3. k.off + k.size <= cursor
      BY <1>6, <1>9, <2>1, <2>2
    <2>4. k.depth <= Len(marks)
      BY <1>4, <1>6, <2>1, <2>2
    <2> QED BY <1>8, <2>2, <2>3, <2>4
  <1>15. B \subseteq a.blocks
    OBVIOUS
  <1> HIDE DEF B
  <1> QED BY <1>1, <1>2, <1>5, <1>13, <1>14, <1>15, RewindInv
-----------------------------------------------------------------------------
(* Arenas come and go. *)
LEMMA InvNow ==
  ASSUME ArenaInv
  PROVE  /\ conf \in Confs /\ idle \in Seq(Idles) /\ Len(idle) \in Nat /\ Len(idle) <= conf.cap
         /\ conf.cap \in Nat /\ IsFiniteSet(out)
         /\ Sound(Now, conf, Holders(out, idle)) /\ OsOk(Now) /\ Now.failed = {}
         /\ Holds(Now, Used(Holders(out, idle)))
  <1>1. Sound(Now, conf, Holders(out, idle)) /\ OsOk(Now) /\ Now.failed = {}
        /\ Holds(Now, Used(Holders(out, idle)))
    BY NowIs DEF ArenaInv
  <1>2. conf.cap \in Nat
    BY ConfFacts DEF ArenaInv
  <1> QED BY <1>1, <1>2, IdleLen DEF ArenaInv

LEMMA ReceiveInv ==
  ASSUME ArenaInv, NEW m \in Mint(Now), Receive(m), conf' = conf, idle' = idle
  PROVE  ArenaInv'
  <1> DEFINE H == Holders(out, idle)
             g == <<0, m.a>>
  <1>1. /\ Sound(Now, conf, H) /\ Holds(Now, Used(H)) /\ Now.failed = {} /\ conf \in Confs
        /\ idle \in Seq(Idles) /\ Len(idle) <= conf.cap /\ IsFiniteSet(out)
    BY InvNow
  <1>2. Minted(Now, conf, Used(H), m)
    BY <1>1, MintOk
  <1>3. g[2] = m.a
    OBVIOUS
  <1> HIDE DEF H, g
  <1>4. /\ m.a = NoArena => Sound(m.os, conf, H)
        /\ m.a # NoArena => Sound(m.os, conf, H \cup {g})
    BY <1>1, <1>2, <1>3, SoundMint
  <1>5. os' = m.os
    BY DEF Receive
  <1>6. CASE m.a = NoArena
    <2>1. out' = out /\ last' = "err"
      BY <1>6 DEF Receive
    <2>2. LastOk(m.os, conf, "err")
      BY <1>2, <1>6 DEF LastOk, Minted, Refused
    <2>3. Sound(os', conf', Holders(out', idle')) /\ LastOk(os', conf', last')
      BY <1>4, <1>5, <1>6, <2>1, <2>2 DEF H
    <2> QED BY <1>1, <2>1, <2>3 DEF ArenaInv
  <1>7. CASE m.a # NoArena
    <2>1. out' = With(out, m.a) /\ last' = "ok"
      BY <1>7 DEF Receive, With
    <2>2. LastOk(m.os, conf, "ok")
      BY <1>2, <1>7 DEF LastOk, Minted, Calls
    <2>3. Holders(With(out, m.a), idle) = With(H, g)
      BY HoldersMore DEF H, g
    <2>4. Sound(m.os, conf, With(H, g))
      BY <1>4, <1>7 DEF With
    <2>5. Sound(os', conf', Holders(out', idle')) /\ LastOk(os', conf', last')
      BY <1>5, <2>1, <2>2, <2>3, <2>4
    <2>6. IsFiniteSet(With(out, m.a))
      BY <1>1, FS_AddElement DEF With
    <2> QED BY <1>1, <2>1, <2>5, <2>6 DEF ArenaInv
  <1> QED BY <1>6, <1>7

LEMMA CheckoutInv ==
  ASSUME ArenaInv, Checkout
  PROVE  ArenaInv'
  <1>1. CASE idle = <<>>
    <2>1. PICK m \in Mint(Now) : Receive(m)
      BY <1>1 DEF Checkout
    <2>2. idle' = idle /\ conf' = conf
      BY <1>1 DEF Checkout
    <2> QED BY <2>1, <2>2, ReceiveInv
  <1>2. CASE idle # <<>>
    <2> DEFINE H == Holders(out, idle)
               z == Last(idle)
               h == <<Len(idle), z>>
               g == <<0, z>>
    <2>1. /\ idle' = Front(idle) /\ out' = With(out, z) /\ os' = Now /\ last' = "none"
          /\ conf' = conf
      BY <1>2 DEF Checkout, With
    <2>2. /\ Sound(Now, conf, H) /\ Holds(Now, Used(H)) /\ conf \in Confs /\ Now.failed = {}
          /\ idle \in Seq(Idles) /\ Len(idle) \in Nat /\ Len(idle) <= conf.cap /\ conf.cap \in Nat
          /\ IsFiniteSet(out)
      BY InvNow
    <2>3. /\ Holders(out, Front(idle)) = Without(H, h) /\ h \in H
          /\ Front(idle) \in Seq(Idles) /\ Len(Front(idle)) = Len(idle) - 1
      BY <1>2, <2>2, HoldersFront
    <2>4. Holders(With(out, z), Front(idle)) = With(Holders(out, Front(idle)), g)
      BY HoldersMore
    <2>5. h[2] = z /\ g[2] = z
      OBVIOUS
    <2> HIDE DEF H, h, g, z
    <2>6. ArenaOk(Now, conf, g[2]) /\ Untouched(Now, Now, Used(H \ {h}))
      BY <2>2, <2>3, <2>5 DEF Sound, Untouched
    <2>7. Own(g[2].b) = Own(h[2].b)
      BY <2>5
    <2>8. Sound(Now, conf, (H \ {h}) \cup {g})
      BY <2>2, <2>3, <2>6, <2>7, SoundSwap
    <2>9. Sound(os', conf', Holders(out', idle'))
      BY <2>1, <2>3, <2>4, <2>8 DEF With, Without
    <2>10. LastOk(Now, conf, "none")
      BY <2>2 DEF LastOk
    <2>11. IsFiniteSet(With(out, z))
      BY <2>2, FS_AddElement DEF With
    <2>12. Len(Front(idle)) <= conf.cap
      BY <2>2, <2>3
    <2> QED BY <2>1, <2>2, <2>3, <2>9, <2>10, <2>11, <2>12 DEF ArenaInv
  <1> QED BY <1>1, <1>2

LEMMA OpenInv ==
  ASSUME ArenaInv, Open
  PROVE  ArenaInv'
  <1>1. PICK m \in Mint(Now) : Receive(m)
    BY DEF Open
  <1>2. idle' = idle /\ conf' = conf
    BY DEF Open
  <1> QED BY <1>1, <1>2, ReceiveInv

LEMMA CInitInv ==
  ASSUME ArenaInv, CInit
  PROVE  ArenaInv'
  <1>1. idle' = idle /\ conf' = conf
    BY DEF CInit
  <1> DEFINE bad == conf.addr = 0 \/ conf.size = 0 \/ conf.size > UsizeMax \div 2
  <1>2. CASE bad
    <2>1. last' = "err" /\ os' = Now /\ out' = out
      BY <1>2 DEF CInit
    <2>2. Now.failed = {} /\ Sound(Now, conf, Holders(out, idle)) /\ conf \in Confs
      BY InvNow
    <2>3. ~Admissible(Now, conf)
      <3>1. conf.use = "c"
        BY DEF CInit
      <3>2. conf.addr \in Nat /\ conf.size \in Nat
        BY <2>2, ConfFacts
      <3>3. SUFFICES ASSUME Admissible(Now, conf) PROVE FALSE
        OBVIOUS
      <3>4. conf.size > 0 /\ conf.addr > 0 /\ conf.size <= UsizeMax \div 2
        BY <3>1, <3>3 DEF Admissible
      <3>5. UsizeMax \div 2 \in Nat
        BY ArenaConstants
      <3> QED BY <1>2, <3>2, <3>4, <3>5
    <2>4. Refused(Now, conf)
      BY <2>2, <2>3 DEF Refused
    <2>5. LastOk(Now, conf, "err")
      BY <2>2, <2>4 DEF LastOk
    <2> QED BY <1>1, <2>1, <2>2, <2>5 DEF ArenaInv
  <1>3. CASE ~bad
    <2>1. PICK m \in Mint(Now) : Receive(m)
      BY <1>3 DEF CInit
    <2> QED BY <1>1, <2>1, ReceiveInv
  <1> QED BY <1>2, <1>3

(* The arena a of a caller is dropped. *)
LEMMA HeldDroppedInv ==
  ASSUME ArenaInv, NEW a \in out, os' \in DropBacking(Now, a.b), out' = out \ {a},
         conf' = conf, idle' = idle, last' = "none"
  PROVE  ArenaInv'
  <1> DEFINE H == Holders(out, idle)
             h == <<0, a>>
             n == os'
  <1>1. /\ Sound(Now, conf, H) /\ Now.failed = {} /\ Len(idle) \in Nat /\ IsFiniteSet(out)
    BY InvNow
  <1>2. h \in H /\ h[2] = a
    BY OutHolder
  <1>3. Holders(Without(out, a), idle) = Without(H, h)
    BY <1>1, HoldersLess
  <1> HIDE DEF H, h
  <1>4. n \in DropBacking(Now, h[2].b)
    BY <1>2
  <1> HIDE DEF n
  <1>5. Sound(n, conf, H \ {h}) /\ Told(Now, n, {"unmap", "unlock"})
    BY <1>1, <1>2, <1>4, SoundDrop
  <1>6. Holders(out', idle') = H \ {h}
    BY <1>3 DEF Without
  <1>7. LastOk(n, conf, "none")
    BY <1>1, <1>5 DEF LastOk, Told, Calls
  <1>8. IsFiniteSet(out')
    BY <1>1, FS_RemoveElement
  <1>9. Sound(os', conf', Holders(out', idle')) /\ LastOk(os', conf', last')
    BY <1>5, <1>6, <1>7 DEF n
  <1> QED BY <1>8, <1>9 DEF ArenaInv

LEMMA DropArenaInv ==
  ASSUME ArenaInv, NEW a \in out, DropArena(a)
  PROVE  ArenaInv'
BY HeldDroppedInv DEF DropArena

LEMMA GiveBackInv ==
  ASSUME ArenaInv, NEW a \in out, GiveBack(a)
  PROVE  ArenaInv'
  <1>1. out' = out \ {a} /\ last' = "none" /\ conf' = conf /\ a.marks = <<>>
    BY DEF GiveBack
  <1>2. CASE ~PoolHasRoom(idle)
    <2>1. idle' = idle /\ os' \in DropBacking(Now, a.b)
      BY <1>2 DEF GiveBack
    <2> QED BY <1>1, <2>1, HeldDroppedInv
  <1>3. CASE PoolHasRoom(idle)
    <2> DEFINE H == Holders(out, idle)
               h == <<0, a>>
               z == ResetArena(a)
               n == Len(idle) + 1
               g == <<n, z>>
               O == Without(out, a)
    <2>1. idle' = Append(idle, z) /\ os' = Now
      BY <1>3 DEF GiveBack
    <2>2. /\ Sound(Now, conf, H) /\ Holds(Now, Used(H)) /\ conf \in Confs /\ Now.failed = {}
          /\ idle \in Seq(Idles) /\ Len(idle) \in Nat /\ conf.cap \in Nat /\ IsFiniteSet(out)
      BY InvNow
    <2>3. h \in H /\ h[2] = a /\ ArenaOk(Now, conf, a)
      BY OutHolder
    <2>4. Fresh(z) /\ z.b = a.b
      <3>1. ArenaRec(a) /\ \A k \in a.blocks : k.off \in Nat /\ k.size \in Nat \ {0}
        BY <2>3 DEF ArenaOk, BlocksOk, BlockOk
      <3> QED BY <1>1, <3>1, FreshReset
    <2>5. Holders(O, idle) = Without(H, h)
      BY <2>2, HoldersLess
    <2>6. g[2] = z
      OBVIOUS
    <2> HIDE DEF H, h, z, O
    <2>7. z \in Idles
      <3>1. a.b \in Backings
        BY <2>2, <2>3, IdleIs
      <3> QED BY <2>4, <3>1, FreshIdle
    <2>8. /\ Holders(O, Append(idle, z)) = With(Holders(O, idle), g)
          /\ Append(idle, z) \in Seq(Idles) /\ Len(Append(idle, z)) = Len(idle) + 1
      BY <2>2, <2>7, HoldersAppend
    <2> HIDE DEF g
    <2>9. ArenaOk(Now, conf, g[2])
      <3>1. BackingOk(Now, conf, Len(conf.layers), z.b)
        BY <2>3, <2>4 DEF ArenaOk
      <3> QED BY <2>4, <2>6, <3>1, FreshOkay
    <2>10. Own(g[2].b) = Own(h[2].b) /\ Untouched(Now, Now, Used(H \ {h}))
      BY <2>3, <2>4, <2>6 DEF Untouched
    <2>11. Sound(Now, conf, (H \ {h}) \cup {g})
      BY <2>2, <2>3, <2>9, <2>10, SoundSwap
    <2>12. out' = O
      BY <1>1 DEF O, Without
    <2>13. Sound(os', conf', Holders(out', idle'))
      BY <1>1, <2>1, <2>5, <2>8, <2>11, <2>12 DEF With, Without
    <2>14. LastOk(Now, conf, "none")
      BY <2>2 DEF LastOk
    <2>15. Len(Append(idle, z)) <= conf.cap
      BY <1>3, <2>2, <2>8 DEF PoolHasRoom
    <2>16. IsFiniteSet(out')
      BY <1>1, <2>2, FS_RemoveElement
    <2> QED BY <1>1, <2>1, <2>2, <2>8, <2>13, <2>14, <2>15, <2>16 DEF ArenaInv
  <1> QED BY <1>2, <1>3
-----------------------------------------------------------------------------
(* clear: every idle arena is dropped. *)
LEMMA ClearChain ==
  ASSUME Clear
  PROVE  \E f : IsChain("clear", idle, {Now}, 0, Len(idle), f) /\ os' \in f[Len(idle)]
  <1> DEFINE n == Len(idle)
             z == {Now}
             Good(f) == f = [k \in 0..n |->
                               IF k = 0 THEN z ELSE UNION {DropBacking(o, idle[k].b) : o \in f[k - 1]}]
             w == CHOOSE f : Good(f)
  <1>1. n \in Nat
    BY DEF Clear
  <1>2. os' \in w[n]
    BY DEF Clear
  <1> HIDE DEF z, n
  <1>3. PICK f : IsChain("clear", idle, z, 0, n, f)
    BY <1>1, ChainExists
  <1>4. ASSUME NEW g PROVE IsChain("clear", idle, z, 0, n, g) <=> Good(g)
    <2>1. ASSUME NEW k \in 0..n
          PROVE  OneMore("clear", idle, k, g[k - 1]) = UNION {DropBacking(o, idle[k].b) : o \in g[k - 1]}
      BY DEF OneMore
    <2> QED BY <2>1 DEF IsChain
  <1>5. Good(f)
    BY <1>3, <1>4
  <1>6. Good(w)
    <2> HIDE DEF Good
    <2> QED BY <1>5
  <1> HIDE DEF w, Good
  <1>7. IsChain("clear", idle, z, 0, n, w)
    BY <1>4, <1>6
  <1> QED BY <1>2, <1>7 DEF z, n

Cleared(H, s, k) == H \ {<<i, s[i]>> : i \in 1..k}

LEMMA ClearedOne ==
  ASSUME NEW O, NEW s, NEW n \in Nat, Len(s) = n, NEW k \in 1..n
  PROVE  LET H == Holders(O, s)
             h == <<k, s[k]>>
         IN /\ h \in Cleared(H, s, k - 1) /\ h[2] = s[k]
            /\ Cleared(H, s, k) = Cleared(H, s, k - 1) \ {h}
  <1> DEFINE H == Holders(O, s)
             h == <<k, s[k]>>
  <1>1. h \in H
    BY DEF Holders
  <1>2. \A i \in 1..(k - 1) : <<i, s[i]>> # h /\ i \in 1..k
    OBVIOUS
  <1>3. \A i \in 1..k : i \in 1..(k - 1) \/ i = k
    OBVIOUS
  <1>4. k \in 1..k
    OBVIOUS
  <1> HIDE DEF H
  <1>5. h \in Cleared(H, s, k - 1)
    BY <1>1, <1>2 DEF Cleared
  <1>6. {<<i, s[i]>> : i \in 1..k} = {<<i, s[i]>> : i \in 1..(k - 1)} \cup {h}
    BY <1>2, <1>3, <1>4, Zenon
  <1>7. Cleared(H, s, k) = Cleared(H, s, k - 1) \ {h}
    BY <1>6 DEF Cleared
  <1>8. h[2] = s[k]
    OBVIOUS
  <1> HIDE DEF h
  <1> QED BY <1>5, <1>7, <1>8 DEF H, h

LEMMA ClearedEnds ==
  ASSUME NEW O, NEW s, Len(s) \in Nat
  PROVE  /\ Cleared(Holders(O, s), s, 0) = Holders(O, s)
         /\ Cleared(Holders(O, s), s, Len(s)) = Holders(O, <<>>)
  <1>1. \A a \in O : \A i \in 1..Len(s) : <<0, a>> # <<i, s[i]>>
    OBVIOUS
  <1>2. 1..0 = {} /\ Len(<<>>) = 0
    OBVIOUS
  <1>3. Cleared(Holders(O, s), s, 0) = Holders(O, s)
    BY <1>2 DEF Cleared
  <1>4. Holders(O, <<>>) = {<<0, a>> : a \in O}
    BY <1>2 DEF Holders
  <1>5. Cleared(Holders(O, s), s, Len(s)) = {<<0, a>> : a \in O}
    BY <1>1 DEF Cleared, Holders
  <1> QED BY <1>3, <1>4, <1>5

LEMMA ClearInv ==
  ASSUME ArenaInv, Clear
  PROVE  ArenaInv'
  <1> DEFINE n == Len(idle)
             H == Holders(out, idle)
             P(k, v) == Sound(v, conf, Cleared(H, idle, k)) /\ v.failed \subseteq {"unmap", "unlock"}
  <1>1. PICK f : IsChain("clear", idle, {Now}, 0, n, f) /\ os' \in f[n]
    BY ClearChain
  <1>2. /\ Sound(Now, conf, H) /\ Now.failed = {} /\ n \in Nat /\ conf \in Confs
        /\ IsFiniteSet(out) /\ conf.cap \in Nat
    BY InvNow
  <1>3. Cleared(H, idle, 0) = H /\ Cleared(H, idle, n) = Holders(out, <<>>)
    BY <1>2, ClearedEnds
  <1>4. \A k \in 1..n : LET h == <<k, idle[k]>>
                        IN /\ h \in Cleared(H, idle, k - 1) /\ h[2] = idle[k]
                           /\ Cleared(H, idle, k) = Cleared(H, idle, k - 1) \ {h}
    BY <1>2, ClearedOne
  <1> HIDE DEF n, H
  <1> DEFINE B == {k \in 0..n : \E v \in f[k] : ~P(k, v)}
  <1>5. ASSUME NEW k \in 0..n, k \in B PROVE FALSE
    <2>1. PICK j \in 0..n : j \in B /\ \A i \in 0..n : i < j => i \notin B
      <3> HIDE DEF B
      <3> QED BY <1>2, <1>5, FirstBad
    <2>2. PICK v \in f[j] : ~P(j, v)
      BY <2>1
    <2>3. CASE j = 0
      <3>1. f[0] = {Now}
        BY <1>1, <1>2 DEF IsChain
      <3>2. v = Now
        BY <2>2, <2>3, <3>1
      <3> QED BY <1>2, <1>3, <2>2, <2>3, <3>2
    <2>4. CASE j # 0
      <3>1. j - 1 \in 0..n /\ j - 1 < j /\ j \in 1..n
        BY <1>2, <2>4
      <3>2. f[j] = OneMore("clear", idle, j, f[j - 1])
        BY <1>1, <2>4 DEF IsChain
      <3>3. PICK u \in f[j - 1] : v \in DropBacking(u, idle[j].b)
        BY <2>2, <3>2 DEF OneMore
      <3>4. P(j - 1, u)
        BY <2>1, <3>1
      <3> DEFINE h == <<j, idle[j]>>
                 G == Cleared(H, idle, j - 1)
      <3>5. h \in G /\ h[2] = idle[j] /\ Cleared(H, idle, j) = G \ {h}
        BY <1>4, <3>1
      <3>6. Sound(u, conf, G) /\ u.failed \subseteq {"unmap", "unlock"}
        BY <3>4
      <3> HIDE DEF h, G
      <3>7. Sound(v, conf, G \ {h}) /\ Told(u, v, {"unmap", "unlock"})
        <4>1. v \in DropBacking(u, h[2].b)
          BY <3>3, <3>5
        <4> QED BY <3>5, <3>6, <4>1, SoundDrop
      <3>8. v.failed \subseteq {"unmap", "unlock"}
        BY <3>6, <3>7 DEF Told
      <3> QED BY <2>2, <3>5, <3>7, <3>8
    <2> QED BY <2>3, <2>4
  <1>6. P(n, os')
    BY <1>1, <1>2, <1>5
  <1>7. /\ idle' = <<>> /\ last' = "none" /\ conf' = conf /\ out' = out
    BY DEF Clear
  <1>8. Sound(os', conf, Holders(out, <<>>)) /\ os'.failed \subseteq {"unmap", "unlock"}
    BY <1>3, <1>6
  <1>9. LastOk(os', conf, "none")
    BY <1>8 DEF LastOk, Calls
  <1>10. <<>> \in Seq(Idles) /\ Len(<<>>) <= conf.cap
    BY <1>2
  <1>11. /\ conf' \in Confs /\ idle' \in Seq(Idles) /\ Len(idle') <= conf'.cap /\ IsFiniteSet(out')
         /\ Sound(os', conf', Holders(out', idle')) /\ LastOk(os', conf', last')
    BY <1>2, <1>7, <1>8, <1>9, <1>10
  <1> QED BY <1>11 DEF ArenaInv
-----------------------------------------------------------------------------
(* release_idle: the pages of every idle arena are given back. *)
LEMMA DiscardedIs ==
  ASSUME NEW o, OsOk(o), NEW r \in DOMAIN o.maps, NEW off, NEW extent, NEW n \in Discarded(o, r, off, extent)
  PROVE  Refilled(o, n, r) \/ Fell(o, n, "release")
  <1>1. CASE n \in MayFail(o, "release")
    <2>1. OsRec(o)
      BY DEF OsOk
    <2> QED BY <1>1, <2>1, MayFailIs
  <1>2. CASE n \notin MayFail(o, "release")
    <2> DEFINE q == o.maps[r]
               f == [i \in 0..(q.len - 1) |-> IF i \in off..(off + extent - 1) THEN Junk ELSE q.mem[i]]
    <2>1. DOMAIN q.mem = 0..(q.len - 1)
      <3>1. MapOk(q)
        BY DEF OsOk
      <3> QED BY <3>1 DEF MapOk
    <2>2. n = [o EXCEPT !.maps[r].mem = [i \in DOMAIN @ |-> IF i \in off..(off + extent - 1)
                                                           THEN Junk ELSE @[i]]]
      BY <1>2 DEF Discarded
    <2>3. n = Filled(o, r, f)
      BY <2>1, <2>2 DEF Filled
    <2>4. IsMem(f, o.maps[r].len)
      BY DEF IsMem
    <2> HIDE DEF f, q
    <2>5. Refilled(o, Filled(o, r, f), r)
      BY <2>4, RefilledIs
    <2> QED BY <2>3, <2>5
  <1> QED BY <1>1, <1>2

(* What is asked for ends below the watermark. *)
LEMMA ReleaseClamped ==
  ASSUME NEW o, NEW b, b.committed = o.maps[b.region].backed, NEW range, range.off \in Int,
         range.len \in Int, b.committed \in Nat, Bottom(b) # "huge",
         NEW amount, amount = Releasable(o, b, range), amount # 0
  PROVE  ~Uncommitted(o, b.region, range.off, amount)
  <1>1. CASE o.platform = "windows"
    <2> DEFINE end == range.off + range.len
               low == IF end < b.committed THEN end ELSE b.committed
    <2>1. low \in Int /\ low <= b.committed
      OBVIOUS
    <2>2. amount = IF low > range.off THEN low - range.off ELSE 0
      BY <1>1 DEF Releasable
    <2> HIDE DEF low
    <2>3. range.off + amount = low
      BY <2>1, <2>2
    <2>4. ~(range.off + amount > o.maps[b.region].backed)
      BY <2>1, <2>3
    <2> QED BY <2>4 DEF Uncommitted
  <1>2. CASE o.platform # "windows"
    BY <1>2 DEF Uncommitted
  <1> QED BY <1>1, <1>2

LEMMA RangeInt ==
  ASSUME NEW o, NEW b, o.maps[b.region].addr \in Nat, NEW extent \in Nat
  PROVE  ReleaseRange(o, b, 0, extent).off \in Int /\ ReleaseRange(o, b, 0, extent).len \in Int
  <1> DEFINE start == o.maps[b.region].addr + 0
             first == AlignUp(start, HugePage)
             end == ((start + extent) \div HugePage) * HugePage
  <1>1. start \in Nat /\ HugePage \in Nat \ {0}
    BY ArenaConstants
  <1>2. first \in Nat
    BY <1>1, RoundedUp
  <1>3. end \in Int
    <2>1. (start + extent) \div HugePage \in Int
      BY <1>1
    <2> QED BY <1>1, <2>1
  <1>4. ReleaseRange(o, b, 0, extent) =
          IF ~Contains(b.layers, "hpaligned") THEN [off |-> 0, len |-> extent]
          ELSE [off |-> 0 + (first - start), len |-> IF end <= first THEN 0 ELSE end - first]
    BY DEF ReleaseRange
  <1> HIDE DEF start, first, end
  <1> QED BY <1>1, <1>2, <1>3, <1>4

LEMMA ReleaseIs ==
  ASSUME NEW o, OsOk(o), NEW c, NEW k, NEW b, BackingOk(o, c, k, b),
         NEW n \in ReleasePages(o, b, 0, o.maps[b.region].len)
  PROVE  n = o \/ Refilled(o, n, b.region) \/ Fell(o, n, "release")
  <1> DEFINE r == b.region
             range == ReleaseRange(o, b, 0, o.maps[r].len)
             amount == Releasable(o, b, range)
  <1>1. r \in DOMAIN o.maps /\ MapOk(o.maps[r]) /\ b.committed = o.maps[r].backed
    BY DEF BackingOk, RegionOk, OsOk
  <1>2. /\ o.maps[r].addr \in Nat /\ o.maps[r].len \in Nat /\ b.committed \in Nat
    BY <1>1 DEF MapOk
  <1>3. range.off \in Int /\ range.len \in Int
    BY <1>2, RangeInt
  <1>4. \/ n = o
        \/ n \in Discarded(o, r, range.off, amount)
        \/ Bottom(b) # "huge" /\ amount # 0 /\ n \in OsReleasePages(o, r, range.off, amount)
    BY DEF ReleasePages, OsReleasePagesHuge
  <1> HIDE DEF range, amount
  <1>5. CASE n \in Discarded(o, r, range.off, amount)
    BY <1>1, <1>5, DiscardedIs
  <1>6. CASE Bottom(b) # "huge" /\ amount # 0 /\ n \in OsReleasePages(o, r, range.off, amount)
    <2>1. ~Uncommitted(o, r, range.off, amount)
      BY <1>1, <1>2, <1>3, <1>6, ReleaseClamped DEF amount
    <2>2. n \in Discarded(o, r, range.off, amount)
      BY <1>6, <2>1 DEF OsReleasePages
    <2> QED BY <1>1, <2>2, DiscardedIs
  <1> QED BY <1>4, <1>5, <1>6

LEMMA SoundRelease ==
  ASSUME NEW o, NEW c, NEW H, Sound(o, c, H), NEW h \in H, h[2].blocks = {},
         NEW n \in ReleasePages(o, h[2].b, 0, o.maps[h[2].b.region].len)
  PROVE  Sound(n, c, H) /\ n.failed \subseteq o.failed \cup {"release"}
  <1> DEFINE a == h[2]
             r == a.b.region
  <1>1. ArenaOk(o, c, a) /\ BackingOk(o, c, Len(c.layers), a.b) /\ OsOk(o) /\ Holds(o, Used(H))
        /\ r \in DOMAIN o.maps
    BY DEF Sound, ArenaOk, Holds, BackingOk
  <1>2. n = o \/ Refilled(o, n, r) \/ Fell(o, n, "release")
    BY <1>1, ReleaseIs
  <1>3. CASE n = o
    BY <1>3
  <1>4. CASE Fell(o, n, "release")
    BY <1>4, SoundSame DEF Fell
  <1>5. CASE Refilled(o, n, r)
    <2>1. Local(o, n, r)
      BY <1>1, <1>5, LocalRefilled
    <2>2. r \notin Used(H \ {h}) /\ Used(H \ {h}) \subseteq Used(H)
      BY OneOfUsed
    <2>3. Holds(n, Used(H)) /\ Untouched(o, n, Used(H \ {h}))
      BY <1>1, <2>1, <2>2, LocalHolds
    <2>4. ArenaOk(n, c, a)
      <3>1. BackingOk(n, c, Len(c.layers), a.b)
        BY <1>1, <1>5, RefilledBacking
      <3>2. BlocksOk(n.maps[r], a.b.base, a.cursor, a.marks, {})
        BY DEF BlocksOk
      <3> QED BY <1>1, <3>1, <3>2 DEF ArenaOk
    <2>5. Sound(n, c, (H \ {h}) \cup {h})
      BY <2>3, <2>4, SoundSwap
    <2>6. (H \ {h}) \cup {h} = H
      OBVIOUS
    <2>7. n.failed = o.failed
      BY <1>5 DEF Refilled, Changed
    <2> QED BY <2>5, <2>6, <2>7
  <1> QED BY <1>2, <1>3, <1>4, <1>5

LEMMA ReleaseChain ==
  ASSUME ReleaseIdle
  PROVE  \E f : IsChain("release", idle, {Now}, 0, Len(idle), f) /\ os' \in f[Len(idle)]
  <1> DEFINE n == Len(idle)
             z == {Now}
             Good(f) == f = [k \in 0..n |->
                               IF k = 0 THEN z
                               ELSE UNION {ReleasePages(o, idle[k].b, 0, o.maps[idle[k].b.region].len) :
                                             o \in f[k - 1]}]
             w == CHOOSE f : Good(f)
  <1>1. n \in Nat
    BY DEF ReleaseIdle
  <1>2. os' \in w[n]
    BY DEF ReleaseIdle
  <1> HIDE DEF z, n
  <1>3. PICK f : IsChain("release", idle, z, 0, n, f)
    BY <1>1, ChainExists
  <1>4. ASSUME NEW g PROVE IsChain("release", idle, z, 0, n, g) <=> Good(g)
    <2>1. ASSUME NEW k \in 0..n
          PROVE  OneMore("release", idle, k, g[k - 1])
                 = UNION {ReleasePages(o, idle[k].b, 0, o.maps[idle[k].b.region].len) : o \in g[k - 1]}
      BY DEF OneMore
    <2> QED BY <2>1 DEF IsChain
  <1>5. Good(f)
    BY <1>3, <1>4
  <1>6. Good(w)
    <2> HIDE DEF Good
    <2> QED BY <1>5
  <1> HIDE DEF w, Good
  <1>7. IsChain("release", idle, z, 0, n, w)
    BY <1>4, <1>6
  <1> QED BY <1>2, <1>7 DEF z, n

LEMMA IdlePlace ==
  ASSUME NEW O, NEW s \in Seq(Idles), NEW k \in 1..Len(s)
  PROVE  /\ <<k, s[k]>> \in Holders(O, s) /\ <<k, s[k]>>[2] = s[k] /\ s[k].blocks = {}
         /\ s[k].cursor = 0 /\ s[k].marks = <<>>
  <1>1. s[k] \in Idles
    OBVIOUS
  <1>2. s[k].blocks = {} /\ s[k].cursor = 0 /\ s[k].marks = <<>>
    BY <1>1 DEF Idles
  <1>3. <<k, s[k]>> \in Holders(O, s)
    BY DEF Holders
  <1> QED BY <1>2, <1>3

LEMMA ReleaseIdleInv ==
  ASSUME ArenaInv, ReleaseIdle
  PROVE  ArenaInv'
  <1> DEFINE n == Len(idle)
             H == Holders(out, idle)
             P(v) == Sound(v, conf, H) /\ v.failed \subseteq {"release"}
  <1>1. PICK f : IsChain("release", idle, {Now}, 0, n, f) /\ os' \in f[n]
    BY ReleaseChain
  <1>2. /\ Sound(Now, conf, H) /\ Now.failed = {} /\ n \in Nat /\ conf \in Confs
        /\ IsFiniteSet(out) /\ idle \in Seq(Idles) /\ n <= conf.cap
    BY InvNow
  <1>4. \A k \in 1..n : <<k, idle[k]>> \in H /\ <<k, idle[k]>>[2] = idle[k] /\ idle[k].blocks = {}
    BY <1>2, IdlePlace
  <1> HIDE DEF n, H
  <1> DEFINE B == {k \in 0..n : \E v \in f[k] : ~P(v)}
  <1>5. ASSUME NEW k \in 0..n, k \in B PROVE FALSE
    <2>1. PICK j \in 0..n : j \in B /\ \A i \in 0..n : i < j => i \notin B
      <3> HIDE DEF B
      <3> QED BY <1>2, <1>5, FirstBad
    <2>2. PICK v \in f[j] : ~P(v)
      BY <2>1
    <2>3. CASE j = 0
      <3>1. f[0] = {Now}
        BY <1>1, <1>2 DEF IsChain
      <3>2. v = Now
        BY <2>2, <2>3, <3>1
      <3> QED BY <1>2, <2>2, <3>2
    <2>4. CASE j # 0
      <3>1. j - 1 \in 0..n /\ j - 1 < j /\ j \in 1..n
        BY <1>2, <2>4
      <3>2. f[j] = OneMore("release", idle, j, f[j - 1])
        BY <1>1, <2>4 DEF IsChain
      <3>3. PICK u \in f[j - 1] : v \in ReleasePages(u, idle[j].b, 0, u.maps[idle[j].b.region].len)
        BY <2>2, <3>2 DEF OneMore
      <3>4. P(u)
        BY <2>1, <3>1
      <3> DEFINE h == <<j, idle[j]>>
      <3>5. h \in H /\ h[2] = idle[j] /\ idle[j].blocks = {}
        BY <1>4, <3>1
      <3> HIDE DEF h
      <3>6. Sound(v, conf, H) /\ v.failed \subseteq u.failed \cup {"release"}
        <4>1. v \in ReleasePages(u, h[2].b, 0, u.maps[h[2].b.region].len) /\ h[2].blocks = {}
          BY <3>3, <3>5
        <4> QED BY <3>4, <3>5, <4>1, SoundRelease
      <3> QED BY <2>2, <3>4, <3>6
    <2> QED BY <2>3, <2>4
  <1>6. P(os')
    BY <1>1, <1>2, <1>5
  <1>7. /\ idle' = idle /\ last' = "none" /\ conf' = conf /\ out' = out
    BY DEF ReleaseIdle
  <1>9. LastOk(os', conf, "none")
    BY <1>6 DEF LastOk, Calls
  <1>11. /\ conf' \in Confs /\ idle' \in Seq(Idles) /\ Len(idle') <= conf'.cap /\ IsFiniteSet(out')
         /\ Sound(os', conf', Holders(out', idle')) /\ LastOk(os', conf', last')
    BY <1>2, <1>6, <1>7, <1>9 DEF H, n
  <1> QED BY <1>11 DEF ArenaInv
-----------------------------------------------------------------------------
(* prewarm: one arena after the other. *)
Target(n) == IF conf.cap < Len(idle) + n THEN conf.cap ELSE Len(idle) + n

Cold == {[os |-> Now, idle |-> idle, last |-> "none"]}

LEMMA PrewarmChain ==
  ASSUME NEW n \in Nat, NEW s \in Prewarmed(n)
  PROVE  \E f : IsChain("prewarm", Target(n), Cold, 0, n, f) /\ s \in f[n]
  <1> DEFINE p == Target(n)
             z == Cold
             Good(f) == f = [k \in 0..n |->
                               IF k = 0 THEN z
                               ELSE UNION {IF v.last = "err" \/ Len(v.idle) >= p THEN {v}
                                           ELSE {[os |-> m.os,
                                                  idle |-> IF m.a = NoArena THEN v.idle
                                                           ELSE Append(v.idle, m.a),
                                                  last |-> IF m.a = NoArena THEN "err" ELSE "ok"] :
                                                   m \in Mint(v.os)} :
                                             v \in f[k - 1]}]
             w == CHOOSE f : Good(f)
  <1>2. s \in w[n]
    BY DEF Prewarmed, Target, Cold
  <1> HIDE DEF z, p
  <1>3. PICK f : IsChain("prewarm", p, z, 0, n, f)
    BY ChainExists
  <1>4. ASSUME NEW g PROVE IsChain("prewarm", p, z, 0, n, g) <=> Good(g)
    <2>1. ASSUME NEW k \in 0..n
          PROVE  OneMore("prewarm", p, k, g[k - 1])
                 = UNION {IF v.last = "err" \/ Len(v.idle) >= p THEN {v}
                          ELSE {[os |-> m.os,
                                 idle |-> IF m.a = NoArena THEN v.idle ELSE Append(v.idle, m.a),
                                 last |-> IF m.a = NoArena THEN "err" ELSE "ok"] : m \in Mint(v.os)} :
                            v \in g[k - 1]}
      BY DEF OneMore
    <2> QED BY <2>1 DEF IsChain
  <1>5. Good(f)
    BY <1>3, <1>4
  <1>6. Good(w)
    <2> HIDE DEF Good
    <2> QED BY <1>5
  <1> HIDE DEF w, Good
  <1>7. IsChain("prewarm", p, z, 0, n, w)
    BY <1>4, <1>6
  <1> QED BY <1>2, <1>7 DEF z, p

(* A pool on its way. *)
Warm(c, O, s) ==
  /\ s.idle \in Seq(Idles) /\ Len(s.idle) <= c.cap
  /\ Sound(s.os, c, Holders(O, s.idle)) /\ LastOk(s.os, c, s.last)
  /\ s.last # "err" => s.os.failed = {}

LEMMA WarmMore ==
  ASSUME conf \in Confs, NEW O, NEW s, Warm(conf, O, s), s.last # "err", Len(s.idle) < conf.cap,
         NEW m \in Mint(s.os), NEW v,
         v = [os |-> m.os,
              idle |-> IF m.a = NoArena THEN s.idle ELSE Append(s.idle, m.a),
              last |-> IF m.a = NoArena THEN "err" ELSE "ok"]
  PROVE  Warm(conf, O, v)
  <1> DEFINE H == Holders(O, s.idle)
             g == <<Len(s.idle) + 1, m.a>>
             t == s.idle
  <1>0. v.os = m.os /\ v.idle = (IF m.a = NoArena THEN s.idle ELSE Append(s.idle, m.a))
        /\ v.last = (IF m.a = NoArena THEN "err" ELSE "ok")
    OBVIOUS
  <1>1. /\ Sound(s.os, conf, H) /\ Holds(s.os, Used(H)) /\ s.os.failed = {} /\ t \in Seq(Idles)
        /\ Len(t) \in Nat
    <2>1. Sound(s.os, conf, H) /\ s.os.failed = {} /\ t \in Seq(Idles)
      BY DEF Warm
    <2>2. Len(t) \in Nat
      BY <2>1
    <2> HIDE DEF H, t
    <2> QED BY <2>1, <2>2 DEF Sound
  <1>2. Minted(s.os, conf, Used(H), m)
    BY <1>1, MintOk
  <1>3. g[2] = m.a
    OBVIOUS
  <1> HIDE DEF H, g
  <1>4. /\ m.a = NoArena => Sound(m.os, conf, H)
        /\ m.a # NoArena => Sound(m.os, conf, H \cup {g})
    BY <1>1, <1>2, <1>3, SoundMint
  <1>5. CASE m.a = NoArena
    <2>1. v.os = m.os /\ v.idle = t /\ v.last = "err"
      BY <1>0, <1>5
    <2>2. LastOk(m.os, conf, "err")
      BY <1>2, <1>5 DEF LastOk, Minted, Refused
    <2>3. Sound(m.os, conf, Holders(O, t))
      BY <1>4, <1>5 DEF H
    <2>4. Len(t) <= conf.cap
      BY DEF Warm
    <2> HIDE DEF t
    <2> QED BY <1>1, <2>1, <2>2, <2>3, <2>4 DEF Warm
  <1>6. CASE m.a # NoArena
    <2>1. v.os = m.os /\ v.idle = Append(t, m.a) /\ v.last = "ok"
      BY <1>0, <1>6
    <2>2. LastOk(m.os, conf, "ok") /\ m.os.failed = {}
      BY <1>2, <1>6 DEF LastOk, Minted, Calls
    <2>3. m.a \in Idles
      <3>1. Sound(m.os, conf, H \cup {g}) /\ g \in H \cup {g}
        BY <1>4, <1>6
      <3>2. m.a.b \in Backings
        BY <3>1, <1>3, IdleIs
      <3> QED BY <3>2, <1>2, <1>6, FreshIdle DEF Minted
    <2>4. /\ Holders(O, Append(t, m.a)) = With(H, g)
          /\ Append(t, m.a) \in Seq(Idles) /\ Len(Append(t, m.a)) = Len(t) + 1
      <3> HIDE DEF t
      <3> QED BY <1>1, <2>3, HoldersAppend DEF H, g, t
    <2>5. Sound(m.os, conf, Holders(O, Append(t, m.a)))
      BY <1>4, <1>6, <2>4 DEF With
    <2>6. Len(t) + 1 <= conf.cap
      BY <1>1, ConfFacts
    <2> DEFINE w == Append(t, m.a)
    <2> HIDE DEF w
    <2>7. v.idle = w /\ w \in Seq(Idles) /\ Len(w) <= conf.cap /\ Sound(m.os, conf, Holders(O, w))
      BY <2>1, <2>4, <2>5, <2>6 DEF w
    <2> QED BY <2>1, <2>2, <2>7 DEF Warm
  <1> QED BY <1>5, <1>6

LEMMA PrewarmInv ==
  ASSUME ArenaInv, NEW n \in 0..2, Prewarm(n)
  PROVE  ArenaInv'
  <1> DEFINE P(v) == Warm(conf, out, v)
             z == Cold
             p == Target(n)
  <1>1. PICK s \in Prewarmed(n) : os' = s.os /\ idle' = s.idle /\ last' = s.last
    BY DEF Prewarm
  <1>2. PICK f : IsChain("prewarm", p, z, 0, n, f) /\ s \in f[n]
    BY PrewarmChain
  <1>3. /\ Sound(Now, conf, Holders(out, idle)) /\ Now.failed = {} /\ n \in Nat /\ conf \in Confs
        /\ IsFiniteSet(out) /\ idle \in Seq(Idles) /\ Len(idle) <= conf.cap /\ Len(idle) \in Nat
        /\ conf.cap \in Nat
    BY InvNow
  <1>4. p \in Nat /\ p <= conf.cap
    BY <1>3 DEF Target
  <1>5. ASSUME NEW v \in z PROVE P(v)
    <2>1. v.os = Now /\ v.idle = idle /\ v.last = "none"
      BY DEF Cold
    <2>2. LastOk(Now, conf, "none")
      BY <1>3 DEF LastOk
    <2> QED BY <1>3, <2>1, <2>2 DEF Warm
  <1> HIDE DEF z, p
  <1> DEFINE B == {k \in 0..n : \E v \in f[k] : ~P(v)}
  <1>6. ASSUME NEW k \in 0..n, k \in B PROVE FALSE
    <2>1. PICK j \in 0..n : j \in B /\ \A i \in 0..n : i < j => i \notin B
      <3> HIDE DEF B
      <3> QED BY <1>3, <1>6, FirstBad
    <2>2. PICK v \in f[j] : ~P(v)
      BY <2>1
    <2>3. CASE j = 0
      <3>1. f[0] = z
        BY <1>2, <1>3 DEF IsChain
      <3> QED BY <1>5, <2>2, <2>3, <3>1
    <2>4. CASE j # 0
      <3>1. j - 1 \in 0..n /\ j - 1 < j
        BY <1>3, <2>4
      <3>2. f[j] = OneMore("prewarm", p, j, f[j - 1])
        BY <1>2, <2>4 DEF IsChain
      <3>3. PICK u \in f[j - 1] :
              v \in IF u.last = "err" \/ Len(u.idle) >= p THEN {u}
                    ELSE {[os |-> m.os,
                           idle |-> IF m.a = NoArena THEN u.idle ELSE Append(u.idle, m.a),
                           last |-> IF m.a = NoArena THEN "err" ELSE "ok"] : m \in Mint(u.os)}
        BY <2>2, <3>2 DEF OneMore
      <3>4. P(u)
        BY <2>1, <3>1
      <3>5. CASE u.last = "err" \/ Len(u.idle) >= p
        BY <2>2, <3>3, <3>4, <3>5
      <3>6. CASE ~(u.last = "err" \/ Len(u.idle) >= p)
        <4>1. PICK m \in Mint(u.os) :
                v = [os |-> m.os,
                     idle |-> IF m.a = NoArena THEN u.idle ELSE Append(u.idle, m.a),
                     last |-> IF m.a = NoArena THEN "err" ELSE "ok"]
          BY <3>3, <3>6
        <4>2. Len(u.idle) < conf.cap
          <5>1. Len(u.idle) \in Nat
            BY <3>4 DEF Warm
          <5> QED BY <1>3, <1>4, <3>6, <5>1
        <4>3. P(v)
          BY <1>3, <3>4, <3>6, <4>1, <4>2, WarmMore
        <4> QED BY <2>2, <4>3
      <3> QED BY <3>5, <3>6
    <2> QED BY <2>3, <2>4
  <1>7. P(s)
    BY <1>2, <1>3, <1>6
  <1>8. conf' = conf /\ out' = out
    BY DEF Prewarm
  <1>9. /\ conf' \in Confs /\ idle' \in Seq(Idles) /\ Len(idle') <= conf'.cap /\ IsFiniteSet(out')
        /\ Sound(os', conf', Holders(out', idle')) /\ LastOk(os', conf', last')
    BY <1>1, <1>3, <1>7, <1>8 DEF Warm
  <1> QED BY <1>9 DEF ArenaInv
-----------------------------------------------------------------------------
(* The invariant is inductive. *)
LEMMA ArenaStarts ==
  ASSUME ArenaInit
  PROVE  ArenaInv
  <1>1. /\ conf \in Confs /\ os = NewOs(conf.platform, conf.faults)
        /\ idle = <<>> /\ out = {} /\ last = "none"
    BY DEF ArenaInit
  <1>2. Holders(out, idle) = {}
    BY <1>1 DEF Holders
  <1>3. Used({}) = {}
    BY DEF Used
  <1>4. Holds(os, {}) /\ os.failed = {}
    <2>1. /\ OsRec(os) /\ os.maps = <<>> /\ os.lost = {} /\ os.failed = {}
      BY <1>1 DEF NewOs, OsRec
    <2>2. DOMAIN os.maps = {} /\ os.maps = [r \in DOMAIN os.maps |-> os.maps[r]]
      BY <2>1
    <2> QED BY <2>1, <2>2 DEF Holds, OsOk
  <1>5. Sound(os, conf, Holders(out, idle))
    BY <1>2, <1>3, <1>4 DEF Sound
  <1>6. LastOk(os, conf, "none")
    BY <1>4 DEF LastOk
  <1>7. idle \in Seq(Idles) /\ Len(idle) <= conf.cap /\ IsFiniteSet(out)
    BY <1>1, ConfFacts, FS_EmptySet
  <1> QED BY <1>1, <1>5, <1>6, <1>7 DEF ArenaInv

LEMMA ArenaStep ==
  ASSUME ArenaInv, [ArenaNext]_arenaVars
  PROVE  ArenaInv'
  <1>1. CASE UNCHANGED arenaVars
    BY <1>1 DEF ArenaInv, arenaVars, LastOk
  <1>2. CASE Checkout
    BY <1>2, CheckoutInv
  <1>3. CASE Open
    BY <1>3, OpenInv
  <1>4. CASE CInit
    BY <1>4, CInitInv
  <1>5. CASE Clear
    BY <1>5, ClearInv
  <1>6. CASE ReleaseIdle
    BY <1>6, ReleaseIdleInv
  <1>7. CASE \E n \in 0..2 : Prewarm(n)
    BY <1>7, PrewarmInv
  <1>8. ASSUME NEW a \in out, GiveBack(a) PROVE ArenaInv'
    BY <1>8, GiveBackInv
  <1>9. ASSUME NEW a \in out, DropArena(a) PROVE ArenaInv'
    BY <1>9, DropArenaInv
  <1>10. ASSUME NEW a \in out, Reset(a) PROVE ArenaInv'
    BY <1>10, ResetInv
  <1>11. ASSUME NEW a \in out, OpenScope(a) PROVE ArenaInv'
    BY <1>11, OpenScopeInv
  <1>12. ASSUME NEW a \in out, CloseScope(a) PROVE ArenaInv'
    BY <1>12, CloseScopeInv
  <1>13. ASSUME NEW a \in out, NEW mark \in {0} \cup {k.off + k.size : k \in a.blocks},
                RewindTo(a, mark)
         PROVE  ArenaInv'
    BY <1>13, RewindToInv
  <1>14. ASSUME NEW a \in out, NEW l \in Layout, NEW zeroed \in BOOLEAN, Allocate(a, l, zeroed)
         PROVE  ArenaInv'
    BY <1>14, AllocateInv
  <1>15. ASSUME NEW a \in out, NEW k \in a.blocks, Deallocate(a, k) PROVE ArenaInv'
    BY <1>15, DeallocateInv
  <1>16. ASSUME NEW a \in out, NEW k \in a.blocks, CFree(a, k) PROVE ArenaInv'
    BY <1>16, CFreeInv
  <1>17. ASSUME NEW a \in out, NEW k \in a.blocks, NEW l \in Layout, Resize(a, k, l) PROVE ArenaInv'
    BY <1>17, ResizeInv
  <1> HIDE DEF ArenaInv
  <1> QED BY <1>1, <1>2, <1>3, <1>4, <1>5, <1>6, <1>7, <1>8, <1>9, <1>10, <1>11, <1>12, <1>13,
             <1>14, <1>15, <1>16, <1>17 DEF ArenaNext

(* In every state every arena, held or idle, is in order on a backing of   *)
(* its own, and the failures of the last operation are explained.          *)
THEOREM ArenaInvariant == ArenaSpec => []ArenaInv
  <1>1. ArenaInit => ArenaInv
    BY ArenaStarts
  <1>2. ArenaInv /\ [ArenaNext]_arenaVars => ArenaInv'
    BY ArenaStep
  <1> QED BY <1>1, <1>2, PTL DEF ArenaSpec

-----------------------------------------------------------------------------
(* What follows for the blocks and the errors. *)
LEMMA UsableInv ==
  ASSUME ArenaInv
  PROVE  LiveMemoryUsable
  <1> SUFFICES ASSUME NEW a \in out, NEW k \in a.blocks
               PROVE  LET m == os.maps[a.b.region]
                      IN /\ a.b.region \in DOMAIN os.maps \ os.lost
                         /\ (Base(os, a.b) + k.off) % k.align = 0
                         /\ k.off + k.size <= a.cursor /\ a.cursor <= a.b.len
                         /\ \A i \in (a.b.base + k.off)..(a.b.base + k.off + k.size - 1) :
                              i < m.backed /\ i \notin m.guards
                         /\ \A i \in (a.b.base + k.off)..(a.b.base + k.off + k.known - 1) :
                              m.mem[i] = k.holds
    BY DEF LiveMemoryUsable
  <1> DEFINE m == os.maps[a.b.region]
             at == a.b.base
  <1>1. ArenaOk(os, conf, a) /\ <<0, a>> \in Holders(out, idle) /\ <<0, a>>[2] = a
    BY OutHolder
  <1>2. Sound(os, conf, Holders(out, idle))
    BY DEF ArenaInv
  <1>3. Holds(os, Used(Holders(out, idle))) /\ OsOk(os)
    BY <1>2 DEF Sound, Holds
  <1>4. a.b.region \in DOMAIN os.maps \ os.lost
    <2>1. a.b.region \in Own(a.b)
      BY <1>1, <1>2, OneOfUsed
    <2>2. a.b.region \in Used(Holders(out, idle))
      BY <1>1, <2>1 DEF Used
    <2> QED BY <1>3, <2>2 DEF Holds
  <1>5. /\ at \in Nat /\ a.cursor <= a.b.len /\ BlockOk(m, at, a.cursor, a.marks, k)
        /\ MapOk(m)
    BY <1>1, <1>3, ArenaFacts DEF ArenaOk, BlocksOk
  <1>6. Base(os, a.b) + k.off = m.addr + at + k.off
    BY DEF Base
  <1> HIDE DEF m, at
  <1>7. /\ k.off \in Nat /\ k.size \in Nat /\ k.off + k.size <= a.cursor
        /\ (m.addr + at + k.off) % k.align = 0 /\ at + k.off + k.size <= m.backed
        /\ \A i \in (at + k.off)..(at + k.off + k.size - 1) : i \notin m.guards
        /\ \A i \in (at + k.off)..(at + k.off + k.known - 1) : m.mem[i] = k.holds
    BY <1>5 DEF BlockOk, BytesOk
  <1>8. ASSUME NEW i \in (at + k.off)..(at + k.off + k.size - 1) PROVE i < m.backed
    <2>1. m.backed \in Nat /\ at \in Nat
      BY <1>5 DEF MapOk
    <2> QED BY <1>7, <2>1
  <1> QED BY <1>4, <1>5, <1>6, <1>7, <1>8 DEF m, at

(* Whatever the system calls do, and however scopes, rewinds, resets and   *)
(* the pool move the cursor, a block in use is aligned, below the cursor,  *)
(* on mapped and committed pages that are no guards, and holds its data.   *)
THEOREM ArenaBlocks == ArenaSpec => []LiveMemoryUsable
BY ArenaInvariant, UsableInv, PTL

LEMMA ExplainedInv ==
  ASSUME ArenaInv
  PROVE  FailureExplained /\ NoBadRelease
  <1>1. LastOk(os, conf, last)
    BY DEF ArenaInv
  <1>2. FailureExplained
    BY <1>1 DEF LastOk, Refused, FailureExplained
  <1>3. NoBadRelease
    BY <1>1 DEF LastOk, Calls, NoBadRelease
  <1> QED BY <1>2, <1>3

(* A constructor fails when one of its own calls did or for a request that *)
(* cannot be, and the slot then holds an error of its own.                 *)
THEOREM ArenaFailures == ArenaSpec => []FailureExplained
BY ArenaInvariant, ExplainedInv, PTL

(* release_idle asks for no page that was not committed. *)
THEOREM ArenaReleases == ArenaSpec => []NoBadRelease
BY ArenaInvariant, ExplainedInv, PTL

-----------------------------------------------------------------------------
(* The pool and the mappings. *)
Pairs(f, S) == f = [x \in S |-> f[x]] /\ \A x, y \in S : f[x] = f[y] => x = y

LEMMA SameSize ==
  ASSUME NEW S, IsFiniteSet(S), NEW f, Pairs(f, S)
  PROVE  IsFiniteSet({f[x] : x \in S}) /\ Cardinality({f[x] : x \in S}) = Cardinality(S)
  <1> DEFINE T == {f[x] : x \in S}
  <1>1. f \in [S -> T] /\ \A t \in T : \E s \in S : f[s] = t
    BY DEF Pairs
  <1>2. f \in Surjection(S, T)
    BY <1>1 DEF Surjection
  <1>3. f \in Injection(S, T)
    BY <1>1 DEF Injection, IsInjective, Pairs
  <1> HIDE DEF T
  <1>4. IsFiniteSet(T) /\ Cardinality(T) = Cardinality(S)
    BY <1>2, <1>3, FS_Surjection
  <1> QED BY <1>4 DEF T

LEMMA PoolCount ==
  ASSUME ArenaInv
  PROVE  Cardinality({a.b.region : a \in out \cup ToSet(idle)}) = Cardinality(out) + Len(idle)
  <1> DEFINE H == Holders(out, idle)
             n == Len(idle)
             f == [a \in out |-> a.b.region]
             g == [i \in 1..n |-> idle[i].b.region]
             F == {f[a] : a \in out}
             G == {g[i] : i \in 1..n}
  <1>1. Sound(os, conf, H) /\ n \in Nat /\ IsFiniteSet(out) /\ idle \in Seq(Idles)
    BY IdleLen DEF ArenaInv
  <1>2. \A h, e \in H : h # e => h[2].b.region # e[2].b.region
    <2>1. \A h \in H : h[2].b.region \in Own(h[2].b)
      <3> HIDE DEF H
      <3> QED BY <1>1, OneOfUsed
    <2>2. \A h, e \in H : h # e => Own(h[2].b) \cap Own(e[2].b) = {}
      BY <1>1 DEF Sound
    <2> HIDE DEF H
    <2> QED BY <2>1, <2>2
  <1>3. /\ \A a \in out : <<0, a>> \in H /\ <<0, a>>[2] = a
        /\ \A i \in 1..n : <<i, idle[i]>> \in H /\ <<i, idle[i]>>[2] = idle[i]
    BY DEF Holders
  <1> HIDE DEF H, n
  <1>4. Pairs(f, out)
    <2>1. ASSUME NEW a \in out, NEW b \in out, a.b.region = b.b.region PROVE a = b
      <3> DEFINE h == <<0, a>>
                 e == <<0, b>>
      <3>1. h \in H /\ e \in H /\ h[2] = a /\ e[2] = b
        BY <1>3
      <3> HIDE DEF h, e
      <3>2. h[2].b.region = e[2].b.region
        BY <2>1, <3>1
      <3>3. h = e
        BY <1>2, <3>1, <3>2
      <3> QED BY <3>1, <3>3
    <2> QED BY <2>1 DEF Pairs
  <1>5. Pairs(g, 1..n)
    <2>1. ASSUME NEW i \in 1..n, NEW j \in 1..n, idle[i].b.region = idle[j].b.region PROVE i = j
      <3> DEFINE h == <<i, idle[i]>>
                 e == <<j, idle[j]>>
      <3>1. h \in H /\ e \in H /\ h[2] = idle[i] /\ e[2] = idle[j]
        BY <1>3
      <3>2. h[1] = i /\ e[1] = j
        OBVIOUS
      <3> HIDE DEF h, e
      <3>3. h[2].b.region = e[2].b.region
        BY <2>1, <3>1
      <3>4. h = e
        BY <1>2, <3>1, <3>3
      <3> QED BY <3>2, <3>4
    <2> QED BY <2>1 DEF Pairs
  <1>6. F \cap G = {}
    <2>1. ASSUME NEW a \in out, NEW i \in 1..n, a.b.region = idle[i].b.region PROVE FALSE
      <3> DEFINE h == <<0, a>>
                 e == <<i, idle[i]>>
      <3>1. h \in H /\ e \in H /\ h[2] = a /\ e[2] = idle[i]
        BY <1>3
      <3>2. h[1] = 0 /\ e[1] = i
        OBVIOUS
      <3> HIDE DEF h, e
      <3>3. h[2].b.region = e[2].b.region
        BY <2>1, <3>1
      <3>4. h = e
        BY <1>2, <3>1, <3>3
      <3> QED BY <3>2, <3>4
    <2> QED BY <2>1
  <1>7. {a.b.region : a \in out \cup ToSet(idle)} = F \cup G
    <2>1. ToSet(idle) = {idle[i] : i \in 1..n}
      BY <1>1 DEF ToSet, n
    <2> QED BY <2>1
  <1> HIDE DEF f, g
  <1>8. IsFiniteSet(F) /\ Cardinality(F) = Cardinality(out)
    BY <1>1, <1>4, SameSize
  <1>9. IsFiniteSet(G) /\ Cardinality(G) = n
    <2>1. IsFiniteSet(1..n) /\ Cardinality(1..n) = n
      BY <1>1, FS_Interval
    <2>2. IsFiniteSet(G) /\ Cardinality(G) = Cardinality(1..n)
      BY <1>5, <2>1, SameSize
    <2> QED BY <2>1, <2>2
  <1> HIDE DEF F, G
  <1>10. Cardinality(F \cup G) = Cardinality(F) + Cardinality(G) - Cardinality(F \cap G)
    BY <1>8, <1>9, FS_Union
  <1>11. Cardinality(F \cap G) = 0
    BY <1>6, FS_EmptySet
  <1>12. Cardinality(F) \in Nat
    BY <1>8, FS_CardinalityType
  <1>13. Cardinality(F \cup G) = Cardinality(F) + n
    <2>1. n \in Nat
      BY <1>1
    <2> QED BY <2>1, <1>9, <1>10, <1>11, <1>12
  <1>14. Cardinality({a.b.region : a \in out \cup ToSet(idle)}) = Cardinality(F \cup G)
    BY <1>7 DEF F, G
  <1> QED BY <1>8, <1>13, <1>14 DEF n

LEMMA PoolExactInv ==
  ASSUME ArenaInv
  PROVE  PoolExact
  <1> DEFINE H == Holders(out, idle)
             all == out \cup ToSet(idle)
             R == Regions(all)
  <1>1. Sound(os, conf, H) /\ idle \in Seq(Idles) /\ Len(idle) <= conf.cap /\ conf \in Confs
        /\ Len(idle) \in Nat
    BY IdleLen DEF ArenaInv
  <1>2. Holds(os, Used(H)) /\ OsOk(os) /\ DOMAIN os.maps = Used(H) \cup os.lost
        /\ Used(H) \cap os.lost = {} /\ 0 \notin os.lost
    <2>1. Holds(os, Used(H))
      BY <1>1 DEF Sound
    <2>2. OsOk(os) /\ DOMAIN os.maps = Used(H) \cup os.lost /\ Used(H) \cap os.lost = {}
      BY <2>1 DEF Holds
    <2>3. 0 \notin 1..MaxRegions
      BY ArenaConstants
    <2> QED BY <2>1, <2>2, <2>3 DEF OsOk
  <1>3. ToSet(idle) = {idle[i] : i \in 1..Len(idle)}
    BY <1>1 DEF ToSet
  <1>4. all = {h[2] : h \in H}
    <2>1. ASSUME NEW a \in all PROVE \E h \in H : h[2] = a
      <3>1. CASE a \in out
        <4>1. <<0, a>> \in H /\ <<0, a>>[2] = a
          BY <3>1 DEF Holders
        <4> QED BY <4>1
      <3>2. CASE a \in ToSet(idle)
        <4>1. PICK i \in 1..Len(idle) : a = idle[i]
          BY <1>3, <3>2
        <4>2. <<i, idle[i]>> \in H /\ <<i, idle[i]>>[2] = a
          BY <4>1 DEF Holders
        <4> QED BY <4>2
      <3> QED BY <2>1, <3>1, <3>2
    <2>2. ASSUME NEW h \in H PROVE h[2] \in all
      BY <1>3, <2>2 DEF Holders
    <2> HIDE DEF H, all
    <2> QED BY <2>1, <2>2
  <1>5. Used(H) = R \ {0}
    <2>1. Used(H) = UNION {Own(a.b) : a \in all}
      BY <1>4 DEF Used
    <2> HIDE DEF all
    <2> QED BY <2>1 DEF Regions, Own
  <1>6. \A a \in ToSet(idle) : a.cursor = 0 /\ a.marks = <<>> /\ a.blocks = {}
    <2>1. ASSUME NEW i \in 1..Len(idle)
          PROVE  idle[i].cursor = 0 /\ idle[i].marks = <<>> /\ idle[i].blocks = {}
      <3>1. idle \in Seq(Idles)
        BY <1>1
      <3> QED BY <3>1, IdlePlace
    <2> QED BY <1>3, <2>1
  <1>7. Cardinality({a.b.region : a \in all}) = Cardinality(out) + Len(idle)
    BY PoolCount
  <1> HIDE DEF H
  <1>8. ASSUME NEW a \in all
        PROVE  LET m == os.maps[a.b.region]
               IN /\ m.locked = (Bottom(a.b) = "locked")
                  /\ a.b.committed = m.backed
                  /\ (m.guards # {}) = Contains(a.b.layers, "guard")
                  /\ \A i \in 0..(m.len - 1) :
                       i \in m.guards <=> i \notin a.b.base..(a.b.base + a.b.len - 1)
    <2> DEFINE m == os.maps[a.b.region]
               k == Len(conf.layers)
    <2>1. BackingOk(os, conf, k, a.b)
      <3>1. PICK h \in H : h[2] = a
        BY <1>4
      <3> QED BY <1>1, <3>1 DEF Sound, ArenaOk
    <2>2. RegionOk(os, conf, Guarded(conf, k), a.b, m) /\ MapOk(m)
      BY <1>2, <2>1 DEF BackingOk, OsOk
    <2>3. /\ Contains(a.b.layers, "guard") <=> Guarded(conf, k)
          /\ Bottom(a.b) = conf.layers[1]
      BY <1>1, <2>1, GuardLayer
    <2> HIDE DEF m, k
    <2>4. m.locked = (Bottom(a.b) = "locked") /\ a.b.committed = m.backed
      BY <2>2, <2>3 DEF RegionOk
    <2>5. CASE Guarded(conf, k)
      <3>1. m.guards # {} /\ \A i \in 0..(m.len - 1) :
              i \in m.guards <=> i \notin a.b.base..(a.b.base + a.b.len - 1)
        BY <2>2, <2>5 DEF RegionOk
      <3>2. (m.guards # {}) = Contains(a.b.layers, "guard")
        BY <2>3, <2>5, <3>1 DEF Contains
      <3> QED BY <2>4, <3>1, <3>2 DEF m
    <2>6. CASE ~Guarded(conf, k)
      <3>1. m.guards = {} /\ a.b.base = 0 /\ a.b.len = m.len
        BY <2>2, <2>6 DEF RegionOk
      <3>2. (m.guards # {}) = Contains(a.b.layers, "guard")
        BY <2>3, <2>6, <3>1 DEF Contains
      <3>3. \A i \in 0..(m.len - 1) : i \in a.b.base..(a.b.base + a.b.len - 1)
        <4>1. m.len \in Nat
          BY <2>2 DEF MapOk
        <4>2. a.b.base + a.b.len - 1 = m.len - 1
          BY <3>1, <4>1
        <4> QED BY <3>1, <4>2
      <3> QED BY <2>4, <3>1, <3>2, <3>3 DEF m
    <2> QED BY <2>5, <2>6
  <1> HIDE DEF R, all
  <1>9. DOMAIN os.maps = (R \cup os.lost) \ {0} /\ R \cap os.lost = {}
    BY <1>2, <1>5
  <1> QED BY <1>1, <1>6, <1>7, <1>8, <1>9 DEF PoolExact, R, all

(* The pool keeps at most cap arenas, each as good as new; no two arenas   *)
(* share a region; and what is mapped is what the arenas own and what the  *)
(* system refused to unmap.                                                *)
THEOREM ArenaPoolExact == ArenaSpec => []PoolExact
BY ArenaInvariant, PoolExactInv, PTL
=============================================================================
