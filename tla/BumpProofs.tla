------------------------------ MODULE BumpProofs ------------------------------
(***************************************************************************)
(* Proofs about the allocators that move a cursor.  SharedBump, for any    *)
(* number of threads, any capacity, any address and any layouts: racing    *)
(* compare-exchanges never hand out overlapping or misplaced blocks, and a *)
(* stale cursor never causes an error.  Router, for any build, any sizes,  *)
(* any number of calls, blocks and overwritten links: blocks of two stacks *)
(* and of the size classes keep their contents, find their way home by     *)
(* address, and nothing is lost but what the code gives up.                *)
(***************************************************************************)
EXTENDS SharedBump, Router, FiniteSetTheorems, SequenceTheorems, WellFoundedInduction, TLAPS

-----------------------------------------------------------------------------
(* Rounding an address up. *)

LEMMA DivProps ==
  ASSUME NEW a \in Nat, NEW k \in Nat \ {0}
  PROVE  /\ a \div k \in Nat
         /\ (a \div k) * k <= a
         /\ a < (a \div k) * k + k
OBVIOUS

LEMMA MultipleMod ==
  ASSUME NEW q \in Nat, NEW k \in Nat \ {0}
  PROVE  (q * k) % k = 0
OBVIOUS

LEMMA MultipleGap ==
  ASSUME NEW p \in Nat, NEW q \in Nat, NEW k \in Nat \ {0}, p > q
  PROVE  p * k >= q * k + k
OBVIOUS

LEMMA AlignUpProps ==
  ASSUME NEW a \in Nat, NEW k \in Nat \ {0}
  PROVE  /\ AlignUp(a, k) \in Nat
         /\ AlignUp(a, k) >= a
         /\ AlignUp(a, k) % k = 0
  <1> DEFINE q == (a + k - 1) \div k
  <1>1. q \in Nat /\ a + k - 1 < q * k + k
    BY DivProps, a + k - 1 \in Nat
  <1> HIDE DEF q
  <1>2. q * k \in Nat /\ q * k >= a
    BY <1>1
  <1>3. (q * k) % k = 0
    BY <1>1, MultipleMod
  <1> QED BY <1>2, <1>3 DEF AlignUp, q

LEMMA AlignUpMonotone ==
  ASSUME NEW a \in Nat, NEW b \in Nat, NEW k \in Nat \ {0}, a <= b
  PROVE  AlignUp(a, k) <= AlignUp(b, k)
  <1> DEFINE p == (a + k - 1) \div k
             q == (b + k - 1) \div k
  <1>1. p \in Nat /\ p * k <= a + k - 1
    BY DivProps, a + k - 1 \in Nat
  <1>2. q \in Nat /\ b + k - 1 < q * k + k
    BY DivProps, b + k - 1 \in Nat
  <1> HIDE DEF p, q
  <1>3. p * k \in Nat /\ q * k \in Nat
    BY <1>1, <1>2
  <1>4. p * k <= q * k
    <2>1. ASSUME p > q PROVE FALSE
      BY <1>1, <1>2, <1>3, <2>1, MultipleGap
    <2>2. CASE p = q
      BY <1>3, <2>2
    <2>3. CASE p < q
      BY <1>1, <1>2, <1>3, <2>3, MultipleGap
    <2> QED BY <1>1, <1>2, <2>1, <2>2, <2>3
  <1> QED BY <1>4 DEF AlignUp, p, q

LEMMA LayoutProps ==
  ASSUME NEW l \in Layout
  PROVE  l.align \in Nat \ {0} /\ l.size \in Nat \ {0}
  <1>1. l.align \in Aligns /\ l.size \in Sizes
    BY DEF Layout
  <1> QED BY <1>1, BumpOpsAssumption

(* Where the block of a layout goes. *)
LEMMA PlacementOf ==
  ASSUME NEW b \in Nat, NEW c \in Nat, NEW l, l.align \in Nat \ {0}, l.size \in Nat \ {0}
  PROVE  /\ AlignedOff(b, c, l) \in Nat
         /\ AlignedOff(b, c, l) >= c
         /\ (b + AlignedOff(b, c, l)) % l.align = 0
         /\ EndOff(b, c, l) \in Nat
         /\ EndOff(b, c, l) = AlignedOff(b, c, l) + l.size
         /\ EndOff(b, c, l) > c
  <1>1. l.align \in Nat \ {0} /\ l.size \in Nat \ {0} /\ b + c \in Nat
    OBVIOUS
  <1> DEFINE a == AlignUp(b + c, l.align)
  <1>2. a \in Nat /\ a >= b + c /\ a % l.align = 0
    BY <1>1, AlignUpProps
  <1>3. AlignedOff(b, c, l) = a - b
    BY DEF AlignedOff
  <1> HIDE DEF a
  <1>4. b + (a - b) = a
    BY <1>2
  <1>5. AlignedOff(b, c, l) \in Nat /\ AlignedOff(b, c, l) >= c
    BY <1>2, <1>3
  <1>6. (b + AlignedOff(b, c, l)) % l.align = 0
    BY <1>2, <1>3, <1>4
  <1>7. EndOff(b, c, l) = AlignedOff(b, c, l) + l.size
    BY DEF EndOff
  <1>8. EndOff(b, c, l) \in Nat /\ EndOff(b, c, l) > c
    BY <1>1, <1>5, <1>7
  <1> QED BY <1>5, <1>6, <1>7, <1>8

LEMMA PlacementProps ==
  ASSUME NEW b \in Nat, NEW c \in Nat, NEW l \in Layout
  PROVE  /\ AlignedOff(b, c, l) \in Nat
         /\ AlignedOff(b, c, l) >= c
         /\ (b + AlignedOff(b, c, l)) % l.align = 0
         /\ EndOff(b, c, l) \in Nat
         /\ EndOff(b, c, l) = AlignedOff(b, c, l) + l.size
         /\ EndOff(b, c, l) > c
BY LayoutProps, PlacementOf

(* A layout that does not fit behind a cursor does not fit further on. *)
LEMMA FitsMonotone ==
  ASSUME NEW b \in Nat, NEW c \in Nat, NEW d \in Nat, c <= d, NEW l \in Layout,
         Fits(b, Capacity, d, l)
  PROVE  Fits(b, Capacity, c, l)
  <1>1. l.align \in Nat \ {0} /\ l.size \in Nat \ {0} /\ b + c \in Nat /\ b + d \in Nat
    BY LayoutProps
  <1>2. AlignUp(b + c, l.align) <= AlignUp(b + d, l.align)
    BY <1>1, AlignUpMonotone
  <1>3. /\ AlignUp(b + c, l.align) \in Nat /\ AlignUp(b + d, l.align) \in Nat
    BY <1>1, AlignUpProps
  <1>4. EndOff(b, c, l) \in Nat /\ EndOff(b, d, l) \in Nat /\ EndOff(b, c, l) <= EndOff(b, d, l)
    <2>1. EndOff(b, c, l) \in Nat /\ EndOff(b, d, l) \in Nat
      BY PlacementProps
    <2>2. /\ EndOff(b, c, l) = AlignUp(b + c, l.align) - b + l.size
          /\ EndOff(b, d, l) = AlignUp(b + d, l.align) - b + l.size
      BY DEF EndOff, AlignedOff
    <2> QED BY <1>1, <1>2, <1>3, <2>1, <2>2
  <1> QED BY <1>1, <1>4, BumpOpsAssumption, SharedBumpAssumption DEF Fits

LEMMA SeqElement ==
  ASSUME NEW S, NEW s \in Seq(S), NEW i \in DOMAIN s
  PROVE  s[i] \in S
OBVIOUS

-----------------------------------------------------------------------------
(* The inductive invariant: no value of the cursor is above the present    *)
(* one, and the blocks lie in the order of the exchanges.                  *)
Ordered ==
  /\ cursor \in stored
  /\ \A v \in stored : v <= cursor
  /\ \A i, j \in DOMAIN blocks : i < j => End(blocks[i]) <= blocks[j].off

IndInv == TypeOK /\ Ordered /\ WellPlaced

LEMMA InitInv == Init => IndInv
  <1> SUFFICES ASSUME Init PROVE IndInv
    OBVIOUS
  <1>1. blocks \in Seq([off : 0 .. Capacity, layout : Layout]) /\ DOMAIN blocks = {}
    BY DEF Init
  <1>2. TypeOK
    BY <1>1, SharedBumpAssumption DEF Init, TypeOK
  <1>3. Ordered /\ WellPlaced
    BY <1>1, SharedBumpAssumption DEF Init, Ordered, WellPlaced
  <1> QED BY <1>2, <1>3 DEF IndInv

(* The winner of an exchange gets a block behind every earlier one. *)
LEMMA CasSucceedsInv ==
  ASSUME IndInv, NEW t \in Threads, CasSucceeds(t)
  PROVE  IndInv'
  <1> DEFINE l == layout[t]
             c == cur[t]
             b == [off |-> AlignedOff(base, c, l), layout |-> l]
             e == EndOff(base, c, l)
  <1>0. TypeOK /\ Ordered /\ WellPlaced
    BY DEF IndInv
  <1>1. /\ base \in Nat /\ c \in Nat /\ c = cursor /\ l \in Layout
        /\ e <= Capacity /\ cursor' = e
        /\ stored' = stored \cup {e}
        /\ cur' = [cur EXCEPT ![t] = e]
        /\ blocks' = Append(blocks, b)
        /\ layout' = [layout EXCEPT ![t] = NoCall]
        /\ base' = base
    BY <1>0, SharedBumpAssumption DEF CasSucceeds, TypeOK, Room, Fits, Expected
  <1>2. /\ e \in Nat /\ e > c /\ AlignedOff(base, c, l) \in Nat
        /\ AlignedOff(base, c, l) >= c
        /\ e = AlignedOff(base, c, l) + l.size
        /\ (base + AlignedOff(base, c, l)) % l.align = 0
    BY <1>1, PlacementProps
  <1>3. l.size \in Nat \ {0}
    BY <1>1, BumpOpsAssumption DEF Layout
  <1>4. e \in 0 .. Capacity /\ AlignedOff(base, c, l) \in 0 .. Capacity
    BY <1>1, <1>2, <1>3, SharedBumpAssumption
  <1>5. b \in [off : 0 .. Capacity, layout : Layout] /\ End(b) = e /\ b.off >= cursor
        /\ (base + b.off) % b.layout.align = 0
    BY <1>1, <1>2, <1>4 DEF End
  <1>6. /\ blocks \in Seq([off : 0 .. Capacity, layout : Layout])
        /\ cursor \in Nat
    BY <1>0, SharedBumpAssumption DEF TypeOK
  <1> HIDE DEF b, e, l, c
  <1>7. /\ blocks' \in Seq([off : 0 .. Capacity, layout : Layout])
        /\ DOMAIN blocks' = 1 .. (Len(blocks) + 1)
        /\ Len(blocks) \in Nat
        /\ DOMAIN blocks = 1 .. Len(blocks)
        /\ \A i \in DOMAIN blocks : blocks'[i] = blocks[i]
        /\ blocks'[Len(blocks) + 1] = b
    BY <1>1, <1>5, <1>6
  <1>8. TypeOK'
    BY <1>0, <1>1, <1>4, <1>7 DEF TypeOK
  <1>9. \A i \in DOMAIN blocks : End(blocks[i]) <= cursor /\ End(blocks[i]) \in Nat
    <2> TAKE i \in DOMAIN blocks
    <2>1. blocks[i] \in [off : 0 .. Capacity, layout : Layout]
      BY <1>6, SeqElement
    <2>2. blocks[i].off \in Nat /\ blocks[i].layout.size \in Nat
      BY <2>1, LayoutProps
    <2> QED BY <1>0, <2>2 DEF WellPlaced, End
  <1>10. Ordered'
    <2>1. cursor' \in stored' /\ \A v \in stored' : v <= cursor'
      BY <1>0, <1>1, <1>2, <1>6, SharedBumpAssumption DEF Ordered, TypeOK
    <2>2. ASSUME NEW i \in DOMAIN blocks', NEW j \in DOMAIN blocks', i < j
          PROVE  End(blocks'[i]) <= blocks'[j].off
      <3>1. i \in DOMAIN blocks
        BY <1>7, <2>2
      <3>2. CASE j \in DOMAIN blocks
        BY <1>0, <1>7, <2>2, <3>1, <3>2 DEF Ordered
      <3>3. CASE j = Len(blocks) + 1
        <4>1. blocks'[j].off >= cursor /\ blocks'[j].off \in Nat
          BY <1>5, <1>7, <3>3
        <4> QED BY <1>6, <1>7, <1>9, <3>1, <4>1
      <3> QED BY <1>7, <3>2, <3>3
    <2> QED BY <2>1, <2>2 DEF Ordered, End
  <1>11. WellPlaced'
    <2>1. cursor' <= Capacity
      BY <1>1
    <2>2. ASSUME NEW i \in DOMAIN blocks'
          PROVE  End(blocks'[i]) <= cursor'
                 /\ (base' + blocks'[i].off) % blocks'[i].layout.align = 0
      <3>1. CASE i \in DOMAIN blocks
        BY <1>0, <1>1, <1>2, <1>6, <1>7, <1>9, <3>1 DEF WellPlaced
      <3>2. CASE i = Len(blocks) + 1
        BY <1>1, <1>2, <1>5, <1>7, <3>2
      <3> QED BY <1>7, <3>1, <3>2
    <2> QED BY <2>1, <2>2 DEF WellPlaced, End
  <1> QED BY <1>8, <1>10, <1>11 DEF IndInv

(* The other steps of a thread touch only its locals. *)
LEMMA LocalStepInv ==
  ASSUME IndInv, UNCHANGED <<base, cursor, stored, blocks>>,
         cur' \in [Threads -> stored], layout' \in [Threads -> Layout \cup {NoCall}]
  PROVE  IndInv'
BY DEF IndInv, TypeOK, Ordered, WellPlaced, End

LEMMA NextInv == IndInv /\ [Next]_vars => IndInv'
  <1> SUFFICES ASSUME IndInv, [Next]_vars PROVE IndInv'
    OBVIOUS
  <1>0. cur \in [Threads -> stored] /\ layout \in [Threads -> Layout \cup {NoCall}]
    BY DEF IndInv, TypeOK
  <1>1. ASSUME NEW t \in Threads, NEW l \in Layout, Load(t, l) PROVE IndInv'
    BY <1>0, <1>1, LocalStepInv DEF Load
  <1>2. ASSUME NEW t \in Threads, Refuse(t) PROVE IndInv'
    BY <1>0, <1>2, LocalStepInv DEF Refuse
  <1>3. ASSUME NEW t \in Threads, CasSucceeds(t) PROVE IndInv'
    BY <1>3, CasSucceedsInv
  <1>4. ASSUME NEW t \in Threads, CasFails(t) PROVE IndInv'
    BY <1>0, <1>4, LocalStepInv DEF CasFails
  <1>5. CASE UNCHANGED vars
    BY <1>0, <1>5, LocalStepInv DEF vars
  <1> QED BY <1>1, <1>2, <1>3, <1>4, <1>5 DEF Next

(* The inductive invariant holds in every reachable state of the arena. *)
THEOREM Invariance == Spec => []IndInv
BY InitInv, NextInv, PTL DEF Spec

(* The cursor stays in the region, and what threads read was once stored. *)
THEOREM TypeCorrect == Spec => []TypeOK
  <1>1. IndInv => TypeOK
    BY DEF IndInv
  <1> QED BY <1>1, Invariance, PTL

(* Racing threads never get overlapping blocks. *)
THEOREM BlocksAreDisjoint == Spec => []Disjoint
  <1>1. IndInv => Disjoint
    <2> SUFFICES ASSUME IndInv, NEW i \in DOMAIN blocks, NEW j \in DOMAIN blocks, i # j
                 PROVE  End(blocks[i]) <= blocks[j].off \/ End(blocks[j]) <= blocks[i].off
      BY DEF Disjoint
    <2>1. i \in Nat /\ j \in Nat
      BY DEF IndInv, TypeOK
    <2> QED BY <2>1 DEF IndInv, Ordered
  <1> QED BY <1>1, Invariance, PTL

(* Every block is inside the region, below the cursor, and aligned. *)
THEOREM BlocksAreWellPlaced == Spec => []WellPlaced
  <1>1. IndInv => WellPlaced
    BY DEF IndInv
  <1> QED BY <1>1, Invariance, PTL

(* No interleaving moves the cursor back. *)
THEOREM CursorOnlyAdvances == Spec => CursorAdvances
  <1>1. IndInv /\ [Next]_vars => [cursor' >= cursor]_cursor
    <2> SUFFICES ASSUME IndInv, [Next]_vars, cursor' # cursor PROVE cursor' >= cursor
      OBVIOUS
    <2>1. PICK t \in Threads : CasSucceeds(t)
      BY DEF Next, vars, Load, Refuse, CasFails
    <2>2. /\ layout[t] \in Layout /\ base \in Nat /\ cur[t] \in Nat
          /\ cur[t] = cursor /\ cursor' = EndOff(base, cur[t], layout[t])
      BY <2>1, SharedBumpAssumption DEF CasSucceeds, Expected, IndInv, TypeOK
    <2> QED BY <2>2, PlacementProps
  <1> QED BY <1>1, Invariance, PTL DEF Spec, CursorAdvances

(* A refusal made from an old cursor would be made from the present one. *)
THEOREM RefusalsAreFinal == Spec => RefusalIsFinal
  <1>1. IndInv => \A t \in Threads : Refuse(t) => ~Fits(base, Capacity, cursor, layout[t])
    <2> SUFFICES ASSUME IndInv, NEW t \in Threads, Refuse(t)
                 PROVE  ~Fits(base, Capacity, cursor, layout[t])
      OBVIOUS
    <2>1. /\ layout[t] \in Layout /\ base \in Nat /\ cur[t] \in Nat /\ cursor \in Nat
          /\ cur[t] <= cursor
      <3>1. base \in Bases /\ cursor \in 0 .. Capacity /\ stored \subseteq 0 .. Capacity
            /\ cur[t] \in stored /\ layout[t] \in Layout \cup {NoCall}
        BY DEF IndInv, TypeOK
      <3>2. layout[t] \in Layout
        BY <3>1 DEF Refuse
      <3>3. cur[t] <= cursor
        BY <3>1 DEF IndInv, Ordered
      <3>4. base \in Nat /\ Capacity \in Nat
        BY <3>1, SharedBumpAssumption
      <3>5. cursor \in 0 .. Capacity /\ cur[t] \in 0 .. Capacity
        BY <3>1, Zenon
      <3> QED BY <3>2, <3>3, <3>4, <3>5, \A n \in 0 .. Capacity : n \in Nat
    <2>2. ~Fits(base, Capacity, cur[t], layout[t])
      BY DEF Refuse, Room
    <2> QED BY <2>1, <2>2, FitsMonotone
  <1> QED BY <1>1, Invariance, PTL DEF Spec, RefusalIsFinal

-----------------------------------------------------------------------------
(* Arithmetic the router's proofs need. *)

LEMMA LeastNat ==
  ASSUME NEW S \in SUBSET Nat, S # {}
  PROVE  \E x \in S : \A y \in S : x <= y
  <1> DEFINE R == OpToRel(<, Nat)
  <1>1. PICK x \in S : \A y \in S : ~(<<y, x>> \in R)
    BY NatLessThanWellFounded, WFMin
  <1>2. \A y \in Nat : y < x => <<y, x>> \in R
    BY DEF OpToRel
  <1> HIDE DEF R
  <1>3. ASSUME NEW y \in S PROVE ~(y < x)
    BY <1>1, <1>2
  <1>4. \A y \in S : x <= y
    BY <1>3
  <1> QED BY <1>4

LEMMA TimesNat ==
  ASSUME NEW a \in Nat, NEW b \in Nat
  PROVE  a * b \in Nat
OBVIOUS

LEMMA TimesMonotone ==
  ASSUME NEW a \in Nat, NEW b \in Nat, NEW n \in Nat, a <= b
  PROVE  a * n <= b * n
OBVIOUS

LEMMA TimesSucc ==
  ASSUME NEW a \in Nat, NEW n \in Nat
  PROVE  (a + 1) * n = a * n + n
OBVIOUS

LEMMA DivUnique ==
  ASSUME NEW a \in Nat, NEW q \in Nat, NEW r \in Nat, NEW n \in Nat,
         n > 0, r < n, a = q * n + r
  PROVE  a \div n = q /\ a % n = r
  <1> DEFINE k == a \div n
             m == a % n
  <1>1. k \in Nat /\ m \in Nat /\ m < n /\ a = k * n + m
    OBVIOUS
  <1> HIDE DEF k, m
  <1>2. ~(k < q)
    <2> SUFFICES ASSUME k < q PROVE FALSE
      OBVIOUS
    <2>1. (k + 1) * n <= q * n
      BY <1>1, TimesMonotone
    <2>2. (k + 1) * n = k * n + n
      BY <1>1, TimesSucc
    <2>3. k * n \in Nat /\ q * n \in Nat
      BY <1>1, TimesNat
    <2> QED BY <1>1, <2>1, <2>2, <2>3
  <1>3. ~(q < k)
    <2> SUFFICES ASSUME q < k PROVE FALSE
      OBVIOUS
    <2>1. (q + 1) * n <= k * n
      BY <1>1, TimesMonotone
    <2>2. (q + 1) * n = q * n + n
      BY <1>1, TimesSucc
    <2>3. k * n \in Nat /\ q * n \in Nat
      BY <1>1, TimesNat
    <2> QED BY <1>1, <2>1, <2>2, <2>3
  <1>4. k = q
    BY <1>1, <1>2, <1>3
  <1>5. k * n \in Nat
    BY <1>1, TimesNat
  <1>6. m = r
    BY <1>1, <1>4, <1>5
  <1> QED BY <1>4, <1>6 DEF k, m

-----------------------------------------------------------------------------
(* Router: stacks, places, blocks and lists. *)

(* The cursor before frame k, and after the last one: the frames of a      *)
(* stack lie between these bounds, each between two that follow.           *)
Bound(st, k) == IF k = Len(st.frames) + 1 THEN st.cursor ELSE st.frames[k].prev

Frame == [off : Nat, prev : Nat]

Stack == [cursor : Nat, frames : Seq(Frame)]

StackOk(st, cap) ==
  /\ st \in Stack /\ st.cursor <= cap /\ Bound(st, 1) = 0
  /\ \A k \in 1..Len(st.frames) : /\ st.frames[k].prev <= st.frames[k].off
                                  /\ st.frames[k].off < Bound(st, k + 1)
  /\ \A j, k \in 1..(Len(st.frames) + 1) : j <= k => Bound(st, j) <= Bound(st, k)

(* len cells at an address fill frame k of a stack from its start on. *)
InFrame(st, at, k, ptr, len) ==
  ptr = at + st.frames[k].off /\ st.frames[k].off + len <= Bound(st, k + 1)

OfHome(L, home) == {x \in L : x.home = home}

OfClass(L, i) == {x \in L : x.home = "class" /\ x.class = i}

(* What is known of a block whoever serves it: zero-sized blocks dangle. *)
BlockOk(x) ==
  /\ x.size \in Nat /\ x.known \in Nat /\ x.known <= x.size /\ x.align \in Aligns
  /\ x.home \in {"primary", "backing", "class", "dangling"}
  /\ x.size = 0 <=> x.home = "dangling"
  /\ x.size > 0 => x.ptr \in Nat /\ x.ptr % x.align = 0
  /\ x.home = "backing" => x.class = 0

BlocksOk(L) ==
  /\ IsFiniteSet(L) /\ \A x \in L : BlockOk(x)
  /\ \A x, y \in L : x.size > 0 /\ y.size > 0 /\ x.ptr = y.ptr => x = y

(* The blocks of a stack, which begin at frame first: each has a frame, and*)
(* the frames are these and others.                                        *)
StackBlocks(st, at, first, X, others) ==
  /\ Len(st.frames) = Cardinality(X) + others
  /\ \A x \in X : \E k \in first..Len(st.frames) : InFrame(st, at, k, x.ptr, x.size)

Class == [off : Nat, stride : Nat \ {0}, slots : Nat \ {0}, head : Nat, next : Nat, events : Nat]

(* The class regions are the first frames of the backing. *)
Regions(B, b, c) ==
  /\ c \in Seq(Class) /\ Len(c) <= Len(b.frames)
  /\ \A i \in 1..Len(c) :
       /\ c[i].slots = B.slots /\ IsPowerOfTwo(c[i].stride)
       /\ c[i].off = b.frames[i].off
       /\ c[i].off + c[i].slots * c[i].stride <= Bound(b, i + 1)
       /\ (B.sbase + c[i].off) % c[i].stride = 0

(* The free list of a class, as the links lead: slots fl[hi], ..., fl[lo]. *)
(* The last link ends the list or has been overwritten.                    *)
ListOk(at, cl, m, fl, lo, hi, strays) ==
  /\ lo \in Nat \ {0} /\ hi \in Nat /\ lo <= hi + 1 /\ cl.next <= cl.slots
  /\ \A k \in lo..hi : fl[k] \in 0..(cl.next - 1)
  /\ \A j, k \in lo..hi : fl[j] = fl[k] => j = k
  /\ cl.head = IF lo <= hi THEN fl[hi] + 1 ELSE 0
  /\ \A k \in lo..hi : k > lo => m[SlotAddr(at, cl, fl[k])] = LinkTo(fl[k - 1] + 1)
  /\ lo <= hi => m[SlotAddr(at, cl, fl[lo])] \in {LinkTo(0), LinkTo(cl.slots + 1)}
  /\ cl.events <= strays
  /\ lo <= hi /\ m[SlotAddr(at, cl, fl[lo])] # LinkTo(0) => cl.events < strays

(* The blocks of a class are in slots of their own, none of them listed;   *)
(* while no link was overwritten, all carved slots are in use or listed.   *)
SlotsOk(at, cl, X, fl, lo, hi, strays) ==
  /\ \A x \in X : /\ x.size <= cl.stride
                  /\ \E q \in 0..(cl.next - 1) :
                       x.ptr = SlotAddr(at, cl, q) /\ \A k \in lo..hi : fl[k] # q
  /\ strays = 0 => (hi + 1 - lo) + Cardinality(X) = cl.next

(* Every class uses a slot of its own: slots are a stride apart. *)
LEMMA SlotGap ==
  ASSUME NEW i \in Nat, NEW j \in Nat, NEW s \in Nat, i < j
  PROVE  i * s + s <= j * s
  <1>1. i + 1 \in Nat /\ i + 1 <= j
    OBVIOUS
  <1>2. (i + 1) * s <= j * s
    BY <1>1, TimesMonotone
  <1>3. (i + 1) * s = i * s + s
    BY TimesSucc
  <1> QED BY <1>2, <1>3

-----------------------------------------------------------------------------
(* A stack of frames. *)

LEMMA StackFields ==
  ASSUME NEW st \in Stack
  PROVE  /\ st.cursor \in Nat /\ st.frames \in Seq(Frame) /\ Len(st.frames) \in Nat
         /\ \A k \in 1..Len(st.frames) : st.frames[k].off \in Nat /\ st.frames[k].prev \in Nat
  <1>1. st.cursor \in Nat /\ st.frames \in Seq(Frame)
    BY DEF Stack
  <1>2. \A k \in 1..Len(st.frames) : st.frames[k] \in Frame
    BY <1>1
  <1> QED BY <1>1, <1>2 DEF Frame

LEMMA BoundNat ==
  ASSUME NEW st \in Stack, NEW k \in 1..(Len(st.frames) + 1)
  PROVE  Bound(st, k) \in Nat
BY StackFields DEF Bound

(* What the two ends of a frame say of the frames before and after it. *)
LEMMA FrameOrder ==
  ASSUME NEW st, NEW cap, StackOk(st, cap),
         NEW j \in 1..Len(st.frames), NEW k \in 1..Len(st.frames), j < k
  PROVE  Bound(st, j + 1) <= st.frames[k].off /\ st.frames[j].off < st.frames[k].off
  <1>1. st \in Stack
    BY DEF StackOk
  <1>2. Len(st.frames) \in Nat /\ st.frames[j].off \in Nat /\ st.frames[k].off \in Nat
        /\ st.frames[k].prev \in Nat
    BY <1>1, StackFields
  <1>3. j + 1 \in 1..(Len(st.frames) + 1) /\ k \in 1..(Len(st.frames) + 1) /\ j + 1 <= k
    BY <1>2
  <1>4. Bound(st, j + 1) <= Bound(st, k) /\ Bound(st, j + 1) \in Nat
    BY <1>1, <1>3, BoundNat DEF StackOk
  <1>5. Bound(st, k) = st.frames[k].prev
    BY <1>2 DEF Bound
  <1>6. st.frames[k].prev <= st.frames[k].off /\ st.frames[j].off < Bound(st, j + 1)
    BY DEF StackOk
  <1> QED BY <1>2, <1>4, <1>5, <1>6, SMTT(30)

LEMMA FrameInside ==
  ASSUME NEW st, NEW cap \in Nat, StackOk(st, cap), NEW k \in 1..Len(st.frames)
  PROVE  st.frames[k].off \in Nat /\ Bound(st, k + 1) \in Nat /\ Bound(st, k + 1) <= cap
  <1>1. st \in Stack
    BY DEF StackOk
  <1>2. Len(st.frames) \in Nat /\ st.frames[k].off \in Nat /\ st.cursor \in Nat
    BY <1>1, StackFields
  <1>3. k + 1 \in 1..(Len(st.frames) + 1) /\ Len(st.frames) + 1 \in 1..(Len(st.frames) + 1)
        /\ k + 1 <= Len(st.frames) + 1
    BY <1>2
  <1>4. Bound(st, k + 1) <= Bound(st, Len(st.frames) + 1) /\ Bound(st, k + 1) \in Nat
    BY <1>1, <1>3, BoundNat DEF StackOk
  <1>5. Bound(st, Len(st.frames) + 1) = st.cursor
    BY DEF Bound
  <1> QED BY <1>2, <1>4, <1>5 DEF StackOk

(* Where the stack has room, a push adds a frame and leaves the others. *)
LEMMA PushFrame ==
  ASSUME NEW st, NEW cap \in Nat, StackOk(st, cap), NEW at \in Nat, NEW l,
         l.align \in Nat \ {0}, l.size \in Nat \ {0}, StackHasRoom(st, at, cap, l)
  PROVE  LET n == Len(st.frames)
             ns == StackPush(st, at, l)
         IN /\ StackOk(ns, cap)
            /\ Len(ns.frames) = n + 1
            /\ \A k \in 1..n : ns.frames[k] = st.frames[k] /\ Bound(ns, k + 1) = Bound(st, k + 1)
            /\ InFrame(ns, at, n + 1, at + AlignedOff(at, st.cursor, l), l.size)
            /\ (at + AlignedOff(at, st.cursor, l)) % l.align = 0
            /\ at + AlignedOff(at, st.cursor, l) \in Nat
  <1> DEFINE n == Len(st.frames)
             ns == StackPush(st, at, l)
             off == AlignedOff(at, st.cursor, l)
             e == EndOff(at, st.cursor, l)
             fr == [off |-> off, prev |-> st.cursor]
  <1>1. st \in Stack /\ st.cursor \in Nat /\ st.frames \in Seq(Frame) /\ n \in Nat
        /\ \A k \in 1..n : st.frames[k].off \in Nat /\ st.frames[k].prev \in Nat
    BY StackFields DEF StackOk
  <1>2. /\ off \in Nat /\ off >= st.cursor /\ (at + off) % l.align = 0
        /\ e \in Nat /\ e = off + l.size /\ e > st.cursor
    BY <1>1, PlacementOf
  <1>2a. off < e
    BY <1>2
  <1>3. e <= cap
    BY DEF StackHasRoom, Fits
  <1>4. /\ ns.cursor = e /\ ns.frames = Append(st.frames, fr)
        /\ ns = [cursor |-> e, frames |-> Append(st.frames, fr)]
    BY DEF StackPush
  <1> HIDE DEF ns, off, e
  <1>5. fr \in Frame
    BY <1>1, <1>2 DEF Frame
  <1>6. /\ ns.frames \in Seq(Frame) /\ Len(ns.frames) = n + 1
        /\ \A k \in 1..n : ns.frames[k] = st.frames[k]
        /\ ns.frames[n + 1] = fr
    BY <1>1, <1>4, <1>5
  <1>7. ns \in Stack
    BY <1>2, <1>4, <1>6 DEF Stack
  <1>8. ns.frames[n + 1].off = off /\ ns.frames[n + 1].prev = st.cursor
    BY <1>6
  <1> HIDE DEF fr
  <1>9. ASSUME NEW k \in 1..(n + 1) PROVE Bound(ns, k) = Bound(st, k)
    BY <1>1, <1>6, <1>8, SMTT(30) DEF Bound
  <1>10. Bound(ns, (n + 1) + 1) = e
    BY <1>4, <1>6 DEF Bound
  <1>11. Bound(st, n + 1) = st.cursor /\ \A k \in 1..(n + 1) : Bound(st, k) \in Nat
    BY <1>1, BoundNat DEF Bound
  <1>12. \A k \in 1..n : k \in 1..(n + 1) /\ k + 1 \in 1..(n + 1)
    BY <1>1
  <1>13. StackOk(ns, cap)
    <2>1. Bound(ns, 1) = 0
      BY <1>1, <1>9 DEF StackOk
    <2>2. ASSUME NEW k \in 1..(n + 1)
          PROVE  ns.frames[k].prev <= ns.frames[k].off /\ ns.frames[k].off < Bound(ns, k + 1)
      <3>1. CASE k \in 1..n
        BY <1>6, <1>9, <1>12, <3>1 DEF StackOk
      <3>2. CASE k = n + 1
        <4>1. ns.frames[k].prev = st.cursor /\ ns.frames[k].off = off
          BY <1>8, <3>2
        <4>2. Bound(ns, k + 1) = e
          BY <1>10, <3>2
        <4> QED BY <1>2, <1>2a, <4>1, <4>2
      <3> QED BY <1>1, <3>1, <3>2
    <2>3. ASSUME NEW j \in 1..((n + 1) + 1), NEW k \in 1..((n + 1) + 1), j <= k
          PROVE  Bound(ns, j) <= Bound(ns, k)
      <3>1. CASE k \in 1..(n + 1)
        <4>1. j \in 1..(n + 1)
          BY <1>1, <2>3, <3>1
        <4> QED BY <1>9, <2>3, <3>1, <4>1 DEF StackOk
      <3>2. CASE k = (n + 1) + 1 /\ j \in 1..(n + 1)
        <4>1. j <= n + 1 /\ n + 1 \in 1..(n + 1)
          BY <1>1, <3>2
        <4>2. Bound(st, j) <= Bound(st, n + 1)
          BY <3>2, <4>1 DEF StackOk
        <4>3. Bound(ns, j) = Bound(st, j)
          BY <1>9, <3>2
        <4>4. Bound(ns, k) = e
          BY <1>10, <3>2
        <4>5. PICK x \in Nat, y \in Nat : x = Bound(st, j) /\ y = st.cursor
          BY <1>1, <1>11, <3>2
        <4>6. x <= y /\ e > y /\ e \in Nat
          BY <1>2, <1>11, <4>2, <4>5
        <4>7. x <= e
          BY <4>6
        <4> QED BY <4>3, <4>4, <4>5, <4>7
      <3>3. CASE k = (n + 1) + 1 /\ j = (n + 1) + 1
        <4>1. Bound(ns, j) = e /\ Bound(ns, k) = e
          BY <1>10, <3>3
        <4> QED BY <1>2, <4>1
      <3>4. \A i \in 1..((n + 1) + 1) : i \in 1..(n + 1) \/ i = (n + 1) + 1
        BY <1>1
      <3> QED BY <3>1, <3>2, <3>3, <3>4
    <2> QED BY <1>3, <1>4, <1>6, <1>7, <2>1, <2>2, <2>3 DEF StackOk
  <1>14. InFrame(ns, at, n + 1, at + off, l.size)
    BY <1>2, <1>8, <1>10 DEF InFrame
  <1>15. at + off \in Nat
    BY <1>2
  <1> QED BY <1>2, <1>6, <1>9, <1>12, <1>13, <1>14, <1>15 DEF ns, off

(* A free of the top block removes its frame, one of another is ignored. *)
LEMMA PopFrame ==
  ASSUME NEW st, NEW cap \in Nat, StackOk(st, cap), NEW x, IsTop(st, x)
  PROVE  LET n == Len(st.frames)
             ns == StackFree(st, x)
         IN /\ StackOk(ns, cap)
            /\ n \in Nat \ {0} /\ Len(ns.frames) = n - 1
            /\ st.frames[n].off = x
            /\ \A k \in 1..(n - 1) : ns.frames[k] = st.frames[k] /\ Bound(ns, k + 1) = Bound(st, k + 1)
            /\ ns.cursor = Bound(st, n)
  <1> DEFINE n == Len(st.frames)
             ns == StackFree(st, x)
  <1>1. st \in Stack /\ st.cursor \in Nat /\ st.frames \in Seq(Frame) /\ n \in Nat
        /\ \A k \in 1..n : st.frames[k].off \in Nat /\ st.frames[k].prev \in Nat
    BY StackFields DEF StackOk
  <1>2. st.frames # <<>> /\ st.frames[n].off = x
    BY DEF IsTop, Last
  <1>3. n \in Nat \ {0} /\ n - 1 \in Nat
    BY <1>1, <1>2, EmptySeq
  <1>4. ns = [cursor |-> st.frames[n].prev, frames |-> SubSeq(st.frames, 1, n - 1)]
    BY DEF StackFree, Last, Front
  <1>5. ns.cursor = st.frames[n].prev /\ ns.frames = SubSeq(st.frames, 1, n - 1)
    BY <1>4
  <1> HIDE DEF ns
  <1>6. /\ ns.frames \in Seq(Frame) /\ Len(ns.frames) = n - 1
        /\ \A k \in 1..(n - 1) : ns.frames[k] = st.frames[k]
    <2>1. SubSeq(st.frames, 1, n - 1) = [i \in 1..(n - 1) |-> st.frames[i]]
      BY <1>1, <1>3
    <2>2. \A k \in 1..(n - 1) : st.frames[k] \in Frame
      BY <1>1, <1>3
    <2> QED BY <1>3, <1>5, <2>1, <2>2
  <1>7. ns \in Stack
    BY <1>1, <1>3, <1>4, <1>6, n \in 1..n DEF Stack
  <1>8. ASSUME NEW k \in 1..n PROVE Bound(ns, k) = Bound(st, k)
    BY <1>1, <1>3, <1>5, <1>6 DEF Bound
  <1>9. \A k \in 1..(n - 1) : k \in 1..n /\ k + 1 \in 1..n
    BY <1>1
  <1>10. ns.cursor = Bound(st, n) /\ ns.cursor <= cap
    <2>1. ns.cursor = Bound(st, n)
      BY <1>1, <1>3, <1>5 DEF Bound
    <2>2. Bound(st, n) <= Bound(st, n + 1) /\ Bound(st, n + 1) = st.cursor /\ Bound(st, n) \in Nat
      <3>1. n \in 1..(n + 1) /\ n + 1 \in 1..(n + 1) /\ n <= n + 1
        BY <1>3
      <3>2. Bound(st, n + 1) = st.cursor
        BY DEF Bound
      <3> QED BY <1>1, <3>1, <3>2, BoundNat DEF StackOk
    <2> QED BY <1>1, <2>1, <2>2 DEF StackOk
  <1>11. StackOk(ns, cap)
    <2>1. Bound(ns, 1) = 0
      BY <1>3, <1>8 DEF StackOk
    <2>2. ASSUME NEW k \in 1..(n - 1)
          PROVE  ns.frames[k].prev <= ns.frames[k].off /\ ns.frames[k].off < Bound(ns, k + 1)
      BY <1>6, <1>8, <1>9 DEF StackOk
    <2>3. ASSUME NEW j \in 1..n, NEW k \in 1..n, j <= k
          PROVE  Bound(ns, j) <= Bound(ns, k)
      <3>1. j \in 1..(n + 1) /\ k \in 1..(n + 1)
        BY <1>3
      <3>2. Bound(st, j) <= Bound(st, k)
        BY <2>3, <3>1 DEF StackOk
      <3> QED BY <1>8, <3>2
    <2>4. (n - 1) + 1 = n
      BY <1>3
    <2> QED BY <1>6, <1>7, <1>10, <2>1, <2>2, <2>3, <2>4 DEF StackOk
  <1> QED BY <1>2, <1>3, <1>6, <1>8, <1>9, <1>10, <1>11 DEF ns

-----------------------------------------------------------------------------
(* A place is a frame of one of the stacks above the class regions, or a   *)
(* slot of a class.                                                        *)
BuildOk(B) ==
  /\ B.pbase \in Nat /\ B.pcap \in Nat /\ B.sbase \in Nat /\ B.scap \in Nat /\ B.slots \in Nat
  /\ RangesDisjoint(B)

Ground(B, p, b, c) ==
  BuildOk(B) /\ StackOk(p, B.pcap) /\ StackOk(b, B.scap) /\ Regions(B, b, c)

Place(B, p, b, c, s, k, q, ptr, len) ==
  \/ s = "primary" /\ k \in 1..Len(p.frames) /\ q = 0 /\ InFrame(p, B.pbase, k, ptr, len)
  \/ s = "backing" /\ k \in (Len(c) + 1)..Len(b.frames) /\ q = 0 /\ InFrame(b, B.sbase, k, ptr, len)
  \/ /\ s = "backing" /\ k \in 1..Len(c) /\ q \in 0..(c[k].slots - 1)
     /\ ptr = SlotAddr(B.sbase, c[k], q) /\ len = c[k].stride

LEMMA ClassFields ==
  ASSUME NEW c \in Seq(Class), NEW i \in 1..Len(c)
  PROVE  /\ c[i].off \in Nat /\ c[i].stride \in Nat \ {0} /\ c[i].slots \in Nat \ {0}
         /\ c[i].head \in Nat /\ c[i].next \in Nat /\ c[i].events \in Nat
  <1>1. c[i] \in Class
    OBVIOUS
  <1> QED BY <1>1 DEF Class

LEMMA SlotInRegion ==
  ASSUME NEW B, NEW b, NEW c, Regions(B, b, c), NEW k \in 1..Len(c), B.sbase \in Nat,
         NEW q \in 0..(c[k].slots - 1)
  PROVE  LET ptr == SlotAddr(B.sbase, c[k], q)
         IN /\ ptr \in Nat /\ B.sbase + c[k].off <= ptr
            /\ ptr + c[k].stride <= B.sbase + c[k].off + c[k].slots * c[k].stride
            /\ c[k].slots * c[k].stride \in Nat
  <1>1. c[k].off \in Nat /\ c[k].stride \in Nat \ {0} /\ c[k].slots \in Nat \ {0}
    BY ClassFields DEF Regions
  <1>2. PICK sb \in Nat, off \in Nat, stride \in Nat, slots \in Nat :
          sb = B.sbase /\ off = c[k].off /\ stride = c[k].stride /\ slots = c[k].slots
    BY <1>1
  <1>3. q \in Nat /\ q < slots
    BY <1>2
  <1>4. q * stride \in Nat /\ slots * stride \in Nat /\ q * stride + stride <= slots * stride
    BY <1>3, TimesNat, SlotGap
  <1>5. SlotAddr(B.sbase, c[k], q) = sb + off + q * stride
    BY <1>2 DEF SlotAddr
  <1> DEFINE x == q * stride
             y == slots * stride
  <1> HIDE DEF x, y
  <1>6. /\ sb + off + x \in Nat /\ sb + off <= sb + off + x
        /\ (sb + off + x) + stride <= sb + off + y
    BY <1>4 DEF x, y
  <1> QED BY <1>2, <1>4, <1>5, <1>6 DEF x, y

(* The frame a place lies in. *)
StackOf(s, p, b) == IF s = "primary" THEN p ELSE b
BaseOf(s, B) == IF s = "primary" THEN B.pbase ELSE B.sbase
CapOf(s, B) == IF s = "primary" THEN B.pcap ELSE B.scap

InsideFrame(st, at, k, ptr, len) ==
  /\ k \in 1..Len(st.frames) /\ ptr \in Nat
  /\ at + st.frames[k].off <= ptr /\ ptr + len <= at + Bound(st, k + 1)

LEMMA FrameHolds ==
  ASSUME NEW st, NEW cap \in Nat, StackOk(st, cap), NEW at \in Nat,
         NEW k \in 1..Len(st.frames), NEW ptr, NEW len \in Nat, InFrame(st, at, k, ptr, len)
  PROVE  InsideFrame(st, at, k, ptr, len)
  <1>1. st.frames[k].off \in Nat /\ Bound(st, k + 1) \in Nat
    BY FrameInside
  <1>2. ptr = at + st.frames[k].off /\ st.frames[k].off + len <= Bound(st, k + 1)
    BY DEF InFrame
  <1>3. PICK o \in Nat, e \in Nat : o = st.frames[k].off /\ e = Bound(st, k + 1)
    BY <1>1
  <1>4. ptr = at + o /\ o + len <= e
    BY <1>2, <1>3
  <1>5. ptr \in Nat /\ at + o <= ptr /\ ptr + len <= at + e
    BY <1>4
  <1> QED BY <1>3, <1>5 DEF InsideFrame

LEMMA PlaceInFrame ==
  ASSUME NEW B, NEW p, NEW b, NEW c, Ground(B, p, b, c),
         NEW s, NEW k, NEW q, NEW ptr, NEW len \in Nat, Place(B, p, b, c, s, k, q, ptr, len)
  PROVE  /\ s \in {"primary", "backing"}
         /\ InsideFrame(StackOf(s, p, b), BaseOf(s, B), k, ptr, len)
  <1>0. BuildOk(B) /\ StackOk(p, B.pcap) /\ StackOk(b, B.scap) /\ Regions(B, b, c)
    BY DEF Ground
  <1>1. B.pbase \in Nat /\ B.pcap \in Nat /\ B.sbase \in Nat /\ B.scap \in Nat
    BY <1>0 DEF BuildOk
  <1>2. CASE s = "primary" /\ k \in 1..Len(p.frames) /\ q = 0 /\ InFrame(p, B.pbase, k, ptr, len)
    <2>1. InsideFrame(p, B.pbase, k, ptr, len)
      BY <1>0, <1>1, <1>2, FrameHolds
    <2> QED BY <1>2, <2>1 DEF StackOf, BaseOf
  <1>3. c \in Seq(Class) /\ Len(c) \in Nat /\ Len(c) <= Len(b.frames) /\ Len(b.frames) \in Nat
    <2>1. b \in Stack
      BY <1>0 DEF StackOk
    <2> QED BY <1>0, <2>1, StackFields DEF Regions
  <1>4. CASE s = "backing" /\ k \in (Len(c) + 1)..Len(b.frames) /\ q = 0
             /\ InFrame(b, B.sbase, k, ptr, len)
    <2>0. k \in 1..Len(b.frames)
      BY <1>3, <1>4
    <2>1. InsideFrame(b, B.sbase, k, ptr, len)
      BY <1>0, <1>1, <1>4, <2>0, FrameHolds
    <2> QED BY <1>4, <2>1 DEF StackOf, BaseOf
  <1>5. CASE /\ s = "backing" /\ k \in 1..Len(c) /\ q \in 0..(c[k].slots - 1)
             /\ ptr = SlotAddr(B.sbase, c[k], q) /\ len = c[k].stride
    <2>1. k \in 1..Len(b.frames)
      BY <1>3, <1>5
    <2>2. /\ ptr \in Nat /\ B.sbase + c[k].off <= ptr
          /\ ptr + len <= B.sbase + c[k].off + c[k].slots * c[k].stride
          /\ c[k].slots * c[k].stride \in Nat
      BY <1>0, <1>1, <1>5, SlotInRegion
    <2>3. c[k].off = b.frames[k].off /\ c[k].off + c[k].slots * c[k].stride <= Bound(b, k + 1)
      BY <1>0, <1>5 DEF Regions
    <2>4. c[k].off \in Nat /\ Bound(b, k + 1) \in Nat
      BY <1>0, <1>1, <1>3, <1>5, <2>1, ClassFields, FrameInside
    <2> DEFINE y == c[k].slots * c[k].stride
    <2> HIDE DEF y
    <2>5. ptr + len <= B.sbase + Bound(b, k + 1)
      BY <1>1, <2>2, <2>3, <2>4 DEF y
    <2>6. InsideFrame(b, B.sbase, k, ptr, len)
      BY <2>1, <2>2, <2>3, <2>5 DEF InsideFrame
    <2> QED BY <1>5, <2>6 DEF StackOf, BaseOf
  <1> QED BY <1>2, <1>4, <1>5 DEF Place

(* Different places do not overlap. *)
Apart(x, m, y, n) == x + m <= y \/ y + n <= x

LEMMA FramesApart ==
  ASSUME NEW st, NEW cap \in Nat, StackOk(st, cap), NEW at \in Nat,
         NEW j, NEW k, j # k, NEW x, NEW m \in Nat, NEW y, NEW n \in Nat,
         InsideFrame(st, at, j, x, m), InsideFrame(st, at, k, y, n)
  PROVE  Apart(x, m, y, n)
  <1>1. j \in 1..Len(st.frames) /\ k \in 1..Len(st.frames) /\ x \in Nat /\ y \in Nat
    BY DEF InsideFrame
  <1>2. /\ st.frames[j].off \in Nat /\ Bound(st, j + 1) \in Nat
        /\ st.frames[k].off \in Nat /\ Bound(st, k + 1) \in Nat
    BY <1>1, FrameInside
  <1>2a. /\ at + st.frames[j].off <= x /\ x + m <= at + Bound(st, j + 1)
         /\ at + st.frames[k].off <= y /\ y + n <= at + Bound(st, k + 1)
    BY DEF InsideFrame
  <1>2b. PICK oj \in Nat, ej \in Nat, ok \in Nat, ek \in Nat :
           /\ oj = st.frames[j].off /\ ej = Bound(st, j + 1)
           /\ ok = st.frames[k].off /\ ek = Bound(st, k + 1)
    BY <1>2
  <1>2c. at + oj <= x /\ x + m <= at + ej /\ at + ok <= y /\ y + n <= at + ek
    BY <1>2a, <1>2b
  <1>3. CASE j < k
    <2>1. ej <= ok
      BY <1>1, <1>2b, <1>3, FrameOrder
    <2>2. x + m <= y
      BY <1>1, <1>2c, <2>1
    <2> QED BY <2>2 DEF Apart
  <1>4. CASE k < j
    <2>1. ek <= oj
      BY <1>1, <1>2b, <1>4, FrameOrder
    <2>2. y + n <= x
      BY <1>1, <1>2c, <2>1
    <2> QED BY <2>2 DEF Apart
  <1> QED BY <1>1, <1>3, <1>4

LEMMA InRegionOf ==
  ASSUME NEW st, NEW cap \in Nat, StackOk(st, cap), NEW at \in Nat,
         NEW k, NEW x, NEW m \in Nat, InsideFrame(st, at, k, x, m)
  PROVE  x \in Nat /\ at <= x /\ x + m <= at + cap
  <1>1. k \in 1..Len(st.frames) /\ x \in Nat
    BY DEF InsideFrame
  <1>2. st.frames[k].off \in Nat /\ Bound(st, k + 1) \in Nat /\ Bound(st, k + 1) <= cap
    BY <1>1, FrameInside
  <1> QED BY <1>1, <1>2, SMTT(30) DEF InsideFrame

LEMMA PlacesApart ==
  ASSUME NEW B, NEW p, NEW b, NEW c, Ground(B, p, b, c),
         NEW s, NEW j, NEW u, NEW x, NEW m \in Nat, Place(B, p, b, c, s, j, u, x, m),
         NEW t, NEW k, NEW v, NEW y, NEW n \in Nat, Place(B, p, b, c, t, k, v, y, n),
         s # t \/ j # k \/ u # v
  PROVE  Apart(x, m, y, n)
  <1>0. BuildOk(B) /\ StackOk(p, B.pcap) /\ StackOk(b, B.scap) /\ Regions(B, b, c)
    BY DEF Ground
  <1>1. B.pbase \in Nat /\ B.pcap \in Nat /\ B.sbase \in Nat /\ B.scap \in Nat /\ RangesDisjoint(B)
    BY <1>0 DEF BuildOk
  <1>2. s \in {"primary", "backing"} /\ InsideFrame(StackOf(s, p, b), BaseOf(s, B), j, x, m)
    BY PlaceInFrame
  <1>3. t \in {"primary", "backing"} /\ InsideFrame(StackOf(t, p, b), BaseOf(t, B), k, y, n)
    BY PlaceInFrame
  <1>4. CASE s = "primary" /\ t = "primary" /\ j # k
    <2>1. InsideFrame(p, B.pbase, j, x, m) /\ InsideFrame(p, B.pbase, k, y, n)
      BY <1>2, <1>3, <1>4 DEF StackOf, BaseOf
    <2> QED BY <1>0, <1>1, <1>4, <2>1, FramesApart
  <1>5. CASE s = "backing" /\ t = "backing" /\ j # k
    <2>1. InsideFrame(b, B.sbase, j, x, m) /\ InsideFrame(b, B.sbase, k, y, n)
      BY <1>2, <1>3, <1>5 DEF StackOf, BaseOf
    <2> QED BY <1>0, <1>1, <1>5, <2>1, FramesApart
  <1>6. CASE s = "primary" /\ t = "backing"
    <2>1. InsideFrame(p, B.pbase, j, x, m) /\ InsideFrame(b, B.sbase, k, y, n)
      BY <1>2, <1>3, <1>6 DEF StackOf, BaseOf
    <2>2. x \in Nat /\ B.pbase <= x /\ x + m <= B.pbase + B.pcap
      BY <1>0, <1>1, <2>1, InRegionOf
    <2>3. y \in Nat /\ B.sbase <= y /\ y + n <= B.sbase + B.scap
      BY <1>0, <1>1, <2>1, InRegionOf
    <2> QED BY <1>1, <2>2, <2>3 DEF RangesDisjoint, Apart
  <1>7. CASE s = "backing" /\ t = "primary"
    <2>1. InsideFrame(b, B.sbase, j, x, m) /\ InsideFrame(p, B.pbase, k, y, n)
      BY <1>2, <1>3, <1>7 DEF StackOf, BaseOf
    <2>2. y \in Nat /\ B.pbase <= y /\ y + n <= B.pbase + B.pcap
      BY <1>0, <1>1, <2>1, InRegionOf
    <2>3. x \in Nat /\ B.sbase <= x /\ x + m <= B.sbase + B.scap
      BY <1>0, <1>1, <2>1, InRegionOf
    <2> QED BY <1>1, <2>2, <2>3 DEF RangesDisjoint, Apart
  <1>8. CASE s = t /\ j = k /\ u # v
    <2>1. Len(c) \in Nat /\ c \in Seq(Class)
      BY <1>0 DEF Regions
    <2>2. /\ k \in 1..Len(c) /\ u \in 0..(c[k].slots - 1) /\ v \in 0..(c[k].slots - 1)
          /\ x = SlotAddr(B.sbase, c[k], u) /\ y = SlotAddr(B.sbase, c[k], v)
          /\ m = c[k].stride /\ n = c[k].stride
      BY <1>8, <2>1 DEF Place
    <2>3. c[k].off \in Nat /\ c[k].stride \in Nat \ {0} /\ c[k].slots \in Nat \ {0}
      BY <2>1, <2>2, ClassFields
    <2>4. PICK sb \in Nat, off \in Nat, stride \in Nat :
            sb = B.sbase /\ off = c[k].off /\ stride = c[k].stride
      BY <1>1, <2>3
    <2>5. u \in Nat /\ v \in Nat /\ x = sb + off + u * stride /\ y = sb + off + v * stride
          /\ m = stride /\ n = stride
      BY <2>2, <2>3, <2>4 DEF SlotAddr
    <2>6. u * stride \in Nat /\ v * stride \in Nat
      BY <2>5, TimesNat
    <2>7. u * stride + stride <= v * stride \/ v * stride + stride <= u * stride
      <3>1. CASE u < v
        BY <2>5, <3>1, SlotGap
      <3>2. CASE v < u
        BY <2>5, <3>2, SlotGap
      <3> QED BY <1>8, <2>5, <3>1, <3>2
    <2> DEFINE uu == u * stride
               vv == v * stride
    <2> HIDE DEF uu, vv
    <2> QED BY <2>5, <2>6, <2>7 DEF uu, vv, Apart
  <1> QED BY <1>2, <1>3, <1>4, <1>5, <1>6, <1>7, <1>8

-----------------------------------------------------------------------------
(* The router's state: the ground, the blocks in their places, the lists.  *)
ClassOk(B, cl, m, X, strays) ==
  \E fl \in [Nat -> Nat], lo \in Nat, hi \in Nat :
    ListOk(B.sbase, cl, m, fl, lo, hi, strays) /\ SlotsOk(B.sbase, cl, X, fl, lo, hi, strays)

Cells(B) == B.pbase..(B.pbase + B.pcap - 1) \cup B.sbase..(B.sbase + B.scap - 1)

HistOk(h) == h.strays \in Nat /\ h.pignored \in Nat /\ h.bignored \in Nat

Struct(B, p, b, c, m, L, h) ==
  /\ Ground(B, p, b, c) /\ BlocksOk(L) /\ HistOk(h)
  /\ StackBlocks(p, B.pbase, 1, OfHome(L, "primary"), h.pignored)
  /\ StackBlocks(b, B.sbase, Len(c) + 1, OfHome(L, "backing"), Len(c) + h.bignored)
  /\ \A i \in 1..Len(c) : ClassOk(B, c[i], m, OfClass(L, i), h.strays)
  /\ \A x \in OfHome(L, "class") : x.class \in 1..Len(c)
  /\ m = [a \in Cells(B) |-> m[a]]

Contents(m, L) ==
  \A x \in L : x.size > 0 => \A a \in Span(x.ptr, x.known) : a \in DOMAIN m /\ m[a] = x.holds

(* What a block may fill: usable_size. *)
Extent(x, c) == IF x.home = "class" THEN c[x.class].stride ELSE x.size

LEMMA GroundFacts ==
  ASSUME NEW B, NEW p, NEW b, NEW c, Ground(B, p, b, c)
  PROVE  /\ B.pbase \in Nat /\ B.pcap \in Nat /\ B.sbase \in Nat /\ B.scap \in Nat
         /\ c \in Seq(Class) /\ Len(c) \in Nat
         /\ StackOk(p, B.pcap) /\ StackOk(b, B.scap) /\ Regions(B, b, c) /\ BuildOk(B)
         /\ Len(p.frames) \in Nat /\ Len(b.frames) \in Nat /\ Len(c) <= Len(b.frames)
  <1>1. BuildOk(B) /\ StackOk(p, B.pcap) /\ StackOk(b, B.scap) /\ Regions(B, b, c)
    BY DEF Ground
  <1>2. B.pbase \in Nat /\ B.pcap \in Nat /\ B.sbase \in Nat /\ B.scap \in Nat
    BY <1>1 DEF BuildOk
  <1>3. c \in Seq(Class) /\ Len(c) <= Len(b.frames)
    BY <1>1 DEF Regions
  <1>4. p \in Stack /\ b \in Stack
    BY <1>1 DEF StackOk
  <1>5. Len(p.frames) \in Nat /\ Len(b.frames) \in Nat
    BY <1>4, StackFields
  <1>6. Len(c) \in Nat
    BY <1>3
  <1> QED BY <1>1, <1>2, <1>3, <1>5, <1>6

(* The cells of a place are memory. *)
LEMMA PlaceCells ==
  ASSUME NEW B, NEW p, NEW b, NEW c, Ground(B, p, b, c),
         NEW s, NEW k, NEW q, NEW ptr, NEW len \in Nat, Place(B, p, b, c, s, k, q, ptr, len),
         NEW a \in Span(ptr, len)
  PROVE  a \in Cells(B)
  <1>1. s \in {"primary", "backing"} /\ InsideFrame(StackOf(s, p, b), BaseOf(s, B), k, ptr, len)
    BY PlaceInFrame
  <1>2. CASE s = "primary"
    <2>1. ptr \in Nat /\ B.pbase <= ptr /\ ptr + len <= B.pbase + B.pcap
      BY <1>1, <1>2, GroundFacts, InRegionOf DEF StackOf, BaseOf
    <2> QED BY <2>1, GroundFacts DEF Span, Cells
  <1>3. CASE s = "backing"
    <2>1. ptr \in Nat /\ B.sbase <= ptr /\ ptr + len <= B.sbase + B.scap
      BY <1>1, <1>3, GroundFacts, InRegionOf DEF StackOf, BaseOf
    <2> QED BY <2>1, GroundFacts DEF Span, Cells
  <1> QED BY <1>1, <1>2, <1>3

LEMMA StructFacts ==
  ASSUME NEW B, NEW p, NEW b, NEW c, NEW m, NEW L, NEW h, Struct(B, p, b, c, m, L, h)
  PROVE  /\ Ground(B, p, b, c) /\ BlocksOk(L) /\ HistOk(h)
         /\ StackBlocks(p, B.pbase, 1, OfHome(L, "primary"), h.pignored)
         /\ StackBlocks(b, B.sbase, Len(c) + 1, OfHome(L, "backing"), Len(c) + h.bignored)
         /\ \A i \in 1..Len(c) : ClassOk(B, c[i], m, OfClass(L, i), h.strays)
         /\ \A x \in OfHome(L, "class") : x.class \in 1..Len(c)
         /\ m = [a \in Cells(B) |-> m[a]]
BY DEF Struct

(* The place of a block in use. *)
LEMMA StackPlace ==
  ASSUME NEW B, NEW p, NEW b, NEW c, NEW m, NEW L, NEW h, Struct(B, p, b, c, m, L, h),
         NEW x \in L, x.home \in {"primary", "backing"}
  PROVE  /\ Extent(x, c) = x.size
         /\ x.home = "primary" => \E k : Place(B, p, b, c, "primary", k, 0, x.ptr, x.size)
         /\ x.home = "backing" =>
              \E k : Place(B, p, b, c, "backing", k, 0, x.ptr, x.size) /\ ~(k \in 1..Len(c))
  <1>1. Extent(x, c) = x.size
    BY DEF Extent
  <1>2. CASE x.home = "primary"
    <2>1. x \in OfHome(L, "primary")
      BY <1>2 DEF OfHome
    <2>2. PICK k \in 1..Len(p.frames) : InFrame(p, B.pbase, k, x.ptr, x.size)
      BY <2>1, StructFacts DEF StackBlocks
    <2> QED BY <1>1, <1>2, <2>2 DEF Place
  <1>3. CASE x.home = "backing"
    <2>1. x \in OfHome(L, "backing")
      BY <1>3 DEF OfHome
    <2>2. PICK k \in (Len(c) + 1)..Len(b.frames) : InFrame(b, B.sbase, k, x.ptr, x.size)
      BY <2>1, StructFacts DEF StackBlocks
    <2>3. ~(k \in 1..Len(c))
      BY <2>2, StructFacts, GroundFacts
    <2>4. Place(B, p, b, c, "backing", k, 0, x.ptr, x.size)
      BY <2>2 DEF Place
    <2> QED BY <1>1, <1>3, <2>3, <2>4
  <1> QED BY <1>2, <1>3

LEMMA SlotPlace ==
  ASSUME NEW B, NEW p, NEW b, NEW c, Ground(B, p, b, c), NEW i \in 1..Len(c),
         c[i].next <= c[i].slots, NEW q \in 0..(c[i].next - 1)
  PROVE  /\ Place(B, p, b, c, "backing", i, q, SlotAddr(B.sbase, c[i], q), c[i].stride)
         /\ c[i].stride \in Nat /\ SlotAddr(B.sbase, c[i], q) \in Nat
         /\ SlotAddr(B.sbase, c[i], q) \in Cells(B)
  <1>1. c[i].next \in Nat /\ c[i].slots \in Nat /\ c[i].stride \in Nat \ {0}
    BY GroundFacts, ClassFields
  <1>2. q \in 0..(c[i].slots - 1)
    BY <1>1
  <1>3. Place(B, p, b, c, "backing", i, q, SlotAddr(B.sbase, c[i], q), c[i].stride)
    BY <1>2 DEF Place
  <1>4. SlotAddr(B.sbase, c[i], q) \in Nat
    BY <1>2, GroundFacts, SlotInRegion
  <1>5. SlotAddr(B.sbase, c[i], q) \in Span(SlotAddr(B.sbase, c[i], q), c[i].stride)
    BY <1>1, <1>4 DEF Span
  <1>6. SlotAddr(B.sbase, c[i], q) \in Cells(B)
    BY <1>1, <1>3, <1>5, PlaceCells
  <1> QED BY <1>1, <1>3, <1>4, <1>6

LEMMA ClassPlace ==
  ASSUME NEW B, NEW p, NEW b, NEW c, NEW m, NEW L, NEW h, Struct(B, p, b, c, m, L, h),
         NEW x \in L, x.home = "class"
  PROVE  /\ x.class \in 1..Len(c) /\ Extent(x, c) = c[x.class].stride /\ x.size <= Extent(x, c)
         /\ \E q \in Nat : Place(B, p, b, c, "backing", x.class, q, x.ptr, Extent(x, c))
  <1>1. x \in OfHome(L, "class")
    BY DEF OfHome
  <1>2. x.class \in 1..Len(c)
    BY <1>1, StructFacts
  <1>3. Extent(x, c) = c[x.class].stride
    BY DEF Extent
  <1>4. x \in OfClass(L, x.class)
    BY DEF OfClass
  <1>5. PICK fl \in [Nat -> Nat], lo \in Nat, hi \in Nat :
          /\ ListOk(B.sbase, c[x.class], m, fl, lo, hi, h.strays)
          /\ SlotsOk(B.sbase, c[x.class], OfClass(L, x.class), fl, lo, hi, h.strays)
    BY <1>2, StructFacts DEF ClassOk
  <1>6. PICK q \in 0..(c[x.class].next - 1) : x.ptr = SlotAddr(B.sbase, c[x.class], q)
    BY <1>4, <1>5 DEF SlotsOk
  <1>7. x.size <= c[x.class].stride
    BY <1>4, <1>5 DEF SlotsOk
  <1>8. c[x.class].next <= c[x.class].slots
    BY <1>5 DEF ListOk
  <1>9. Place(B, p, b, c, "backing", x.class, q, x.ptr, c[x.class].stride)
    <2>1. Ground(B, p, b, c)
      BY StructFacts
    <2>2. PICK i \in 1..Len(c) : i = x.class
      BY <1>2
    <2>3. Place(B, p, b, c, "backing", i, q, SlotAddr(B.sbase, c[i], q), c[i].stride)
      BY <1>6, <1>8, <2>1, <2>2, SlotPlace
    <2> QED BY <1>6, <2>2, <2>3
  <1>10. q \in Nat
    BY <1>2, <1>6, StructFacts, GroundFacts, ClassFields
  <1> QED BY <1>2, <1>3, <1>7, <1>9, <1>10

LEMMA SizedBlock ==
  ASSUME NEW L, BlocksOk(L), NEW x \in L, x.size > 0
  PROVE  x.home \in {"primary", "backing", "class"} /\ x.size \in Nat /\ x.ptr \in Nat
BY DEF BlocksOk, BlockOk

LEMMA LivePlace ==
  ASSUME NEW B, NEW p, NEW b, NEW c, NEW m, NEW L, NEW h, Struct(B, p, b, c, m, L, h),
         NEW x \in L, x.size > 0
  PROVE  /\ Extent(x, c) \in Nat /\ x.size <= Extent(x, c)
         /\ \E s, k, q : Place(B, p, b, c, s, k, q, x.ptr, Extent(x, c))
  <1>1. x.home \in {"primary", "backing", "class"} /\ x.size \in Nat
    BY StructFacts, SizedBlock
  <1>2. CASE x.home \in {"primary", "backing"}
    <2>1. Extent(x, c) = x.size
      BY <1>2, StackPlace
    <2>2. \E s, k, q : Place(B, p, b, c, s, k, q, x.ptr, x.size)
      BY <1>2, StackPlace
    <2> QED BY <1>1, <2>1, <2>2
  <1>3. CASE x.home = "class"
    <2>1. x.class \in 1..Len(c) /\ Extent(x, c) = c[x.class].stride /\ x.size <= Extent(x, c)
      BY <1>3, ClassPlace
    <2>2. c[x.class].stride \in Nat
      BY <2>1, StructFacts, GroundFacts, ClassFields
    <2> QED BY <1>3, <2>1, <2>2, ClassPlace
  <1> QED BY <1>1, <1>2, <1>3

LEMMA SamePlace ==
  ASSUME NEW B, NEW p, NEW b, NEW c, Len(c) \in Nat,
         NEW s, NEW k, NEW q, NEW x, NEW m, NEW y, NEW n,
         Place(B, p, b, c, s, k, q, x, m), Place(B, p, b, c, s, k, q, y, n)
  PROVE  x = y
  <1>1. CASE s = "primary"
    BY <1>1 DEF Place, InFrame
  <1>2. CASE s = "backing" /\ k \in 1..Len(c)
    BY <1>2 DEF Place
  <1>3. CASE s = "backing" /\ ~(k \in 1..Len(c))
    BY <1>3 DEF Place, InFrame
  <1> QED BY <1>1, <1>2, <1>3 DEF Place

(* Blocks in use do not overlap, the slack of each included. *)
LEMMA LiveApart ==
  ASSUME NEW B, NEW p, NEW b, NEW c, NEW m, NEW L, NEW h, Struct(B, p, b, c, m, L, h),
         NEW x \in L, NEW y \in L, x # y, x.size > 0, y.size > 0
  PROVE  Apart(x.ptr, Extent(x, c), y.ptr, Extent(y, c))
  <1>1. Ground(B, p, b, c) /\ BlocksOk(L) /\ Len(c) \in Nat
    BY StructFacts, GroundFacts
  <1>2. Extent(x, c) \in Nat /\ Extent(y, c) \in Nat
    BY LivePlace
  <1>3. PICK s, j, u : Place(B, p, b, c, s, j, u, x.ptr, Extent(x, c))
    BY LivePlace
  <1>4. PICK t, k, v : Place(B, p, b, c, t, k, v, y.ptr, Extent(y, c))
    BY LivePlace
  <1>5. x.ptr # y.ptr
    BY <1>1 DEF BlocksOk
  <1>6. s # t \/ j # k \/ u # v
    BY <1>1, <1>3, <1>4, <1>5, SamePlace
  <1> QED BY <1>1, <1>2, <1>3, <1>4, <1>6, PlacesApart

(* A listed slot does not overlap a block in use. *)
LEMMA ListedApart ==
  ASSUME NEW B, NEW p, NEW b, NEW c, NEW m, NEW L, NEW h, Struct(B, p, b, c, m, L, h),
         NEW i \in 1..Len(c), NEW fl, NEW lo, NEW hi,
         ListOk(B.sbase, c[i], m, fl, lo, hi, h.strays),
         SlotsOk(B.sbase, c[i], OfClass(L, i), fl, lo, hi, h.strays),
         NEW k \in lo..hi, NEW x \in L, x.size > 0
  PROVE  Apart(SlotAddr(B.sbase, c[i], fl[k]), c[i].stride, x.ptr, Extent(x, c))
  <1>1. Ground(B, p, b, c) /\ BlocksOk(L) /\ Len(c) \in Nat
    BY StructFacts, GroundFacts
  <1>2. fl[k] \in 0..(c[i].next - 1) /\ c[i].next <= c[i].slots
    BY DEF ListOk
  <1>3. /\ Place(B, p, b, c, "backing", i, fl[k], SlotAddr(B.sbase, c[i], fl[k]), c[i].stride)
        /\ c[i].stride \in Nat
    BY <1>1, <1>2, SlotPlace
  <1>4. x.home \in {"primary", "backing", "class"} /\ x.size \in Nat /\ Extent(x, c) \in Nat
    BY <1>1, SizedBlock, LivePlace
  <1>5. CASE x.home = "primary"
    <2>1. PICK j : Place(B, p, b, c, "primary", j, 0, x.ptr, x.size)
      BY <1>5, StackPlace
    <2>2. Extent(x, c) = x.size
      BY <1>5, StackPlace
    <2>3. Place(B, p, b, c, "primary", j, 0, x.ptr, Extent(x, c))
      BY <2>1, <2>2
    <2> QED BY <1>1, <1>3, <1>4, <2>3, PlacesApart
  <1>6. CASE x.home = "backing"
    <2>1. PICK j : Place(B, p, b, c, "backing", j, 0, x.ptr, x.size) /\ ~(j \in 1..Len(c))
      BY <1>6, StackPlace
    <2>2. Extent(x, c) = x.size /\ j # i
      BY <1>6, <2>1, StackPlace
    <2>3. Place(B, p, b, c, "backing", j, 0, x.ptr, Extent(x, c))
      BY <2>1, <2>2
    <2> QED BY <1>1, <1>3, <1>4, <2>2, <2>3, PlacesApart
  <1>7. CASE x.home = "class" /\ x.class # i
    <2>1. PICK q \in Nat : Place(B, p, b, c, "backing", x.class, q, x.ptr, Extent(x, c))
      BY <1>7, ClassPlace
    <2> QED BY <1>1, <1>3, <1>4, <1>7, <2>1, PlacesApart
  <1>8. CASE x.home = "class" /\ x.class = i
    <2>1. x \in OfClass(L, i)
      BY <1>8 DEF OfClass
    <2>2. PICK q \in 0..(c[i].next - 1) : x.ptr = SlotAddr(B.sbase, c[i], q) /\ fl[k] # q
      BY <2>1 DEF SlotsOk
    <2>3. Extent(x, c) = c[i].stride
      BY <1>8 DEF Extent
    <2>4. Place(B, p, b, c, "backing", i, q, x.ptr, c[i].stride)
      BY <1>1, <1>2, <2>2, SlotPlace
    <2>5. Apart(SlotAddr(B.sbase, c[i], fl[k]), c[i].stride, x.ptr, c[i].stride)
      BY <1>1, <1>3, <2>2, <2>4, PlacesApart
    <2> QED BY <2>3, <2>5
  <1> QED BY <1>4, <1>5, <1>6, <1>7, <1>8

-----------------------------------------------------------------------------
(* A write to a block in use changes no link and no other block. *)
LEMMA ListKept ==
  ASSUME NEW at, NEW cl, NEW m, NEW n, NEW fl, NEW lo, NEW hi, NEW strays,
         ListOk(at, cl, m, fl, lo, hi, strays),
         \A k \in lo..hi : n[SlotAddr(at, cl, fl[k])] = m[SlotAddr(at, cl, fl[k])]
  PROVE  ListOk(at, cl, n, fl, lo, hi, strays)
  <1>1. lo \in Nat /\ hi \in Nat
    BY DEF ListOk
  <1>2. lo <= hi => lo \in lo..hi
    BY <1>1
  <1> QED BY <1>2 DEF ListOk

LEMMA SelfSpan ==
  ASSUME NEW a \in Nat, NEW w \in Nat \ {0}
  PROVE  a \in Span(a, w)
BY DEF Span

LEMMA OutsideApart ==
  ASSUME NEW x \in Nat, NEW len \in Nat, NEW y \in Nat, NEW n \in Nat, Apart(x, len, y, n),
         NEW a \in Span(x, len)
  PROVE  a \notin Span(y, n)
BY DEF Apart, Span

WritesOnly(B, m, n, ptr, len) ==
  /\ n = [a \in Cells(B) |-> n[a]]
  /\ \A a \in Cells(B) : a \notin Span(ptr, len) => n[a] = m[a]

LEMMA WriteLive ==
  ASSUME NEW B, NEW p, NEW b, NEW c, NEW m, NEW n, NEW L, NEW h, Struct(B, p, b, c, m, L, h),
         NEW x \in L, x.size > 0, WritesOnly(B, m, n, x.ptr, Extent(x, c))
  PROVE  Struct(B, p, b, c, n, L, h)
  <1>1. Ground(B, p, b, c) /\ BlocksOk(L) /\ Len(c) \in Nat /\ x.ptr \in Nat /\ Extent(x, c) \in Nat
    BY StructFacts, GroundFacts, SizedBlock, LivePlace
  <1>2. ASSUME NEW i \in 1..Len(c) PROVE ClassOk(B, c[i], n, OfClass(L, i), h.strays)
    <2>1. PICK fl \in [Nat -> Nat], lo \in Nat, hi \in Nat :
            /\ ListOk(B.sbase, c[i], m, fl, lo, hi, h.strays)
            /\ SlotsOk(B.sbase, c[i], OfClass(L, i), fl, lo, hi, h.strays)
      BY StructFacts DEF ClassOk
    <2>2. ASSUME NEW k \in lo..hi
          PROVE  n[SlotAddr(B.sbase, c[i], fl[k])] = m[SlotAddr(B.sbase, c[i], fl[k])]
      <3> DEFINE a == SlotAddr(B.sbase, c[i], fl[k])
      <3>1. Apart(a, c[i].stride, x.ptr, Extent(x, c))
        BY <2>1, ListedApart
      <3>2. fl[k] \in 0..(c[i].next - 1) /\ c[i].next <= c[i].slots
        BY <2>1 DEF ListOk
      <3>3. a \in Nat /\ a \in Cells(B) /\ c[i].stride \in Nat
        BY <1>1, <3>2, SlotPlace
      <3>4. c[i].stride \in Nat \ {0}
        BY <1>1, GroundFacts, ClassFields
      <3> HIDE DEF a
      <3>5. a \in Span(a, c[i].stride)
        BY <3>3, <3>4, SelfSpan
      <3>6. a \notin Span(x.ptr, Extent(x, c))
        BY <1>1, <3>1, <3>3, <3>5, OutsideApart
      <3>7. n[a] = m[a]
        BY <3>3, <3>6 DEF WritesOnly
      <3> QED BY <3>7 DEF a
    <2>3. ListOk(B.sbase, c[i], n, fl, lo, hi, h.strays)
      BY <2>1, <2>2, ListKept
    <2> QED BY <2>1, <2>3 DEF ClassOk
  <1>3. n = [a \in Cells(B) |-> n[a]]
    BY DEF WritesOnly
  <1> QED BY <1>2, <1>3 DEF Struct

LEMMA ContentsApart ==
  ASSUME NEW B, NEW p, NEW b, NEW c, NEW m, NEW n, NEW L, NEW h, Struct(B, p, b, c, m, L, h),
         NEW x \in L, x.size > 0, WritesOnly(B, m, n, x.ptr, Extent(x, c)),
         Contents(m, L \ {x})
  PROVE  Contents(n, L \ {x})
  <1>1. Ground(B, p, b, c) /\ BlocksOk(L) /\ x.ptr \in Nat /\ Extent(x, c) \in Nat
    BY StructFacts, SizedBlock, LivePlace
  <1>2. DOMAIN m = Cells(B) /\ DOMAIN n = Cells(B)
    <2>1. m = [a \in Cells(B) |-> m[a]] /\ n = [a \in Cells(B) |-> n[a]]
      BY StructFacts DEF WritesOnly
    <2> QED BY <2>1
  <1> SUFFICES ASSUME NEW y \in L \ {x}, y.size > 0, NEW a \in Span(y.ptr, y.known)
               PROVE  a \in DOMAIN n /\ n[a] = y.holds
    BY DEF Contents
  <1>3. a \in DOMAIN m /\ m[a] = y.holds
    BY DEF Contents
  <1>4. y.ptr \in Nat /\ y.known \in Nat /\ y.known <= y.size /\ y.size \in Nat
    BY <1>1 DEF BlocksOk, BlockOk
  <1>5. Extent(y, c) \in Nat /\ y.size <= Extent(y, c)
    BY LivePlace
  <1>6. a \in Span(y.ptr, Extent(y, c))
    BY <1>4, <1>5 DEF Span
  <1>7. Apart(y.ptr, Extent(y, c), x.ptr, Extent(x, c))
    BY LiveApart
  <1>8. a \notin Span(x.ptr, Extent(x, c))
    BY <1>1, <1>4, <1>5, <1>6, <1>7, OutsideApart
  <1> QED BY <1>2, <1>3, <1>8 DEF WritesOnly

-----------------------------------------------------------------------------
(* Steps on the parts: a set of blocks, a stack, one class. *)
LEMMA HomeSized ==
  ASSUME NEW L, BlocksOk(L), NEW x \in L, x.home \in {"primary", "backing", "class"}
  PROVE  x.size > 0 /\ x.ptr \in Nat /\ x.size \in Nat
BY DEF BlocksOk, BlockOk

LEMMA BlocksRemove ==
  ASSUME NEW L, BlocksOk(L), NEW x
  PROVE  BlocksOk(L \ {x})
  <1>1. IsFiniteSet(L \ {x})
    BY FS_RemoveElement DEF BlocksOk
  <1> QED BY <1>1 DEF BlocksOk

LEMMA BlocksAdd ==
  ASSUME NEW L, BlocksOk(L), NEW x, BlockOk(x),
         \A y \in L : x.size > 0 /\ y.size > 0 => x.ptr # y.ptr
  PROVE  BlocksOk(L \cup {x})
  <1>1. IsFiniteSet(L \cup {x})
    BY FS_AddElement DEF BlocksOk
  <1>2. \A y \in L \cup {x} : BlockOk(y)
    BY DEF BlocksOk
  <1>3. ASSUME NEW y \in L \cup {x}, NEW z \in L \cup {x}, y.size > 0, z.size > 0, y.ptr = z.ptr
        PROVE  y = z
    BY <1>3 DEF BlocksOk
  <1> QED BY <1>1, <1>2, <1>3 DEF BlocksOk

LEMMA HomeFinite ==
  ASSUME NEW L, BlocksOk(L), NEW w
  PROVE  /\ IsFiniteSet(OfHome(L, w)) /\ Cardinality(OfHome(L, w)) \in Nat
         /\ IsFiniteSet(OfClass(L, w)) /\ Cardinality(OfClass(L, w)) \in Nat
  <1>1. IsFiniteSet(L) /\ OfHome(L, w) \subseteq L /\ OfClass(L, w) \subseteq L
    BY DEF BlocksOk, OfHome, OfClass
  <1>2. IsFiniteSet(OfHome(L, w)) /\ IsFiniteSet(OfClass(L, w))
    BY <1>1, FS_Subset
  <1> QED BY <1>2, FS_CardinalityType

Ignored(st, off) == IF IsTop(st, off) THEN 0 ELSE 1

KeepsBelow(st, ns, first) ==
  /\ first - 1 <= Len(ns.frames)
  /\ \A k \in 1..(first - 1) : ns.frames[k] = st.frames[k] /\ Bound(ns, k + 1) = Bound(st, k + 1)

LEMMA RegionsKept ==
  ASSUME NEW B, NEW b, NEW c, Regions(B, b, c), NEW nb, KeepsBelow(b, nb, Len(c) + 1)
  PROVE  Regions(B, nb, c)
  <1>1. Len(c) \in Nat
    BY DEF Regions
  <1>2. (Len(c) + 1) - 1 = Len(c)
    BY <1>1
  <1>3. /\ Len(c) <= Len(nb.frames)
        /\ \A k \in 1..Len(c) : nb.frames[k] = b.frames[k] /\ Bound(nb, k + 1) = Bound(b, k + 1)
    BY <1>2 DEF KeepsBelow
  <1> QED BY <1>3 DEF Regions

LEMMA StackFreed ==
  ASSUME NEW st, NEW cap \in Nat, StackOk(st, cap), NEW at \in Nat, NEW first \in Nat \ {0},
         NEW X, IsFiniteSet(X), NEW others \in Nat, StackBlocks(st, at, first, X, others),
         NEW x \in X, \A y \in X : y.ptr = x.ptr => y = x
  PROVE  /\ StackOk(StackFree(st, x.ptr - at), cap)
         /\ StackBlocks(StackFree(st, x.ptr - at), at, first, X \ {x},
                        others + Ignored(st, x.ptr - at))
         /\ KeepsBelow(st, StackFree(st, x.ptr - at), first)
  <1> DEFINE off == x.ptr - at
             ns == StackFree(st, off)
             n == Len(st.frames)
  <1>1. st \in Stack /\ n \in Nat /\ \A k \in 1..n : st.frames[k].off \in Nat
    BY StackFields DEF StackOk
  <1>2. PICK kx \in first..n : InFrame(st, at, kx, x.ptr, x.size)
    BY DEF StackBlocks
  <1>3. kx \in 1..n /\ x.ptr = at + st.frames[kx].off
    BY <1>1, <1>2 DEF InFrame
  <1>4. off = st.frames[kx].off /\ off \in Nat
    <2>1. st.frames[kx].off \in Nat
      BY <1>1, <1>3
    <2> QED BY <1>3, <2>1, SMTT(30)
  <1>5. /\ Cardinality(X) \in Nat /\ Cardinality(X \ {x}) = Cardinality(X) - 1
        /\ n = Cardinality(X) + others
    BY FS_CardinalityType, FS_RemoveElement DEF StackBlocks
  <1> HIDE DEF off
  <1>6. CASE IsTop(st, off)
    <2>1. /\ StackOk(ns, cap) /\ n \in Nat \ {0} /\ Len(ns.frames) = n - 1
          /\ st.frames[n].off = off
          /\ \A k \in 1..(n - 1) : ns.frames[k] = st.frames[k] /\ Bound(ns, k + 1) = Bound(st, k + 1)
      BY <1>6, PopFrame, SMTT(30)
    <2> HIDE DEF ns
    <2>2. kx = n
      <3> SUFFICES ASSUME kx # n PROVE FALSE
        OBVIOUS
      <3>1. n \in 1..n /\ kx < n
        BY <1>1, <1>3, <2>1
      <3>2. st.frames[kx].off < st.frames[n].off
        BY <1>3, <3>1, FrameOrder
      <3> QED BY <1>4, <2>1, <3>2
    <2>3. ASSUME NEW y \in X \ {x}
          PROVE  \E k \in first..(n - 1) : InFrame(ns, at, k, y.ptr, y.size)
      <3>1. PICK k \in first..n : InFrame(st, at, k, y.ptr, y.size)
        BY DEF StackBlocks
      <3>2. k # n
        <4> SUFFICES ASSUME k = n PROVE FALSE
          OBVIOUS
        <4>1. y.ptr = at + st.frames[n].off
          BY <3>1 DEF InFrame
        <4>2. y.ptr = x.ptr
          BY <1>3, <2>2, <4>1
        <4> QED BY <2>3, <4>2
      <3>3. k \in first..(n - 1) /\ k \in 1..(n - 1)
        BY <1>1, <3>1, <3>2
      <3>4. InFrame(ns, at, k, y.ptr, y.size)
        BY <2>1, <3>1, <3>3 DEF InFrame
      <3> QED BY <3>3, <3>4
    <2>4. n - 1 = (Cardinality(X) - 1) + (others + 0)
      BY <1>1, <1>5
    <2>5. StackBlocks(ns, at, first, X \ {x}, others + 0)
      BY <1>5, <2>1, <2>3, <2>4 DEF StackBlocks
    <2>6. first - 1 <= n - 1 /\ \A k \in 1..(first - 1) : k \in 1..(n - 1)
      BY <1>1, <1>2
    <2>7. KeepsBelow(st, ns, first)
      BY <2>1, <2>6 DEF KeepsBelow
    <2>8. Ignored(st, off) = 0
      BY <1>6 DEF Ignored
    <2> QED BY <2>1, <2>5, <2>7, <2>8 DEF ns, off
  <1>7. CASE ~IsTop(st, off)
    <2>1. ns = st
      BY <1>7 DEF StackFree
    <2> HIDE DEF ns
    <2>2. n = (Cardinality(X) - 1) + (others + 1)
      BY <1>1, <1>5
    <2>3. StackBlocks(st, at, first, X \ {x}, others + 1)
      BY <1>5, <2>2 DEF StackBlocks
    <2>4. first - 1 <= n
      BY <1>1, <1>2
    <2>5. KeepsBelow(st, st, first)
      BY <2>4 DEF KeepsBelow
    <2>6. Ignored(st, off) = 1
      BY <1>7 DEF Ignored
    <2> QED BY <2>1, <2>3, <2>5, <2>6 DEF ns, off
  <1> QED BY <1>6, <1>7

LEMMA StackPushed ==
  ASSUME NEW st, NEW cap \in Nat, StackOk(st, cap), NEW at \in Nat, NEW first \in Nat \ {0},
         first - 1 <= Len(st.frames), NEW X, IsFiniteSet(X), NEW others \in Nat,
         StackBlocks(st, at, first, X, others), NEW x, NEW l,
         l.align \in Nat \ {0}, l.size \in Nat \ {0}, StackHasRoom(st, at, cap, l),
         x.ptr = at + AlignedOff(at, st.cursor, l), x.size = l.size
  PROVE  /\ StackOk(StackPush(st, at, l), cap)
         /\ StackBlocks(StackPush(st, at, l), at, first, X \cup {x}, others)
         /\ KeepsBelow(st, StackPush(st, at, l), first)
         /\ x.ptr \in Nat /\ x.ptr % l.align = 0
         /\ \A y \in X : y.ptr # x.ptr
  <1> DEFINE ns == StackPush(st, at, l)
             n == Len(st.frames)
  <1>1. st \in Stack /\ n \in Nat
    BY StackFields DEF StackOk
  <1>2. /\ StackOk(ns, cap) /\ Len(ns.frames) = n + 1
        /\ \A k \in 1..n : ns.frames[k] = st.frames[k] /\ Bound(ns, k + 1) = Bound(st, k + 1)
        /\ InFrame(ns, at, n + 1, x.ptr, x.size)
        /\ x.ptr % l.align = 0 /\ x.ptr \in Nat
    BY PushFrame, SMTT(30)
  <1> HIDE DEF ns
  <1>3. ASSUME NEW y \in X
        PROVE  \E k \in first..n : InFrame(ns, at, k, y.ptr, y.size) /\ k \in 1..n
    <2>1. PICK k \in first..n : InFrame(st, at, k, y.ptr, y.size)
      BY DEF StackBlocks
    <2>2. k \in 1..n
      BY <1>1, <2>1
    <2>3. InFrame(ns, at, k, y.ptr, y.size)
      BY <1>2, <2>1, <2>2 DEF InFrame
    <2> QED BY <2>2, <2>3
  <1>4. ASSUME NEW y \in X PROVE y.ptr # x.ptr
    <2>1. PICK k \in 1..n : InFrame(ns, at, k, y.ptr, y.size)
      BY <1>3
    <2>2. y.ptr = at + ns.frames[k].off /\ x.ptr = at + ns.frames[n + 1].off
      BY <1>2, <2>1 DEF InFrame
    <2>3. k \in 1..Len(ns.frames) /\ n + 1 \in 1..Len(ns.frames) /\ k < n + 1
      BY <1>1, <1>2, SMTT(30)
    <2>4. ns.frames[k].off < ns.frames[n + 1].off
      BY <1>2, <2>3, FrameOrder
    <2>5. ns.frames[k].off \in Nat /\ ns.frames[n + 1].off \in Nat
      BY <1>2, <2>3, FrameInside
    <2>6. PICK u \in Nat, v \in Nat : u = ns.frames[k].off /\ v = ns.frames[n + 1].off
      BY <2>5
    <2>7. y.ptr = at + u /\ x.ptr = at + v /\ u < v
      BY <2>2, <2>4, <2>6
    <2> QED BY <2>7
  <1>5. x \notin X
    BY <1>4
  <1>6. Cardinality(X) \in Nat /\ Cardinality(X \cup {x}) = Cardinality(X) + 1
    BY <1>5, FS_CardinalityType, FS_AddElement
  <1>7. n + 1 = Cardinality(X \cup {x}) + others
    BY <1>1, <1>6 DEF StackBlocks
  <1>8. \A k \in first..n : k \in first..(n + 1)
    BY <1>1
  <1>9. n + 1 \in first..(n + 1)
    BY <1>1
  <1>10. \A y \in X \cup {x} : \E k \in first..(n + 1) : InFrame(ns, at, k, y.ptr, y.size)
    BY <1>2, <1>3, <1>8, <1>9
  <1>11. StackBlocks(ns, at, first, X \cup {x}, others)
    BY <1>2, <1>7, <1>10 DEF StackBlocks
  <1>12. first - 1 <= n + 1 /\ \A k \in 1..(first - 1) : k \in 1..n
    BY <1>1
  <1>13. KeepsBelow(st, ns, first)
    BY <1>2, <1>12 DEF KeepsBelow
  <1> QED BY <1>2, <1>4, <1>11, <1>13 DEF ns

SameRegion(cl, dl) == dl.off = cl.off /\ dl.stride = cl.stride /\ dl.slots = cl.slots

SameElsewhere(L, N, i, n) ==
  /\ OfHome(N, "primary") = OfHome(L, "primary") /\ OfHome(N, "backing") = OfHome(L, "backing")
  /\ \A j \in 1..n : j # i => OfClass(N, j) = OfClass(L, j)
  /\ \A x \in OfHome(N, "class") : x.class \in 1..n

LEMMA ClassStep ==
  ASSUME NEW B, NEW p, NEW b, NEW c, NEW m, NEW L, NEW h, Struct(B, p, b, c, m, L, h),
         NEW i \in 1..Len(c), NEW cl \in Class, SameRegion(c[i], cl),
         NEW N, BlocksOk(N), SameElsewhere(L, N, i, Len(c)),
         ClassOk(B, cl, m, OfClass(N, i), h.strays)
  PROVE  Struct(B, p, b, [c EXCEPT ![i] = cl], m, N, h)
  <1> DEFINE d == [c EXCEPT ![i] = cl]
  <1>1. /\ Ground(B, p, b, c) /\ HistOk(h) /\ c \in Seq(Class) /\ Len(c) \in Nat
        /\ Regions(B, b, c) /\ BuildOk(B) /\ StackOk(p, B.pcap) /\ StackOk(b, B.scap)
    BY StructFacts, GroundFacts
  <1>2. /\ d \in Seq(Class) /\ Len(d) = Len(c) /\ d[i] = cl
        /\ \A j \in 1..Len(c) : j # i => d[j] = c[j]
    BY <1>1
  <1> HIDE DEF d
  <1>3. Regions(B, b, d)
    <2>1. ASSUME NEW j \in 1..Len(c)
          PROVE  d[j].off = c[j].off /\ d[j].stride = c[j].stride /\ d[j].slots = c[j].slots
      <3>1. CASE j = i
        BY <1>2, <3>1 DEF SameRegion
      <3>2. CASE j # i
        BY <1>2, <3>2
      <3> QED BY <3>1, <3>2
    <2>2. ASSUME NEW j \in 1..Len(c)
          PROVE  /\ d[j].slots = B.slots /\ IsPowerOfTwo(d[j].stride)
                 /\ d[j].off = b.frames[j].off
                 /\ d[j].off + d[j].slots * d[j].stride <= Bound(b, j + 1)
                 /\ (B.sbase + d[j].off) % d[j].stride = 0
      <3>1. d[j].off = c[j].off /\ d[j].stride = c[j].stride /\ d[j].slots = c[j].slots
        BY <2>1
      <3>2. /\ c[j].slots = B.slots /\ IsPowerOfTwo(c[j].stride)
            /\ c[j].off = b.frames[j].off
            /\ c[j].off + c[j].slots * c[j].stride <= Bound(b, j + 1)
            /\ (B.sbase + c[j].off) % c[j].stride = 0
        BY <1>1 DEF Regions
      <3> QED BY <3>1, <3>2, Zenon
    <2> QED BY <1>1, <1>2, <2>2 DEF Regions
  <1>4. Ground(B, p, b, d)
    BY <1>1, <1>3 DEF Ground
  <1>5. ASSUME NEW j \in 1..Len(c) PROVE ClassOk(B, d[j], m, OfClass(N, j), h.strays)
    <2>1. CASE j = i
      BY <1>2, <2>1
    <2>2. CASE j # i
      <3>1. OfClass(N, j) = OfClass(L, j) /\ d[j] = c[j]
        BY <1>2, <2>2 DEF SameElsewhere
      <3> QED BY <3>1, StructFacts
    <2> QED BY <2>1, <2>2
  <1>6. /\ StackBlocks(p, B.pbase, 1, OfHome(N, "primary"), h.pignored)
        /\ StackBlocks(b, B.sbase, Len(d) + 1, OfHome(N, "backing"), Len(d) + h.bignored)
        /\ m = [a \in Cells(B) |-> m[a]]
        /\ \A x \in OfHome(N, "class") : x.class \in 1..Len(d)
    BY <1>2, StructFacts DEF SameElsewhere
  <1>7. Struct(B, p, b, d, m, N, h)
    BY <1>1, <1>2, <1>4, <1>5, <1>6 DEF Struct
  <1> QED BY <1>7 DEF d

-----------------------------------------------------------------------------
(* A free, by the home of the block. *)
LEMMA HomeRemove ==
  ASSUME NEW L, NEW x, NEW w
  PROVE  OfHome(L \ {x}, w) = OfHome(L, w) \ {x}
BY DEF OfHome

LEMMA HomeRemoveOther ==
  ASSUME NEW L, NEW x, NEW w, x.home # w
  PROVE  OfHome(L \ {x}, w) = OfHome(L, w)
BY DEF OfHome

LEMMA ClassRemove ==
  ASSUME NEW L, NEW x, NEW w
  PROVE  OfClass(L \ {x}, w) = OfClass(L, w) \ {x}
BY DEF OfClass

LEMMA ClassRemoveOther ==
  ASSUME NEW L, NEW x, NEW w, x.home # "class" \/ x.class # w
  PROVE  OfClass(L \ {x}, w) = OfClass(L, w)
BY DEF OfClass

LEMMA HomeAdd ==
  ASSUME NEW L, NEW x, NEW w, x.home = w
  PROVE  OfHome(L \cup {x}, w) = OfHome(L, w) \cup {x}
BY DEF OfHome

LEMMA HomeAddOther ==
  ASSUME NEW L, NEW x, NEW w, x.home # w
  PROVE  OfHome(L \cup {x}, w) = OfHome(L, w)
BY DEF OfHome

LEMMA ClassAdd ==
  ASSUME NEW L, NEW x, NEW w, x.home = "class", x.class = w
  PROVE  OfClass(L \cup {x}, w) = OfClass(L, w) \cup {x}
BY DEF OfClass

LEMMA ClassAddOther ==
  ASSUME NEW L, NEW x, NEW w, x.home # "class" \/ x.class # w
  PROVE  OfClass(L \cup {x}, w) = OfClass(L, w)
BY DEF OfClass

LEMMA FreePrimary ==
  ASSUME NEW B, NEW p, NEW b, NEW c, NEW m, NEW L, NEW h, Struct(B, p, b, c, m, L, h),
         NEW x \in L, x.home = "primary", NEW g, g.strays = h.strays, g.bignored = h.bignored,
         g.pignored = h.pignored + Ignored(p, x.ptr - B.pbase)
  PROVE  Struct(B, StackFree(p, x.ptr - B.pbase), b, c, m, L \ {x}, g)
  <1> DEFINE X == OfHome(L, "primary")
             ns == StackFree(p, x.ptr - B.pbase)
  <1>1. /\ Ground(B, p, b, c) /\ BlocksOk(L) /\ HistOk(h) /\ B.pbase \in Nat /\ B.pcap \in Nat
        /\ StackOk(p, B.pcap) /\ StackOk(b, B.scap) /\ Regions(B, b, c) /\ BuildOk(B)
    BY StructFacts, GroundFacts
  <1>2. /\ x \in X /\ IsFiniteSet(X) /\ h.pignored \in Nat
        /\ StackBlocks(p, B.pbase, 1, X, h.pignored)
        /\ \A y \in X : y.ptr = x.ptr => y = x
    <2>1. x \in X /\ IsFiniteSet(X) /\ h.pignored \in Nat /\ StackBlocks(p, B.pbase, 1, X, h.pignored)
      BY <1>1, HomeFinite, StructFacts DEF OfHome, HistOk
    <2>2. \A y \in X : y \in L /\ y.home = "primary"
      BY DEF OfHome
    <2>3. \A y \in L : y.home = "primary" => y.size > 0
      BY <1>1 DEF BlocksOk, BlockOk
    <2> QED BY <1>1, <2>1, <2>2, <2>3 DEF BlocksOk
  <1> HIDE DEF X
  <1>3. /\ StackOk(ns, B.pcap)
        /\ StackBlocks(ns, B.pbase, 1, X \ {x}, h.pignored + Ignored(p, x.ptr - B.pbase))
    <2>1. 1 \in Nat \ {0}
      OBVIOUS
    <2> QED BY <1>1, <1>2, <2>1, StackFreed
  <1>4. Ground(B, ns, b, c)
    BY <1>1, <1>3 DEF Ground
  <1>5. BlocksOk(L \ {x})
    BY <1>1, BlocksRemove
  <1>6. HistOk(g)
    BY <1>1 DEF HistOk, Ignored
  <1>7. OfHome(L \ {x}, "primary") = X \ {x}
    BY HomeRemove DEF X
  <1>8. OfHome(L \ {x}, "backing") = OfHome(L, "backing") /\ OfHome(L \ {x}, "class") = OfHome(L, "class")
    <2>1. x.home # "backing" /\ x.home # "class"
      OBVIOUS
    <2> QED BY <2>1, HomeRemoveOther, Zenon
  <1>9. \A i \in 1..Len(c) : OfClass(L \ {x}, i) = OfClass(L, i)
    <2>1. x.home # "class"
      OBVIOUS
    <2> QED BY <2>1, ClassRemoveOther, Zenon
  <1>10. StackBlocks(ns, B.pbase, 1, OfHome(L \ {x}, "primary"), g.pignored)
    BY <1>3, <1>7
  <1>11. StackBlocks(b, B.sbase, Len(c) + 1, OfHome(L \ {x}, "backing"), Len(c) + g.bignored)
    BY <1>8, StructFacts
  <1>12. \A i \in 1..Len(c) : ClassOk(B, c[i], m, OfClass(L \ {x}, i), g.strays)
    <2>1. \A i \in 1..Len(c) : ClassOk(B, c[i], m, OfClass(L, i), g.strays)
      BY StructFacts
    <2> QED BY <1>9, <2>1, Zenon
  <1>13. (\A y \in OfHome(L \ {x}, "class") : y.class \in 1..Len(c)) /\ m = [a \in Cells(B) |-> m[a]]
    BY <1>8, StructFacts
  <1> HIDE DEF ns
  <1>14. Struct(B, ns, b, c, m, L \ {x}, g)
    BY <1>4, <1>5, <1>6, <1>10, <1>11, <1>12, <1>13 DEF Struct
  <1> QED BY <1>14 DEF ns

LEMMA FreeBacking ==
  ASSUME NEW B, NEW p, NEW b, NEW c, NEW m, NEW L, NEW h, Struct(B, p, b, c, m, L, h),
         NEW x \in L, x.home = "backing", NEW g, g.strays = h.strays, g.pignored = h.pignored,
         g.bignored = h.bignored + Ignored(b, x.ptr - B.sbase)
  PROVE  Struct(B, p, StackFree(b, x.ptr - B.sbase), c, m, L \ {x}, g)
  <1> DEFINE X == OfHome(L, "backing")
             ns == StackFree(b, x.ptr - B.sbase)
             d == Ignored(b, x.ptr - B.sbase)
  <1>1. /\ Ground(B, p, b, c) /\ BlocksOk(L) /\ HistOk(h) /\ B.sbase \in Nat /\ B.scap \in Nat
        /\ StackOk(p, B.pcap) /\ StackOk(b, B.scap) /\ Regions(B, b, c) /\ BuildOk(B)
        /\ Len(c) \in Nat
    BY StructFacts, GroundFacts
  <1>2. /\ x \in X /\ IsFiniteSet(X) /\ Len(c) + h.bignored \in Nat /\ h.bignored \in Nat
        /\ StackBlocks(b, B.sbase, Len(c) + 1, X, Len(c) + h.bignored)
        /\ \A y \in X : y.ptr = x.ptr => y = x
    <2>1. /\ x \in X /\ IsFiniteSet(X) /\ h.bignored \in Nat
          /\ StackBlocks(b, B.sbase, Len(c) + 1, X, Len(c) + h.bignored)
      BY <1>1, HomeFinite, StructFacts DEF OfHome, HistOk
    <2>2. \A y \in X : y \in L /\ y.home = "backing"
      BY DEF OfHome
    <2>3. \A y \in L : y.home = "backing" => y.size > 0
      BY <1>1 DEF BlocksOk, BlockOk
    <2> QED BY <1>1, <2>1, <2>2, <2>3 DEF BlocksOk
  <1> HIDE DEF X
  <1>3. /\ StackOk(ns, B.scap)
        /\ StackBlocks(ns, B.sbase, Len(c) + 1, X \ {x}, (Len(c) + h.bignored) + d)
        /\ KeepsBelow(b, ns, Len(c) + 1)
    <2>1. Len(c) + 1 \in Nat \ {0}
      BY <1>1
    <2> QED BY <1>1, <1>2, <2>1, StackFreed
  <1>4. Ground(B, p, ns, c)
    <2>2. Regions(B, ns, c)
      BY <1>1, <1>3, RegionsKept
    <2> QED BY <1>1, <1>3, <2>2 DEF Ground
  <1>5. BlocksOk(L \ {x})
    BY <1>1, BlocksRemove
  <1>6. HistOk(g)
    BY <1>1 DEF HistOk, Ignored
  <1>7. OfHome(L \ {x}, "backing") = X \ {x}
    BY HomeRemove DEF X
  <1>8. OfHome(L \ {x}, "primary") = OfHome(L, "primary") /\ OfHome(L \ {x}, "class") = OfHome(L, "class")
    <2>1. x.home # "primary" /\ x.home # "class"
      OBVIOUS
    <2> QED BY <2>1, HomeRemoveOther, Zenon
  <1>9. \A i \in 1..Len(c) : OfClass(L \ {x}, i) = OfClass(L, i)
    <2>1. x.home # "class"
      OBVIOUS
    <2> QED BY <2>1, ClassRemoveOther, Zenon
  <1>10. StackBlocks(p, B.pbase, 1, OfHome(L \ {x}, "primary"), g.pignored)
    BY <1>8, StructFacts
  <1>11. StackBlocks(ns, B.sbase, Len(c) + 1, OfHome(L \ {x}, "backing"), Len(c) + g.bignored)
    <2>1. d \in Nat
      BY DEF Ignored
    <2> HIDE DEF d
    <2>2. (Len(c) + h.bignored) + d = Len(c) + (h.bignored + d)
      BY <1>1, <1>2, <2>1
    <2>3. g.bignored = h.bignored + d
      BY DEF d
    <2> QED BY <1>3, <1>7, <2>2, <2>3
  <1>12. \A i \in 1..Len(c) : ClassOk(B, c[i], m, OfClass(L \ {x}, i), g.strays)
    <2>1. \A i \in 1..Len(c) : ClassOk(B, c[i], m, OfClass(L, i), g.strays)
      BY StructFacts
    <2> QED BY <1>9, <2>1, Zenon
  <1>13. (\A y \in OfHome(L \ {x}, "class") : y.class \in 1..Len(c)) /\ m = [a \in Cells(B) |-> m[a]]
    BY <1>8, StructFacts
  <1> HIDE DEF ns
  <1>14. Struct(B, p, ns, c, m, L \ {x}, g)
    BY <1>4, <1>5, <1>6, <1>10, <1>11, <1>12, <1>13 DEF Struct
  <1> QED BY <1>14 DEF ns

(* A slot put at the head of its list: it holds the link to the old head.  *)
WithHead(cl, n) == [cl EXCEPT !.head = n]

LEMMA ListPush ==
  ASSUME NEW at, NEW cl \in Class, NEW m, NEW fl \in [Nat -> Nat], NEW lo \in Nat, NEW hi \in Nat,
         NEW strays \in Nat, ListOk(at, cl, m, fl, lo, hi, strays), NEW q \in 0..(cl.next - 1),
         \A k \in lo..hi : fl[k] # q, m[SlotAddr(at, cl, q)] = LinkTo(cl.head)
  PROVE  ListOk(at, WithHead(cl, q + 1), m, [fl EXCEPT ![hi + 1] = q], lo, hi + 1, strays)
  <1> DEFINE nc == WithHead(cl, q + 1)
             nl == [fl EXCEPT ![hi + 1] = q]
  <1>1. /\ nc.head = q + 1 /\ nc.next = cl.next /\ nc.slots = cl.slots /\ nc.events = cl.events
        /\ nc.off = cl.off /\ nc.stride = cl.stride
    BY DEF Class, WithHead
  <1>2. nl[hi + 1] = q /\ \A k \in lo..hi : nl[k] = fl[k]
    OBVIOUS
  <1>3. \A k : SlotAddr(at, nc, k) = SlotAddr(at, cl, k)
    BY <1>1 DEF SlotAddr
  <1>4. cl.next \in Nat /\ cl.slots \in Nat /\ cl.events \in Nat
    BY DEF Class
  <1> HIDE DEF nc, nl
  <1>5. \A k \in lo..(hi + 1) : k \in lo..hi \/ k = hi + 1
    OBVIOUS
  <1>6. lo <= hi + 1 /\ lo \in Nat \ {0}
    BY DEF ListOk
  <1>7. \A k \in lo..(hi + 1) : nl[k] \in 0..(nc.next - 1)
    BY <1>1, <1>2, <1>5 DEF ListOk
  <1>8. ASSUME NEW j \in lo..(hi + 1), NEW k \in lo..(hi + 1), nl[j] = nl[k] PROVE j = k
    BY <1>2, <1>5, <1>8 DEF ListOk
  <1>9. nc.head = IF lo <= hi + 1 THEN nl[hi + 1] + 1 ELSE 0
    BY <1>1, <1>2, <1>6
  <1>10. ASSUME NEW k \in lo..(hi + 1), k > lo
         PROVE  m[SlotAddr(at, nc, nl[k])] = LinkTo(nl[k - 1] + 1)
    <2>1. CASE k \in lo..hi
      <3>1. k - 1 \in lo..hi
        BY <1>10, <2>1, <1>6
      <3>2. m[SlotAddr(at, cl, fl[k])] = LinkTo(fl[k - 1] + 1)
        BY <1>10, <2>1 DEF ListOk
      <3> QED BY <1>2, <1>3, <2>1, <3>1, <3>2
    <2>2. CASE k = hi + 1
      <3>1. lo <= hi /\ hi \in lo..hi /\ k - 1 = hi
        BY <1>10, <2>2
      <3>2. cl.head = fl[hi] + 1
        BY <3>1 DEF ListOk
      <3>3. nl[k] = q /\ nl[k - 1] = fl[hi]
        BY <1>2, <2>2, <3>1
      <3> QED BY <1>3, <3>2, <3>3
    <2> QED BY <1>5, <2>1, <2>2
  <1>11. CASE lo <= hi
    <2>1. lo \in lo..hi /\ nl[lo] = fl[lo]
      BY <1>2, <1>11
    <2>2. m[SlotAddr(at, nc, nl[lo])] \in {LinkTo(0), LinkTo(nc.slots + 1)}
      BY <1>1, <1>3, <1>11, <2>1 DEF ListOk
    <2>3. m[SlotAddr(at, nc, nl[lo])] # LinkTo(0) => nc.events < strays
      BY <1>1, <1>3, <1>11, <2>1 DEF ListOk
    <2>4. nc.events <= strays /\ nc.next <= nc.slots
      BY <1>1 DEF ListOk
    <2> QED BY <1>6, <1>7, <1>8, <1>9, <1>10, <2>2, <2>3, <2>4 DEF ListOk, nc, nl
  <1>12. CASE ~(lo <= hi)
    <2>1. lo = hi + 1 /\ cl.head = 0
      BY <1>6, <1>12 DEF ListOk
    <2>2. m[SlotAddr(at, nc, nl[lo])] = LinkTo(0)
      BY <1>2, <1>3, <2>1
    <2>3. nc.events <= strays /\ nc.next <= nc.slots
      BY <1>1 DEF ListOk
    <2> QED BY <1>6, <1>7, <1>8, <1>9, <1>10, <2>2, <2>3 DEF ListOk, nc, nl
  <1> QED BY <1>11, <1>12

LEMMA SlotsPush ==
  ASSUME NEW at \in Nat, NEW cl \in Class, NEW fl \in [Nat -> Nat], NEW lo \in Nat, NEW hi \in Nat,
         lo <= hi + 1, NEW strays \in Nat, NEW X, IsFiniteSet(X), SlotsOk(at, cl, X, fl, lo, hi, strays),
         NEW x \in X, NEW q \in 0..(cl.next - 1), x.ptr = SlotAddr(at, cl, q),
         \A y \in X : y.ptr = x.ptr => y = x
  PROVE  SlotsOk(at, WithHead(cl, q + 1), X \ {x}, [fl EXCEPT ![hi + 1] = q], lo, hi + 1, strays)
  <1> DEFINE nc == WithHead(cl, q + 1)
             nl == [fl EXCEPT ![hi + 1] = q]
  <1>1. /\ nc.next = cl.next /\ nc.off = cl.off /\ nc.stride = cl.stride /\ cl.next \in Nat
    BY DEF Class, WithHead
  <1>2. nl[hi + 1] = q /\ \A k \in lo..hi : nl[k] = fl[k]
    OBVIOUS
  <1>3. \A k : SlotAddr(at, nc, k) = SlotAddr(at, cl, k)
    BY <1>1 DEF SlotAddr
  <1> HIDE DEF nc, nl
  <1>4. \A k \in lo..(hi + 1) : k \in lo..hi \/ k = hi + 1
    OBVIOUS
  <1>5. ASSUME NEW y \in X \ {x}
        PROVE  /\ y.size <= nc.stride
               /\ \E r \in 0..(nc.next - 1) :
                    y.ptr = SlotAddr(at, nc, r) /\ \A k \in lo..(hi + 1) : nl[k] # r
    <2>1. y.size <= cl.stride
      BY DEF SlotsOk
    <2>2. PICK r \in 0..(cl.next - 1) : y.ptr = SlotAddr(at, cl, r) /\ \A k \in lo..hi : fl[k] # r
      BY DEF SlotsOk
    <2>3. r # q
      BY <1>5, <2>2
    <2>4. \A k \in lo..(hi + 1) : nl[k] # r
      BY <1>2, <1>4, <2>2, <2>3
    <2> QED BY <1>1, <1>3, <2>1, <2>2, <2>4
  <1>6. Cardinality(X) \in Nat /\ Cardinality(X \ {x}) = Cardinality(X) - 1
    BY FS_CardinalityType, FS_RemoveElement
  <1>7. ASSUME strays = 0 PROVE ((hi + 1) + 1 - lo) + Cardinality(X \ {x}) = nc.next
    <2>1. (hi + 1 - lo) + Cardinality(X) = cl.next
      BY <1>7 DEF SlotsOk
    <2> QED BY <1>1, <1>6, <2>1
  <1>8. SlotsOk(at, nc, X \ {x}, nl, lo, hi + 1, strays)
    BY <1>5, <1>7 DEF SlotsOk
  <1> QED BY <1>8 DEF nc, nl

LEMMA SlotIndex ==
  ASSUME NEW at \in Nat, NEW cl \in Class, NEW q \in Nat, NEW ptr, ptr = SlotAddr(at, cl, q)
  PROVE  /\ IsSlot(at, cl, ptr)
         /\ ClassAfterFree(at, cl, ptr) = WithHead(cl, q + 1)
  <1>1. cl.off \in Nat /\ cl.stride \in Nat \ {0}
    BY DEF Class
  <1>2. PICK off \in Nat, stride \in Nat : off = cl.off /\ stride = cl.stride /\ stride > 0
    BY <1>1
  <1>3. q * stride \in Nat
    BY TimesNat
  <1>4. ptr - (at + cl.off) = q * stride
    <2>1. ptr = at + off + q * stride
      BY <1>2 DEF SlotAddr
    <2> DEFINE y == q * stride
    <2> HIDE DEF y
    <2>2. at + off + y - (at + off) = y
      BY <1>3 DEF y
    <2> QED BY <1>2, <2>1, <2>2 DEF y
  <1>5. q * stride = q * stride + 0
    BY <1>3
  <1>6. (q * stride) \div stride = q /\ (q * stride) % stride = 0
    BY <1>2, <1>3, <1>5, DivUnique, SMTT(30)
  <1>7. (ptr - (at + cl.off)) % cl.stride = 0 /\ (ptr - (at + cl.off)) \div cl.stride = q
    BY <1>2, <1>4, <1>6
  <1>8. IsSlot(at, cl, ptr)
    BY <1>7 DEF IsSlot
  <1> QED BY <1>7, <1>8 DEF ClassAfterFree, WithHead

LEMMA FreeClass ==
  ASSUME NEW B, NEW p, NEW b, NEW c, NEW m, NEW L, NEW h, Struct(B, p, b, c, m, L, h),
         NEW x \in L, x.home = "class", NEW i, i = x.class
  PROVE  /\ i \in 1..Len(c) /\ IsSlot(B.sbase, c[i], x.ptr)
         /\ WritesOnly(B, m, [m EXCEPT ![x.ptr] = LinkTo(c[i].head)], x.ptr, Extent(x, c))
         /\ Struct(B, p, b, [c EXCEPT ![i] = ClassAfterFree(B.sbase, @, x.ptr)],
                   [m EXCEPT ![x.ptr] = LinkTo(c[i].head)], L \ {x}, h)
  <1> DEFINE n == [m EXCEPT ![x.ptr] = LinkTo(c[i].head)]
             X == OfClass(L, i)
  <1>1. /\ Ground(B, p, b, c) /\ BlocksOk(L) /\ HistOk(h) /\ B.sbase \in Nat /\ c \in Seq(Class)
        /\ h.strays \in Nat
    BY StructFacts, GroundFacts DEF HistOk
  <1>2. i \in 1..Len(c) /\ Extent(x, c) = c[i].stride
    BY ClassPlace
  <1>3. x.size > 0 /\ x.ptr \in Nat
    BY <1>1 DEF BlocksOk, BlockOk
  <1>4. c[i] \in Class /\ c[i].stride \in Nat \ {0}
    BY <1>1, <1>2, ClassFields
  <1>5. x.ptr \in Span(x.ptr, Extent(x, c))
    BY <1>2, <1>3, <1>4, SelfSpan
  <1>6. m = [a \in Cells(B) |-> m[a]]
    BY StructFacts
  <1>7. x.ptr \in Cells(B)
    <2>1. PICK q \in Nat : Place(B, p, b, c, "backing", x.class, q, x.ptr, Extent(x, c))
      BY ClassPlace
    <2>2. Extent(x, c) \in Nat
      BY <1>2, <1>4
    <2> QED BY <1>1, <1>5, <2>1, <2>2, PlaceCells
  <1>8. n = [a \in Cells(B) |-> n[a]] /\ n[x.ptr] = LinkTo(c[i].head)
        /\ \A a \in Cells(B) : a # x.ptr => n[a] = m[a]
    BY <1>6, <1>7
  <1> HIDE DEF n
  <1>9. WritesOnly(B, m, n, x.ptr, Extent(x, c))
    <2>1. \A a \in Cells(B) : a \notin Span(x.ptr, Extent(x, c)) => n[a] = m[a]
      BY <1>5, <1>8
    <2> QED BY <1>8, <2>1 DEF WritesOnly
  <1>10. Struct(B, p, b, c, n, L, h)
    BY <1>3, <1>9, WriteLive
  <1>11. PICK fl \in [Nat -> Nat], lo \in Nat, hi \in Nat :
           /\ ListOk(B.sbase, c[i], n, fl, lo, hi, h.strays)
           /\ SlotsOk(B.sbase, c[i], X, fl, lo, hi, h.strays)
    BY <1>2, <1>10, StructFacts DEF ClassOk
  <1>12. x \in X /\ IsFiniteSet(X)
    BY <1>1, HomeFinite, ZenonT(30) DEF OfClass
  <1>13. \A y \in X : y.ptr = x.ptr => y = x
    <2>1. \A y \in X : y \in L /\ y.home = "class"
      BY DEF OfClass
    <2>2. \A y \in L : y.home = "class" => y.size > 0
      BY <1>1, HomeSized
    <2> QED BY <1>1, <1>3, <2>1, <2>2 DEF BlocksOk
  <1> HIDE DEF X
  <1>14. PICK q \in 0..(c[i].next - 1) :
           x.ptr = SlotAddr(B.sbase, c[i], q) /\ \A k \in lo..hi : fl[k] # q
    BY <1>11, <1>12 DEF SlotsOk
  <1> DEFINE nc == WithHead(c[i], q + 1)
             nl == [fl EXCEPT ![hi + 1] = q]
  <1>15. q \in Nat /\ nc \in Class /\ nl \in [Nat -> Nat] /\ hi + 1 \in Nat
         /\ nc.off = c[i].off /\ nc.stride = c[i].stride /\ nc.slots = c[i].slots
    <2>1. c[i].next \in Nat
      BY <1>4 DEF Class
    <2>2. q \in Nat
      BY <2>1
    <2> QED BY <1>4, <2>2 DEF Class, WithHead
  <1>16. IsSlot(B.sbase, c[i], x.ptr) /\ ClassAfterFree(B.sbase, c[i], x.ptr) = nc
    <2>1. PICK cl \in Class : cl = c[i]
      BY <1>4
    <2>2. x.ptr = SlotAddr(B.sbase, cl, q)
      BY <1>14, <2>1
    <2>3. q \in Nat /\ B.sbase \in Nat
      BY <1>1, <1>15
    <2>4. PICK at \in Nat : at = B.sbase
      BY <2>3
    <2>5. x.ptr = SlotAddr(at, cl, q)
      BY <2>2, <2>4
    <2>6. IsSlot(at, cl, x.ptr)
      BY <2>3, <2>5, SlotIndex
    <2>7. ClassAfterFree(at, cl, x.ptr) = WithHead(cl, q + 1)
      BY <2>3, <2>5, SlotIndex
    <2> QED BY <2>1, <2>4, <2>6, <2>7
  <1>17. ListOk(B.sbase, nc, n, nl, lo, hi + 1, h.strays)
    BY <1>1, <1>4, <1>8, <1>11, <1>14, ListPush
  <1>18. SlotsOk(B.sbase, nc, X \ {x}, nl, lo, hi + 1, h.strays)
    <2>1. lo <= hi + 1
      BY <1>11 DEF ListOk
    <2> QED BY <1>1, <1>4, <1>11, <1>12, <1>13, <1>14, <2>1, SlotsPush
  <1> HIDE DEF nc, nl
  <1>19. OfClass(L \ {x}, i) = X \ {x}
    BY ClassRemove DEF X
  <1>20. ClassOk(B, nc, n, OfClass(L \ {x}, i), h.strays)
    <2>1. SlotsOk(B.sbase, nc, OfClass(L \ {x}, i), nl, lo, hi + 1, h.strays)
      BY <1>18, <1>19
    <2> QED BY <1>15, <1>17, <2>1, Zenon DEF ClassOk
  <1>21. BlocksOk(L \ {x})
    BY <1>1, BlocksRemove
  <1>22. SameElsewhere(L, L \ {x}, i, Len(c))
    <2>1. x.home # "primary" /\ x.home # "backing"
      OBVIOUS
    <2>2. /\ OfHome(L \ {x}, "primary") = OfHome(L, "primary")
          /\ OfHome(L \ {x}, "backing") = OfHome(L, "backing")
      BY <2>1, HomeRemoveOther, Zenon
    <2>3. \A j \in 1..Len(c) : j # i => OfClass(L \ {x}, j) = OfClass(L, j)
      BY ClassRemoveOther, Zenon
    <2>4. \A y \in OfHome(L \ {x}, "class") : y \in OfHome(L, "class")
      BY DEF OfHome
    <2>5. \A y \in OfHome(L \ {x}, "class") : y.class \in 1..Len(c)
      BY <1>10, <2>4, StructFacts
    <2> QED BY <2>2, <2>3, <2>5 DEF SameElsewhere
  <1>23. SameRegion(c[i], nc)
    BY <1>15 DEF SameRegion
  <1>25. Struct(B, p, b, [c EXCEPT ![i] = nc], n, L \ {x}, h)
    BY <1>2, <1>10, <1>15, <1>20, <1>21, <1>22, <1>23, ClassStep
  <1>26. [c EXCEPT ![i] = ClassAfterFree(B.sbase, @, x.ptr)] = [c EXCEPT ![i] = nc]
    BY <1>16
  <1>27. Struct(B, p, b, [c EXCEPT ![i] = ClassAfterFree(B.sbase, @, x.ptr)], n, L \ {x}, h)
    BY <1>25, <1>26
  <1> QED BY <1>2, <1>9, <1>16, <1>27 DEF n

-----------------------------------------------------------------------------
(* An allocation, by where the block comes from. *)
LEMMA SlotsDiffer ==
  ASSUME NEW at \in Nat, NEW cl \in Class, NEW q \in Nat, NEW r \in Nat, q # r
  PROVE  SlotAddr(at, cl, q) # SlotAddr(at, cl, r)
  <1>1. cl.off \in Nat /\ cl.stride \in Nat \ {0}
    BY DEF Class
  <1>2. PICK off \in Nat, stride \in Nat : off = cl.off /\ stride = cl.stride /\ stride > 0
    BY <1>1
  <1>3. q * stride \in Nat /\ r * stride \in Nat
    BY TimesNat
  <1>4. q * stride # r * stride
    <2>1. CASE q < r
      BY <1>2, <1>3, <2>1, SlotGap
    <2>2. CASE r < q
      BY <1>2, <1>3, <2>2, SlotGap
    <2> QED BY <2>1, <2>2
  <1> DEFINE y == q * stride
             z == r * stride
  <1> HIDE DEF y, z
  <1>5. at + off + y # at + off + z
    BY <1>3, <1>4 DEF y, z
  <1> QED BY <1>2, <1>5 DEF SlotAddr, y, z

LEMMA LinkValue ==
  ASSUME NEW n
  PROVE  LinkTo(n)[2] = n
BY DEF LinkTo

(* The head of the list taken. *)
LEMMA ListPop ==
  ASSUME NEW at \in Nat, NEW cl \in Class, NEW m, NEW fl \in [Nat -> Nat], NEW lo \in Nat,
         NEW hi \in Nat, NEW strays \in Nat, ListOk(at, cl, m, fl, lo, hi, strays), lo <= hi,
         LinkIntact(cl, m[SlotAddr(at, cl, fl[hi])][2])
  PROVE  /\ hi - 1 \in Nat /\ m[SlotAddr(at, cl, fl[hi])][2] \in Nat
         /\ ListOk(at, WithHead(cl, m[SlotAddr(at, cl, fl[hi])][2]), m, fl, lo, hi - 1, strays)
  <1> DEFINE v == m[SlotAddr(at, cl, fl[hi])][2]
             nc == WithHead(cl, v)
  <1>0. /\ lo \in Nat \ {0} /\ cl.next <= cl.slots /\ cl.slots \in Nat /\ cl.events <= strays
        /\ \A k \in lo..hi : fl[k] \in 0..(cl.next - 1)
        /\ \A j, k \in lo..hi : fl[j] = fl[k] => j = k
        /\ \A k \in lo..hi : k > lo => m[SlotAddr(at, cl, fl[k])] = LinkTo(fl[k - 1] + 1)
        /\ m[SlotAddr(at, cl, fl[lo])] \in {LinkTo(0), LinkTo(cl.slots + 1)}
        /\ m[SlotAddr(at, cl, fl[lo])] # LinkTo(0) => cl.events < strays
    BY DEF ListOk, Class
  <1>1. hi - 1 \in Nat /\ lo <= (hi - 1) + 1 /\ hi \in lo..hi /\ lo \in lo..hi
        /\ \A k \in lo..(hi - 1) : k \in lo..hi
    BY <1>0
  <1>2. v = (IF lo <= hi - 1 THEN fl[hi - 1] + 1 ELSE 0) /\ v \in Nat
    <2>1. CASE lo < hi
      <3>1. v = fl[hi - 1] + 1
        BY <1>0, <1>1, <2>1, LinkValue
      <3>2. fl[hi - 1] \in Nat /\ lo <= hi - 1
        BY <1>1, <2>1
      <3> QED BY <3>1, <3>2
    <2>2. CASE lo = hi
      <3>1. v = 0 \/ v = cl.slots + 1
        BY <1>0, <2>2, LinkValue
      <3>2. v <= cl.slots
        BY DEF LinkIntact
      <3>3. v = 0 /\ ~(lo <= hi - 1)
        BY <1>0, <3>1, <3>2, <2>2
      <3> QED BY <3>3
    <2> QED BY <2>1, <2>2
  <1> HIDE DEF v
  <1>3. /\ nc.head = v /\ nc.next = cl.next /\ nc.slots = cl.slots /\ nc.events = cl.events
        /\ nc.off = cl.off /\ nc.stride = cl.stride
    BY DEF Class, WithHead
  <1> HIDE DEF nc
  <1>4. \A k : SlotAddr(at, nc, k) = SlotAddr(at, cl, k)
    BY <1>3 DEF SlotAddr
  <1>5. ListOk(at, nc, m, fl, lo, hi - 1, strays)
    BY <1>0, <1>1, <1>2, <1>3, <1>4 DEF ListOk
  <1> QED BY <1>1, <1>2, <1>5 DEF nc, v

LEMMA SlotsPop ==
  ASSUME NEW at \in Nat, NEW cl \in Class, NEW m, NEW fl \in [Nat -> Nat], NEW lo \in Nat,
         NEW hi \in Nat, NEW strays \in Nat, ListOk(at, cl, m, fl, lo, hi, strays), lo <= hi,
         NEW X, IsFiniteSet(X), SlotsOk(at, cl, X, fl, lo, hi, strays), NEW v,
         NEW x, x.ptr = SlotAddr(at, cl, fl[hi]), x.size <= cl.stride
  PROVE  /\ fl[hi] \in 0..(cl.slots - 1)
         /\ \A y \in X : y.ptr # x.ptr
         /\ SlotsOk(at, WithHead(cl, v), X \cup {x}, fl, lo, hi - 1, strays)
  <1> DEFINE nc == WithHead(cl, v)
             q == fl[hi]
  <1>1. /\ nc.next = cl.next /\ nc.off = cl.off /\ nc.stride = cl.stride /\ cl.next \in Nat
        /\ cl.slots \in Nat
    BY DEF Class, WithHead
  <1> HIDE DEF nc
  <1>2. \A k : SlotAddr(at, nc, k) = SlotAddr(at, cl, k)
    BY <1>1 DEF SlotAddr
  <1>3. hi \in lo..hi /\ \A k \in lo..(hi - 1) : k \in lo..hi /\ k # hi
    OBVIOUS
  <1>4. q \in 0..(cl.next - 1) /\ \A k \in lo..(hi - 1) : fl[k] # q
    BY <1>3 DEF ListOk
  <1>5. q \in 0..(cl.slots - 1)
    BY <1>1, <1>4 DEF ListOk
  <1>6. ASSUME NEW y \in X PROVE y.ptr # x.ptr
    <2>1. PICK r \in 0..(cl.next - 1) : y.ptr = SlotAddr(at, cl, r) /\ \A k \in lo..hi : fl[k] # r
      BY DEF SlotsOk
    <2>2. r # q /\ r \in Nat /\ q \in Nat
      BY <1>1, <1>3, <1>4, <2>1
    <2> HIDE DEF q
    <2>3. SlotAddr(at, cl, r) # SlotAddr(at, cl, q)
      BY <2>2, SlotsDiffer
    <2> QED BY <2>1, <2>3 DEF q
  <1>7. ASSUME NEW y \in X \cup {x}
        PROVE  /\ y.size <= nc.stride
               /\ \E r \in 0..(nc.next - 1) :
                    y.ptr = SlotAddr(at, nc, r) /\ \A k \in lo..(hi - 1) : fl[k] # r
    <2>1. CASE y \in X
      <3>1. y.size <= cl.stride
        BY <2>1 DEF SlotsOk
      <3>2. PICK r \in 0..(cl.next - 1) : y.ptr = SlotAddr(at, cl, r) /\ \A k \in lo..hi : fl[k] # r
        BY <2>1 DEF SlotsOk
      <3>3. \A k \in lo..(hi - 1) : fl[k] # r
        BY <1>3, <3>2
      <3> QED BY <1>1, <1>2, <3>1, <3>2, <3>3
    <2>2. CASE y = x
      BY <1>1, <1>2, <1>4, <2>2
    <2> QED BY <2>1, <2>2
  <1>8. Cardinality(X) \in Nat /\ Cardinality(X \cup {x}) = Cardinality(X) + 1
    BY <1>6, FS_CardinalityType, FS_AddElement
  <1>9. ASSUME strays = 0 PROVE ((hi - 1) + 1 - lo) + Cardinality(X \cup {x}) = nc.next
    <2>1. (hi + 1 - lo) + Cardinality(X) = cl.next
      BY <1>9 DEF SlotsOk
    <2> QED BY <1>1, <1>8, <2>1
  <1>10. SlotsOk(at, nc, X \cup {x}, fl, lo, hi - 1, strays)
    BY <1>7, <1>9 DEF SlotsOk
  <1> QED BY <1>5, <1>6, <1>10 DEF nc

(* A list whose head was overwritten is given up; one that is empty stays. *)
Cleared(cl, e, n) == [cl EXCEPT !.head = 0, !.events = e, !.next = n]

LEMMA ClearedFields ==
  ASSUME NEW cl \in Class, NEW e \in Nat, NEW n \in Nat
  PROVE  /\ Cleared(cl, e, n) \in Class /\ Cleared(cl, e, n).head = 0
         /\ SameRegion(cl, Cleared(cl, e, n))
         /\ Cleared(cl, e, n).events = e /\ Cleared(cl, e, n).next = n
  <1>1. Cleared(cl, e, n) \in Class
    BY DEF Cleared, Class
  <1>2. /\ Cleared(cl, e, n).head = 0 /\ Cleared(cl, e, n).events = e
        /\ Cleared(cl, e, n).next = n
    BY DEF Cleared, Class
  <1>3. SameRegion(cl, Cleared(cl, e, n))
    BY DEF Cleared, Class, SameRegion
  <1> QED BY <1>1, <1>2, <1>3

EventsAfter(cl) == IF cl.head # 0 THEN cl.events + 1 ELSE cl.events

Emptied(cl) == Cleared(cl, EventsAfter(cl), cl.next)

LEMMA EventsNat ==
  ASSUME NEW cl \in Class
  PROVE  EventsAfter(cl) \in Nat /\ cl.next \in Nat /\ cl.slots \in Nat
BY DEF EventsAfter, Class

LEMMA EmptiedFields ==
  ASSUME NEW cl \in Class
  PROVE  /\ Emptied(cl) \in Class /\ Emptied(cl).head = 0 /\ SameRegion(cl, Emptied(cl))
         /\ Emptied(cl).next = cl.next
         /\ Emptied(cl).events = IF cl.head # 0 THEN cl.events + 1 ELSE cl.events
  <1>1. PICK e \in Nat, n \in Nat : e = EventsAfter(cl) /\ n = cl.next
    BY EventsNat
  <1> DEFINE ec == Cleared(cl, e, n)
  <1>2. Emptied(cl) = ec
    BY <1>1 DEF Emptied
  <1>3. ec \in Class /\ SameRegion(cl, ec)
    BY ClearedFields
  <1>4. ec.head = 0 /\ ec.next = n /\ ec.events = e
    BY ClearedFields
  <1> HIDE DEF ec
  <1> QED BY <1>1, <1>2, <1>3, <1>4 DEF EventsAfter

LEMMA ListGivenUp ==
  ASSUME NEW at \in Nat, NEW cl \in Class, NEW m, NEW fl \in [Nat -> Nat], NEW lo \in Nat,
         NEW hi \in Nat, NEW strays \in Nat, ListOk(at, cl, m, fl, lo, hi, strays),
         ~TakesHead(at, cl, m), NEW X, IsFiniteSet(X), SlotsOk(at, cl, X, fl, lo, hi, strays)
  PROVE  /\ lo - 1 \in Nat /\ ListOk(at, Emptied(cl), m, fl, lo, lo - 1, strays)
         /\ SlotsOk(at, Emptied(cl), X, fl, lo, lo - 1, strays)
  <1> DEFINE nc == Emptied(cl)
  <1>1. /\ nc.head = 0 /\ nc.next = cl.next /\ nc.off = cl.off /\ nc.stride = cl.stride
        /\ nc.slots = cl.slots /\ nc.events = IF cl.head # 0 THEN cl.events + 1 ELSE cl.events
    BY EmptiedFields DEF SameRegion
  <1> HIDE DEF nc
  <1>2. cl.slots \in Nat /\ cl.events \in Nat /\ cl.next \in Nat
    BY DEF Class
  <1>3. \A k : SlotAddr(at, nc, k) = SlotAddr(at, cl, k)
    BY <1>1 DEF SlotAddr
  <1>4. /\ lo \in Nat \ {0} /\ lo <= hi + 1 /\ cl.next <= cl.slots /\ cl.events <= strays
        /\ \A k \in lo..hi : fl[k] \in 0..(cl.next - 1)
        /\ cl.head = (IF lo <= hi THEN fl[hi] + 1 ELSE 0)
        /\ \A k \in lo..hi : k > lo => m[SlotAddr(at, cl, fl[k])] = LinkTo(fl[k - 1] + 1)
        /\ lo <= hi => m[SlotAddr(at, cl, fl[lo])] \in {LinkTo(0), LinkTo(cl.slots + 1)}
        /\ lo <= hi /\ m[SlotAddr(at, cl, fl[lo])] # LinkTo(0) => cl.events < strays
    BY DEF ListOk
  <1>5. lo - 1 \in Nat /\ lo <= (lo - 1) + 1 /\ lo..(lo - 1) = {} /\ ~(lo <= lo - 1)
    BY <1>4
  <1>6. CASE ~(lo <= hi)
    <2>1. cl.head = 0 /\ lo - 1 = hi
      BY <1>4, <1>6
    <2>2. nc.events = cl.events
      BY <1>1, <2>1
    <2>3. ListOk(at, nc, m, fl, lo, lo - 1, strays)
      BY <1>1, <1>2, <1>4, <1>5, <2>2 DEF ListOk
    <2>4. SlotsOk(at, nc, X, fl, lo, lo - 1, strays)
      BY <1>1, <1>3, <2>1 DEF SlotsOk
    <2> QED BY <1>5, <2>3, <2>4 DEF nc
  <1>7. CASE lo <= hi
    <2>1. cl.head = fl[hi] + 1 /\ fl[hi] \in Nat /\ hi \in lo..hi
      BY <1>4, <1>7
    <2>2. cl.head # 0 /\ cl.head - 1 = fl[hi]
      BY <2>1
    <2>3. ~(m[SlotAddr(at, cl, fl[hi])][2] <= cl.slots)
      BY <2>2 DEF TakesHead, LinkIntact
    <2>4. lo = hi
      <3> SUFFICES ASSUME lo # hi PROVE FALSE
        OBVIOUS
      <3>1. hi > lo /\ hi - 1 \in lo..hi
        BY <1>4, <1>7
      <3>2. m[SlotAddr(at, cl, fl[hi])][2] = fl[hi - 1] + 1
        BY <1>4, <2>1, <3>1, LinkValue
      <3>3. fl[hi - 1] + 1 <= cl.slots
        BY <1>2, <1>4, <3>1
      <3> QED BY <2>3, <3>2, <3>3
    <2>5. m[SlotAddr(at, cl, fl[lo])] # LinkTo(0)
      <3>1. ~(m[SlotAddr(at, cl, fl[lo])][2] <= cl.slots)
        BY <2>3, <2>4
      <3>2. 0 <= cl.slots
        BY <1>2
      <3> QED BY <3>1, <3>2, LinkValue
    <2>6. cl.events < strays
      BY <1>4, <1>7, <2>5
    <2>7. nc.events = cl.events + 1 /\ nc.events <= strays /\ strays # 0
      BY <1>1, <1>2, <2>2, <2>6
    <2>8. ListOk(at, nc, m, fl, lo, lo - 1, strays)
      BY <1>1, <1>2, <1>4, <1>5, <2>7 DEF ListOk
    <2>9. SlotsOk(at, nc, X, fl, lo, lo - 1, strays)
      BY <1>1, <1>3, <1>5, <2>7 DEF SlotsOk
    <2> QED BY <1>5, <2>8, <2>9 DEF nc
  <1> QED BY <1>6, <1>7


(* allocate_slot off the list: the list is given up, and a slot carved. *)
LEMMA AfterAllocate ==
  ASSUME NEW at, NEW cl \in Class, NEW m, ~TakesHead(at, cl, m)
  PROVE  /\ cl.next < cl.slots =>
              ClassAfterAllocate(at, cl, m) = Cleared(cl, EventsAfter(cl), cl.next + 1)
         /\ ~(cl.next < cl.slots) => ClassAfterAllocate(at, cl, m) = Emptied(cl)
  <1>1. CASE cl.next < cl.slots
    BY <1>1 DEF ClassAfterAllocate, Cleared, EventsAfter, Class
  <1>2. CASE ~(cl.next < cl.slots)
    BY <1>2 DEF ClassAfterAllocate, Cleared, Emptied, EventsAfter, Class
  <1> QED BY <1>1, <1>2

LEMMA ListCarve ==
  ASSUME NEW at \in Nat, NEW cl \in Class, NEW m, NEW fl \in [Nat -> Nat], NEW lo \in Nat,
         NEW hi \in Nat, NEW strays \in Nat, lo = hi + 1,
         ListOk(at, Emptied(cl), m, fl, lo, hi, strays), cl.next < cl.slots
  PROVE  ListOk(at, Cleared(cl, EventsAfter(cl), cl.next + 1), m, fl, lo, hi, strays)
  <1> DEFINE ec == Emptied(cl)
  <1>1. PICK e \in Nat, n \in Nat : e = EventsAfter(cl) /\ n = cl.next
    BY EventsNat
  <1>2. n + 1 \in Nat /\ n + 1 <= cl.slots
    BY <1>1 DEF Class
  <1>0. PICK u \in Nat : u = n + 1
    BY <1>2
  <1> DEFINE nc == Cleared(cl, e, u)
  <1>3. nc.head = 0 /\ nc.events = e /\ nc.next = n + 1 /\ nc.slots = cl.slots
    <2>1. SameRegion(cl, nc)
      BY ClearedFields
    <2>2. nc.head = 0
      BY ClearedFields
    <2>3. nc.events = e
      BY ClearedFields
    <2>4. nc.next = u
      BY ClearedFields
    <2> HIDE DEF nc
    <2> QED BY <1>0, <2>1, <2>2, <2>3, <2>4 DEF SameRegion
  <1>4. ec.head = 0 /\ ec.events = e
    BY <1>1, EmptiedFields DEF EventsAfter
  <1> HIDE DEF nc, ec
  <1>5. lo \in Nat \ {0} /\ lo <= hi + 1 /\ e <= strays /\ lo..hi = {} /\ ~(lo <= hi)
    BY <1>4 DEF ListOk, ec
  <1>6. ListOk(at, nc, m, fl, lo, hi, strays)
    BY <1>2, <1>3, <1>5 DEF ListOk
  <1> QED BY <1>0, <1>1, <1>6 DEF nc

LEMMA SlotsCarve ==
  ASSUME NEW at \in Nat, NEW cl \in Class, NEW fl \in [Nat -> Nat], NEW lo \in Nat,
         NEW hi \in Nat, NEW strays \in Nat, lo = hi + 1, NEW X, IsFiniteSet(X),
         SlotsOk(at, Emptied(cl), X, fl, lo, hi, strays), cl.next < cl.slots,
         NEW x, x.ptr = SlotAddr(at, cl, cl.next), x.size <= cl.stride
  PROVE  /\ \A y \in X : y.ptr # x.ptr
         /\ SlotsOk(at, Cleared(cl, EventsAfter(cl), cl.next + 1), X \cup {x}, fl, lo, hi, strays)
  <1> DEFINE ec == Emptied(cl)
  <1>1. PICK e \in Nat, n \in Nat : e = EventsAfter(cl) /\ n = cl.next
    BY EventsNat
  <1>2. PICK u \in Nat : u = n + 1
    OBVIOUS
  <1> DEFINE nc == Cleared(cl, e, u)
  <1>3. nc.next = n + 1 /\ SameRegion(cl, nc)
    <2>1. SameRegion(cl, nc)
      BY ClearedFields
    <2>2. nc.next = u
      BY ClearedFields
    <2> HIDE DEF nc
    <2> QED BY <1>2, <2>1, <2>2
  <1>4. ec.next = n /\ SameRegion(cl, ec)
    BY <1>1, EmptiedFields
  <1> HIDE DEF nc, ec
  <1>5. \A k : SlotAddr(at, nc, k) = SlotAddr(at, cl, k) /\ SlotAddr(at, ec, k) = SlotAddr(at, cl, k)
    BY <1>3, <1>4 DEF SlotAddr, SameRegion
  <1>6. lo..hi = {}
    OBVIOUS
  <1>7. ASSUME NEW y \in X
        PROVE  /\ y.size <= cl.stride
               /\ \E r \in 0..(n - 1) : y.ptr = SlotAddr(at, cl, r)
    BY <1>4, <1>5 DEF SlotsOk, SameRegion, ec
  <1>8. ASSUME NEW y \in X PROVE y.ptr # x.ptr
    <2>1. PICK r \in 0..(n - 1) : y.ptr = SlotAddr(at, cl, r)
      BY <1>7
    <2>2. r # n /\ r \in Nat
      OBVIOUS
    <2> QED BY <1>1, <2>1, <2>2, SlotsDiffer
  <1>9. ASSUME NEW y \in X \cup {x}
        PROVE  /\ y.size <= nc.stride
               /\ \E r \in 0..(nc.next - 1) :
                    y.ptr = SlotAddr(at, nc, r) /\ \A k \in lo..hi : fl[k] # r
    <2>1. y.size <= nc.stride
      BY <1>3, <1>7 DEF SameRegion
    <2>2. \E r \in 0..n : y.ptr = SlotAddr(at, cl, r)
      <3>1. CASE y \in X
        BY <1>7, <3>1
      <3>2. CASE y = x
        BY <1>1, <3>2
      <3> QED BY <3>1, <3>2
    <2> QED BY <1>3, <1>5, <1>6, <2>1, <2>2
  <1>10. Cardinality(X) \in Nat /\ Cardinality(X \cup {x}) = Cardinality(X) + 1
    BY <1>8, FS_CardinalityType, FS_AddElement
  <1>11. ASSUME strays = 0 PROVE (hi + 1 - lo) + Cardinality(X \cup {x}) = nc.next
    <2>1. (hi + 1 - lo) + Cardinality(X) = n
      BY <1>4, <1>11 DEF SlotsOk, ec
    <2> QED BY <1>3, <1>10, <2>1
  <1>12. SlotsOk(at, nc, X \cup {x}, fl, lo, hi, strays)
    BY <1>9, <1>11 DEF SlotsOk
  <1> QED BY <1>1, <1>2, <1>8, <1>12 DEF nc

(* allocate_slot, in a class whose list and slots are in order: a slot no  *)
(* block of the class holds, or the class as the attempt leaves it.        *)
Took(B, cl, m, X, x, strays) ==
  LET nc == ClassAfterAllocate(B.sbase, cl, m)
  IN /\ nc \in Class /\ SameRegion(cl, nc) /\ ClassOk(B, nc, m, X \cup {x}, strays)
     /\ \A y \in X : y.ptr # x.ptr

LEMMA TakeHead ==
  ASSUME NEW B, B.sbase \in Nat, NEW cl \in Class, NEW m, NEW X, IsFiniteSet(X),
         NEW strays \in Nat, ClassOk(B, cl, m, X, strays), TakesHead(B.sbase, cl, m),
         NEW x, x.ptr = SlotAddr(B.sbase, cl, cl.head - 1), x.size <= cl.stride
  PROVE  cl.head - 1 \in 0..(cl.slots - 1) /\ Took(B, cl, m, X, x, strays)
  <1>1. PICK fl \in [Nat -> Nat], lo \in Nat, hi \in Nat :
             /\ ListOk(B.sbase, cl, m, fl, lo, hi, strays)
             /\ SlotsOk(B.sbase, cl, X, fl, lo, hi, strays)
    BY DEF ClassOk
  <1>2. PICK at \in Nat : at = B.sbase
    OBVIOUS
  <1>3. cl.head # 0 /\ cl.head = (IF lo <= hi THEN fl[hi] + 1 ELSE 0) /\ fl[hi] \in Nat
    BY <1>1 DEF ListOk, TakesHead
  <1>4. lo <= hi /\ cl.head - 1 = fl[hi]
    BY <1>3
  <1>5. PICK v : v = m[SlotAddr(at, cl, fl[hi])][2]
    OBVIOUS
  <1>6. LinkIntact(cl, m[SlotAddr(at, cl, fl[hi])][2])
    BY <1>2, <1>4 DEF TakesHead
  <1>7. ListOk(at, cl, m, fl, lo, hi, strays) /\ SlotsOk(at, cl, X, fl, lo, hi, strays)
    BY <1>1, <1>2
  <1>8. /\ hi - 1 \in Nat /\ v \in Nat
        /\ ListOk(at, WithHead(cl, v), m, fl, lo, hi - 1, strays)
    BY <1>4, <1>5, <1>6, <1>7, ListPop
  <1>9. x.ptr = SlotAddr(at, cl, fl[hi])
    BY <1>2, <1>4
  <1>10. /\ fl[hi] \in 0..(cl.slots - 1)
         /\ \A y \in X : y.ptr # x.ptr
         /\ SlotsOk(at, WithHead(cl, v), X \cup {x}, fl, lo, hi - 1, strays)
    BY <1>4, <1>7, <1>9, SlotsPop
  <1> DEFINE nc == ClassAfterAllocate(B.sbase, cl, m)
  <1>11. nc = WithHead(cl, v)
    BY <1>2, <1>4, <1>5 DEF ClassAfterAllocate, WithHead
  <1>12. WithHead(cl, v) \in Class /\ SameRegion(cl, WithHead(cl, v))
    BY <1>8 DEF WithHead, Class, SameRegion
  <1>13. ClassOk(B, WithHead(cl, v), m, X \cup {x}, strays)
    BY <1>2, <1>8, <1>10 DEF ClassOk
  <1>14. nc \in Class /\ SameRegion(cl, nc) /\ ClassOk(B, nc, m, X \cup {x}, strays)
    BY <1>11, <1>12, <1>13
  <1> QED BY <1>4, <1>10, <1>14 DEF Took

LEMMA TakeFresh ==
  ASSUME NEW B, B.sbase \in Nat, NEW cl \in Class, NEW m, NEW X, IsFiniteSet(X),
         NEW strays \in Nat, ClassOk(B, cl, m, X, strays), ~TakesHead(B.sbase, cl, m),
         cl.next < cl.slots,
         NEW x, x.ptr = SlotAddr(B.sbase, cl, cl.next), x.size <= cl.stride
  PROVE  Took(B, cl, m, X, x, strays)
  <1>1. PICK fl \in [Nat -> Nat], lo \in Nat, h0 \in Nat :
             /\ ListOk(B.sbase, cl, m, fl, lo, h0, strays)
             /\ SlotsOk(B.sbase, cl, X, fl, lo, h0, strays)
    BY DEF ClassOk
  <1>2. PICK at \in Nat : at = B.sbase
    OBVIOUS
  <1>3. lo - 1 \in Nat /\ ListOk(at, Emptied(cl), m, fl, lo, lo - 1, strays)
         /\ SlotsOk(at, Emptied(cl), X, fl, lo, lo - 1, strays)
    BY <1>1, <1>2, ListGivenUp
  <1>4. PICK hi \in Nat : hi = lo - 1
    BY <1>3
  <1>5. lo = hi + 1 /\ ListOk(at, Emptied(cl), m, fl, lo, hi, strays)
         /\ SlotsOk(at, Emptied(cl), X, fl, lo, hi, strays)
    BY <1>3, <1>4
  <1> DEFINE cc == Cleared(cl, EventsAfter(cl), cl.next + 1)
  <1>6. ListOk(at, cc, m, fl, lo, hi, strays)
    BY <1>5, ListCarve
  <1>7. x.ptr = SlotAddr(at, cl, cl.next)
    BY <1>2
  <1>8. /\ \A y \in X : y.ptr # x.ptr
        /\ SlotsOk(at, cc, X \cup {x}, fl, lo, hi, strays)
    BY <1>5, <1>7, SlotsCarve
  <1>9. ClassAfterAllocate(B.sbase, cl, m) = cc
    BY AfterAllocate
  <1>10. PICK e \in Nat, u \in Nat : e = EventsAfter(cl) /\ u = cl.next + 1
    BY EventsNat
  <1>11. cc = Cleared(cl, e, u)
    BY <1>10
  <1>12. Cleared(cl, e, u) \in Class /\ SameRegion(cl, Cleared(cl, e, u))
    BY ClearedFields
  <1> HIDE DEF cc
  <1>13. ClassOk(B, cc, m, X \cup {x}, strays)
    BY <1>2, <1>6, <1>8 DEF ClassOk
  <1> QED BY <1>8, <1>9, <1>11, <1>12, <1>13 DEF Took

LEMMA ClassTake ==
  ASSUME NEW B, B.sbase \in Nat, NEW cl \in Class, NEW m, NEW X, IsFiniteSet(X),
         NEW strays \in Nat, ClassOk(B, cl, m, X, strays),
         SlotFor(B.sbase, cl, m) >= 0,
         NEW x, x.ptr = SlotAddr(B.sbase, cl, SlotFor(B.sbase, cl, m)), x.size <= cl.stride
  PROVE  /\ SlotFor(B.sbase, cl, m) \in 0..(cl.slots - 1)
         /\ Took(B, cl, m, X, x, strays)
  <1>1. CASE TakesHead(B.sbase, cl, m)
    <2>1. SlotFor(B.sbase, cl, m) = cl.head - 1
      BY <1>1 DEF SlotFor
    <2> QED BY <1>1, <2>1, TakeHead
  <1>2. CASE ~TakesHead(B.sbase, cl, m)
    <2>1. cl.next \in Nat /\ cl.slots \in Nat
      BY DEF Class
    <2>2. cl.next < cl.slots /\ SlotFor(B.sbase, cl, m) = cl.next
      BY <1>2 DEF SlotFor
    <2>3. cl.next \in 0..(cl.slots - 1)
      BY <2>1, <2>2
    <2> QED BY <1>2, <2>2, <2>3, TakeFresh
  <1> QED BY <1>1, <1>2

LEMMA ClassTried ==
  ASSUME NEW B, B.sbase \in Nat, NEW cl \in Class, NEW m, NEW X, IsFiniteSet(X),
         NEW strays \in Nat, ClassOk(B, cl, m, X, strays), ~(SlotFor(B.sbase, cl, m) >= 0)
  PROVE  /\ ClassAfterAllocate(B.sbase, cl, m) \in Class
         /\ SameRegion(cl, ClassAfterAllocate(B.sbase, cl, m))
         /\ ClassOk(B, ClassAfterAllocate(B.sbase, cl, m), m, X, strays)
  <1>1. PICK fl \in [Nat -> Nat], lo \in Nat, hi \in Nat :
             /\ ListOk(B.sbase, cl, m, fl, lo, hi, strays)
             /\ SlotsOk(B.sbase, cl, X, fl, lo, hi, strays)
    BY DEF ClassOk
  <1>2. PICK at \in Nat : at = B.sbase
    OBVIOUS
  <1>3. ~TakesHead(at, cl, m)
    <2> SUFFICES ASSUME TakesHead(at, cl, m) PROVE FALSE
      OBVIOUS
    <2>1. cl.head \in Nat /\ cl.head # 0
      BY DEF TakesHead, Class
    <2>2. SlotFor(at, cl, m) = cl.head - 1
      BY DEF SlotFor
    <2> QED BY <1>2, <2>1, <2>2
  <1>4. cl.next \in Nat /\ ~(cl.next < cl.slots)
    BY <1>2, <1>3 DEF SlotFor, Class
  <1>5. lo - 1 \in Nat /\ ListOk(at, Emptied(cl), m, fl, lo, lo - 1, strays)
         /\ SlotsOk(at, Emptied(cl), X, fl, lo, lo - 1, strays)
    BY <1>1, <1>2, <1>3, ListGivenUp
  <1>6. ClassAfterAllocate(B.sbase, cl, m) = Emptied(cl)
    BY <1>2, <1>3, <1>4, AfterAllocate
  <1>7. ClassOk(B, Emptied(cl), m, X, strays)
    BY <1>2, <1>5 DEF ClassOk
  <1> QED BY <1>6, <1>7, EmptiedFields

(* A block for a layout: what is known of it before it has its address. *)
Fitting(x, l) ==
  /\ x.size = l.size /\ x.align = l.align /\ x.known \in Nat /\ x.known <= x.size
  /\ l.size \in Nat \ {0} /\ l.align \in Aligns /\ l.align \in Nat \ {0}

LEMMA FittingBlock ==
  ASSUME NEW x, NEW l, Fitting(x, l), x.home \in {"primary", "backing", "class"},
         x.ptr \in Nat, x.ptr % l.align = 0, x.home = "backing" => x.class = 0
  PROVE  BlockOk(x)
BY DEF Fitting, BlockOk

LEMMA ApartDiffer ==
  ASSUME NEW x \in Nat, NEW m \in Nat \ {0}, NEW y \in Nat, NEW n \in Nat \ {0}, Apart(x, m, y, n)
  PROVE  x # y
BY DEF Apart

(* A slot of a class is at no address of a block served elsewhere. *)
LEMMA SlotElsewhere ==
  ASSUME NEW B, NEW p, NEW b, NEW c, NEW m, NEW L, NEW h, Struct(B, p, b, c, m, L, h),
         NEW i \in 1..Len(c), NEW q \in 0..(c[i].slots - 1),
         NEW y \in L, y.size > 0, ~(y.home = "class" /\ y.class = i)
  PROVE  y.ptr # SlotAddr(B.sbase, c[i], q)
  <1>1. /\ Ground(B, p, b, c) /\ BlocksOk(L) /\ Len(c) \in Nat /\ c \in Seq(Class)
        /\ B.sbase \in Nat /\ Regions(B, b, c)
    BY StructFacts, GroundFacts
  <1>2. y.home \in {"primary", "backing", "class"} /\ y.size \in Nat /\ y.ptr \in Nat
    BY <1>1, SizedBlock
  <1>3. PICK w \in Nat \ {0} : w = c[i].stride
    BY <1>1, ClassFields
  <1>13. PICK z : z = SlotAddr(B.sbase, c[i], q)
    OBVIOUS
  <1>4. z \in Nat
    BY <1>1, <1>13, SlotInRegion
  <1>5. Place(B, p, b, c, "backing", i, q, z, w)
    BY <1>3, <1>13 DEF Place
  <1>6. PICK n : n = Extent(y, c)
    OBVIOUS
  <1>7. n \in Nat /\ n # 0
    <2>1. Extent(y, c) \in Nat /\ y.size <= Extent(y, c)
      BY LivePlace
    <2> QED BY <1>2, <1>6, <2>1
  <1>8. \E s, k, u : Place(B, p, b, c, s, k, u, y.ptr, n) /\ (s # "backing" \/ k # i)
    <2>1. CASE y.home = "primary"
      <3>1. \E k : Place(B, p, b, c, "primary", k, 0, y.ptr, n)
        BY <1>6, <2>1, StackPlace
      <3> QED BY <3>1
    <2>2. CASE y.home = "backing"
      <3>1. \E k : Place(B, p, b, c, "backing", k, 0, y.ptr, n) /\ ~(k \in 1..Len(c))
        BY <1>6, <2>2, StackPlace
      <3> QED BY <3>1
    <2>3. CASE y.home = "class"
      <3>1. \E u \in Nat : Place(B, p, b, c, "backing", y.class, u, y.ptr, n)
        BY <1>6, <2>3, ClassPlace
      <3> QED BY <2>3, <3>1
    <2> QED BY <1>2, <2>1, <2>2, <2>3
  <1>9. PICK s, k, u : Place(B, p, b, c, s, k, u, y.ptr, n) /\ (s # "backing" \/ k # i)
    BY <1>8
  <1>10. Apart(y.ptr, n, z, w)
    <2>1. s # "backing" \/ k # i \/ u # q
      BY <1>9
    <2>2. w \in Nat
      OBVIOUS
    <2> QED BY <1>1, <1>5, <1>7, <1>9, <2>1, <2>2, PlacesApart
  <1> QED BY <1>2, <1>4, <1>7, <1>10, <1>13, ApartDiffer

(* A slot is aligned for every alignment that divides the stride. *)
LEMMA TakeClass ==
  ASSUME NEW B, NEW p, NEW b, NEW c, NEW m, NEW L, NEW h, Struct(B, p, b, c, m, L, h),
         NEW i \in 1..Len(c), SlotFor(B.sbase, c[i], m) >= 0,
         NEW x, BlockOk(x), x.home = "class", x.class = i, x.size <= c[i].stride,
         x.ptr = SlotAddr(B.sbase, c[i], SlotFor(B.sbase, c[i], m))
  PROVE  Struct(B, p, b, [c EXCEPT ![i] = ClassAfterAllocate(B.sbase, @, m)], m, L \cup {x}, h)
  <1>1. /\ Ground(B, p, b, c) /\ BlocksOk(L) /\ Len(c) \in Nat /\ c \in Seq(Class)
        /\ B.sbase \in Nat /\ h.strays \in Nat
    BY StructFacts, GroundFacts DEF HistOk
  <1>2. PICK cl \in Class : cl = c[i]
    BY <1>1
  <1> DEFINE X == OfClass(L, i)
             nc == ClassAfterAllocate(B.sbase, cl, m)
             q == SlotFor(B.sbase, cl, m)
             N == L \cup {x}
  <1>3. IsFiniteSet(X) /\ ClassOk(B, cl, m, X, h.strays)
    BY <1>1, <1>2, HomeFinite, StructFacts
  <1>4. q \in 0..(cl.slots - 1) /\ Took(B, cl, m, X, x, h.strays)
    <2>1. q >= 0 /\ x.ptr = SlotAddr(B.sbase, cl, q) /\ x.size <= cl.stride
      BY <1>2
    <2> HIDE DEF X
    <2> QED BY <1>1, <1>3, <2>1, ClassTake
  <1>5. nc \in Class /\ SameRegion(cl, nc) /\ ClassOk(B, nc, m, X \cup {x}, h.strays)
        /\ \A y \in X : y.ptr # x.ptr
    BY <1>4 DEF Took
  <1> HIDE DEF q
  <1>6. ASSUME NEW y \in L, y.size > 0 PROVE x.ptr # y.ptr
    <2>1. CASE y \in X
      BY <1>5, <2>1
    <2>2. CASE y \notin X
      <3>1. ~(y.home = "class" /\ y.class = i)
        BY <2>2 DEF OfClass
      <3>2. q \in 0..(c[i].slots - 1) /\ x.ptr = SlotAddr(B.sbase, c[i], q)
        BY <1>2, <1>4 DEF q
      <3>3. y.ptr # SlotAddr(B.sbase, c[i], q)
        BY <1>6, <3>1, <3>2, SlotElsewhere
      <3> QED BY <3>2, <3>3
    <2> QED BY <2>1, <2>2
  <1>7. BlocksOk(N)
    <2>1. \A y \in L : x.size > 0 /\ y.size > 0 => x.ptr # y.ptr
      BY <1>6
    <2> QED BY <1>1, <2>1, BlocksAdd
  <1>8. OfClass(N, i) = X \cup {x}
    BY ClassAdd, ZenonT(30)
  <1>9. SameElsewhere(L, N, i, Len(c))
    <2>1. x.home # "primary" /\ x.home # "backing"
      OBVIOUS
    <2>2. OfHome(N, "primary") = OfHome(L, "primary") /\ OfHome(N, "backing") = OfHome(L, "backing")
      BY <2>1, HomeAddOther, Zenon
    <2>3. \A j \in 1..Len(c) : j # i => OfClass(N, j) = OfClass(L, j)
      BY ClassAddOther
    <2>4. \A y \in OfHome(N, "class") : y.class \in 1..Len(c)
      <3>1. \A y \in OfHome(L, "class") : y.class \in 1..Len(c)
        BY StructFacts
      <3> QED BY <3>1 DEF OfHome
    <2> HIDE DEF N
    <2> QED BY <2>2, <2>3, <2>4 DEF SameElsewhere
  <1> HIDE DEF N, nc, X
  <1>10. SameRegion(c[i], nc) /\ ClassOk(B, nc, m, OfClass(N, i), h.strays)
    BY <1>2, <1>5, <1>8
  <1>11. Struct(B, p, b, [c EXCEPT ![i] = nc], m, N, h)
    BY <1>5, <1>7, <1>9, <1>10, ClassStep
  <1>12. [c EXCEPT ![i] = ClassAfterAllocate(B.sbase, @, m)] = [c EXCEPT ![i] = nc]
    BY <1>2 DEF nc
  <1> QED BY <1>11, <1>12 DEF N

(* A class that has no slot to offer: its list may have been given up. *)
LEMMA TryClass ==
  ASSUME NEW B, NEW p, NEW b, NEW c, NEW m, NEW L, NEW h, Struct(B, p, b, c, m, L, h),
         NEW i \in 1..Len(c), ~(SlotFor(B.sbase, c[i], m) >= 0)
  PROVE  Struct(B, p, b, [c EXCEPT ![i] = ClassAfterAllocate(B.sbase, @, m)], m, L, h)
  <1>1. /\ Ground(B, p, b, c) /\ BlocksOk(L) /\ Len(c) \in Nat /\ c \in Seq(Class)
        /\ B.sbase \in Nat /\ h.strays \in Nat
    BY StructFacts, GroundFacts DEF HistOk
  <1>2. PICK cl \in Class : cl = c[i]
    BY <1>1
  <1> DEFINE X == OfClass(L, i)
             nc == ClassAfterAllocate(B.sbase, cl, m)
  <1>3. IsFiniteSet(X) /\ ClassOk(B, cl, m, X, h.strays)
    BY <1>1, <1>2, HomeFinite, StructFacts
  <1>4. nc \in Class /\ SameRegion(cl, nc) /\ ClassOk(B, nc, m, X, h.strays)
    <2>1. ~(SlotFor(B.sbase, cl, m) >= 0)
      BY <1>2
    <2> HIDE DEF X
    <2> QED BY <1>1, <1>3, <2>1, ClassTried
  <1>5. SameElsewhere(L, L, i, Len(c))
    BY StructFacts DEF SameElsewhere
  <1> HIDE DEF nc
  <1>6. SameRegion(c[i], nc) /\ ClassOk(B, nc, m, OfClass(L, i), h.strays)
    BY <1>2, <1>4
  <1>7. Struct(B, p, b, [c EXCEPT ![i] = nc], m, L, h)
    BY <1>1, <1>4, <1>5, <1>6, ClassStep
  <1>8. [c EXCEPT ![i] = ClassAfterAllocate(B.sbase, @, m)] = [c EXCEPT ![i] = nc]
    BY <1>2 DEF nc
  <1> QED BY <1>7, <1>8

(* What StackPushed states, as one fact. *)
PushedOk(st, ns, cap, at, first, X, others, x, l) ==
  /\ StackOk(ns, cap) /\ StackBlocks(ns, at, first, X \cup {x}, others) /\ KeepsBelow(st, ns, first)
  /\ x.ptr \in Nat /\ x.ptr % l.align = 0 /\ \A y \in X : y.ptr # x.ptr

LEMMA PushedFacts ==
  ASSUME NEW st, NEW cap \in Nat, StackOk(st, cap), NEW at \in Nat, NEW first \in Nat \ {0},
         first - 1 <= Len(st.frames), NEW X, IsFiniteSet(X), NEW others \in Nat,
         StackBlocks(st, at, first, X, others), NEW x, NEW l,
         l.align \in Nat \ {0}, l.size \in Nat \ {0}, StackHasRoom(st, at, cap, l),
         x.ptr = at + AlignedOff(at, st.cursor, l), x.size = l.size
  PROVE  PushedOk(st, StackPush(st, at, l), cap, at, first, X, others, x, l)
BY StackPushed DEF PushedOk

(* Pushed on the primary, a block is at no address of one served elsewhere.*)
LEMMA PrimaryElsewhere ==
  ASSUME NEW B, NEW p, NEW b, NEW c, NEW m, NEW L, NEW h, Struct(B, p, b, c, m, L, h),
         NEW np, StackOk(np, B.pcap), NEW k \in 1..Len(np.frames), NEW z, NEW n \in Nat \ {0},
         InFrame(np, B.pbase, k, z, n), z \in Nat,
         NEW y \in L, y.size > 0, y.home # "primary"
  PROVE  y.ptr # z
  <1>1. /\ Ground(B, p, b, c) /\ BlocksOk(L) /\ Len(c) \in Nat
        /\ StackOk(b, B.scap) /\ Regions(B, b, c) /\ BuildOk(B)
    BY StructFacts, GroundFacts
  <1>2. Ground(B, np, b, c)
    BY <1>1 DEF Ground
  <1>3. y.home \in {"backing", "class"} /\ y.size \in Nat /\ y.ptr \in Nat
    BY <1>1, SizedBlock
  <1>4. PICK w : w = Extent(y, c)
    OBVIOUS
  <1>5. w \in Nat /\ w # 0
    <2>1. Extent(y, c) \in Nat /\ y.size <= Extent(y, c)
      BY LivePlace
    <2> QED BY <1>3, <1>4, <2>1
  <1>6. \E j, u : Place(B, p, b, c, "backing", j, u, y.ptr, w)
    <2>1. CASE y.home = "backing"
      BY <1>4, <2>1, StackPlace
    <2>2. CASE y.home = "class"
      <3>1. \E u \in Nat : Place(B, p, b, c, "backing", y.class, u, y.ptr, w)
        BY <1>4, <2>2, ClassPlace
      <3> QED BY <3>1
    <2> QED BY <1>3, <2>1, <2>2
  <1>7. PICK j, u : Place(B, p, b, c, "backing", j, u, y.ptr, w)
    BY <1>6
  <1>8. Place(B, np, b, c, "backing", j, u, y.ptr, w)
    BY <1>7 DEF Place
  <1>9. Place(B, np, b, c, "primary", k, 0, z, n)
    BY DEF Place
  <1>10. Apart(y.ptr, w, z, n)
    <2>1. "backing" # "primary" /\ n \in Nat
      OBVIOUS
    <2> QED BY <1>2, <1>5, <1>8, <1>9, <2>1, PlacesApart
  <1> QED BY <1>3, <1>5, <1>10, ApartDiffer

LEMMA BackingElsewhere ==
  ASSUME NEW B, NEW p, NEW b, NEW c, NEW m, NEW L, NEW h, Struct(B, p, b, c, m, L, h),
         NEW nb, StackOk(nb, B.scap), Regions(B, nb, c), NEW k \in (Len(c) + 1)..Len(nb.frames),
         NEW z, NEW n \in Nat \ {0}, InFrame(nb, B.sbase, k, z, n), z \in Nat,
         NEW y \in L, y.size > 0, y.home # "backing"
  PROVE  y.ptr # z
  <1>1. /\ Ground(B, p, b, c) /\ BlocksOk(L) /\ Len(c) \in Nat
        /\ StackOk(p, B.pcap) /\ BuildOk(B)
    BY StructFacts, GroundFacts
  <1>2. Ground(B, p, nb, c)
    BY <1>1 DEF Ground
  <1>3. y.home \in {"primary", "class"} /\ y.size \in Nat /\ y.ptr \in Nat
    BY <1>1, SizedBlock
  <1>4. PICK w : w = Extent(y, c)
    OBVIOUS
  <1>5. w \in Nat /\ w # 0
    <2>1. Extent(y, c) \in Nat /\ y.size <= Extent(y, c)
      BY LivePlace
    <2> QED BY <1>3, <1>4, <2>1
  <1>6. \E s, j, u : Place(B, p, nb, c, s, j, u, y.ptr, w) /\ (s # "backing" \/ j # k)
    <2>1. CASE y.home = "primary"
      <3>1. PICK j : Place(B, p, b, c, "primary", j, 0, y.ptr, w)
        BY <1>4, <2>1, StackPlace
      <3>2. Place(B, p, nb, c, "primary", j, 0, y.ptr, w)
        BY <3>1 DEF Place
      <3> QED BY <3>2
    <2>2. CASE y.home = "class"
      <3>1. PICK u \in Nat : Place(B, p, b, c, "backing", y.class, u, y.ptr, w)
        BY <1>4, <2>2, ClassPlace
      <3>2. y.class \in 1..Len(c)
        BY <2>2, ClassPlace
      <3>3. Place(B, p, nb, c, "backing", y.class, u, y.ptr, w)
        BY <1>1, <3>1, <3>2 DEF Place
      <3>4. y.class # k
        BY <1>1, <3>2
      <3> QED BY <3>3, <3>4
    <2> QED BY <1>3, <2>1, <2>2
  <1>7. PICK s, j, u : Place(B, p, nb, c, s, j, u, y.ptr, w) /\ (s # "backing" \/ j # k)
    BY <1>6
  <1>9. Place(B, p, nb, c, "backing", k, 0, z, n)
    BY DEF Place
  <1>10. Apart(y.ptr, w, z, n)
    <2>1. s # "backing" \/ j # k \/ u # 0
      BY <1>7
    <2>2. n \in Nat
      OBVIOUS
    <2> QED BY <1>2, <1>5, <1>7, <1>9, <2>1, <2>2, PlacesApart
  <1> QED BY <1>3, <1>5, <1>10, ApartDiffer

LEMMA PushPrimary ==
  ASSUME NEW B, NEW p, NEW b, NEW c, NEW m, NEW L, NEW h, Struct(B, p, b, c, m, L, h),
         NEW l, StackHasRoom(p, B.pbase, B.pcap, l), NEW x, Fitting(x, l), x.home = "primary",
         x.ptr = B.pbase + AlignedOff(B.pbase, p.cursor, l)
  PROVE  BlockOk(x) /\ Struct(B, StackPush(p, B.pbase, l), b, c, m, L \cup {x}, h)
  <1> DEFINE X == OfHome(L, "primary")
             ns == StackPush(p, B.pbase, l)
             N == L \cup {x}
  <1>1. /\ Ground(B, p, b, c) /\ BlocksOk(L) /\ HistOk(h) /\ B.pbase \in Nat /\ B.pcap \in Nat
        /\ StackOk(p, B.pcap) /\ StackOk(b, B.scap) /\ Regions(B, b, c) /\ BuildOk(B)
        /\ Len(p.frames) \in Nat
    BY StructFacts, GroundFacts
  <1>2. /\ IsFiniteSet(X) /\ h.pignored \in Nat /\ StackBlocks(p, B.pbase, 1, X, h.pignored)
        /\ l.align \in Nat \ {0} /\ l.size \in Nat \ {0} /\ x.size = l.size
    BY <1>1, HomeFinite, StructFacts DEF HistOk, Fitting
  <1>3. \A y \in X : y \in L /\ y.home = "primary"
    BY DEF OfHome
  <1>14. \A y \in L : y.home = "primary" => y \in X
    BY DEF OfHome
  <1> HIDE DEF X
  <1>4. /\ StackOk(ns, B.pcap) /\ StackBlocks(ns, B.pbase, 1, X \cup {x}, h.pignored)
        /\ x.ptr \in Nat /\ x.ptr % l.align = 0 /\ \A y \in X : y.ptr # x.ptr
    <2>1. PICK first \in Nat \ {0} : first = 1 /\ first - 1 <= Len(p.frames)
      BY <1>1
    <2>2. PICK at \in Nat, cap \in Nat, others \in Nat :
               at = B.pbase /\ cap = B.pcap /\ others = h.pignored
      BY <1>1, <1>2
    <2>3. PushedOk(p, StackPush(p, at, l), cap, at, first, X, others, x, l)
      BY <1>1, <1>2, <2>1, <2>2, PushedFacts
    <2>4. PushedOk(p, ns, cap, at, first, X, others, x, l)
      BY <2>2, <2>3
    <2> HIDE DEF ns
    <2> QED BY <2>1, <2>2, <2>4 DEF PushedOk
  <1>5. BlockOk(x)
    BY <1>4, FittingBlock
  <1>6. Ground(B, ns, b, c)
    BY <1>1, <1>4 DEF Ground
  <1>7. PICK k \in 1..Len(ns.frames) : InFrame(ns, B.pbase, k, x.ptr, x.size)
    BY <1>4 DEF StackBlocks
  <1> HIDE DEF ns
  <1>8. ASSUME NEW y \in L, y.size > 0 PROVE x.ptr # y.ptr
    <2>1. CASE y.home = "primary"
      BY <1>4, <1>14, <2>1
    <2>2. CASE y.home # "primary"
      BY <1>2, <1>4, <1>7, <1>8, <2>2, PrimaryElsewhere
    <2> QED BY <2>1, <2>2
  <1>9. BlocksOk(N)
    <2>1. \A y \in L : x.size > 0 /\ y.size > 0 => x.ptr # y.ptr
      BY <1>8
    <2> QED BY <1>1, <1>5, <2>1, BlocksAdd
  <1>10. OfHome(N, "primary") = X \cup {x}
    BY HomeAdd DEF X
  <1>11. /\ OfHome(N, "backing") = OfHome(L, "backing") /\ OfHome(N, "class") = OfHome(L, "class")
         /\ \A i \in 1..Len(c) : OfClass(N, i) = OfClass(L, i)
    <2>1. x.home # "backing" /\ x.home # "class"
      OBVIOUS
    <2>2. OfHome(N, "backing") = OfHome(L, "backing") /\ OfHome(N, "class") = OfHome(L, "class")
      BY <2>1, HomeAddOther, Zenon
    <2>3. \A i \in 1..Len(c) : OfClass(N, i) = OfClass(L, i)
      BY <2>1, ClassAddOther, Zenon
    <2> QED BY <2>2, <2>3
  <1> HIDE DEF N
  <1>12. StackBlocks(ns, B.pbase, 1, OfHome(N, "primary"), h.pignored)
    BY <1>4, <1>10
  <1>13. /\ StackBlocks(b, B.sbase, Len(c) + 1, OfHome(N, "backing"), Len(c) + h.bignored)
         /\ \A y \in OfHome(N, "class") : y.class \in 1..Len(c)
         /\ m = [a \in Cells(B) |-> m[a]]
    BY <1>11, StructFacts
  <1>15. \A i \in 1..Len(c) : ClassOk(B, c[i], m, OfClass(N, i), h.strays)
    <2>1. \A i \in 1..Len(c) : ClassOk(B, c[i], m, OfClass(L, i), h.strays)
      BY StructFacts
    <2> QED BY <1>11, <2>1, Zenon
  <1>16. Struct(B, ns, b, c, m, N, h)
    BY <1>1, <1>6, <1>9, <1>12, <1>13, <1>15 DEF Struct
  <1> QED BY <1>5, <1>16 DEF ns, N

LEMMA PushBacking ==
  ASSUME NEW B, NEW p, NEW b, NEW c, NEW m, NEW L, NEW h, Struct(B, p, b, c, m, L, h),
         NEW l, StackHasRoom(b, B.sbase, B.scap, l), NEW x, Fitting(x, l), x.home = "backing",
         x.class = 0, x.ptr = B.sbase + AlignedOff(B.sbase, b.cursor, l)
  PROVE  BlockOk(x) /\ Struct(B, p, StackPush(b, B.sbase, l), c, m, L \cup {x}, h)
  <1> DEFINE X == OfHome(L, "backing")
             ns == StackPush(b, B.sbase, l)
             N == L \cup {x}
  <1>1. /\ Ground(B, p, b, c) /\ BlocksOk(L) /\ HistOk(h) /\ B.sbase \in Nat /\ B.scap \in Nat
        /\ StackOk(p, B.pcap) /\ StackOk(b, B.scap) /\ Regions(B, b, c) /\ BuildOk(B)
        /\ Len(b.frames) \in Nat /\ Len(c) \in Nat /\ Len(c) <= Len(b.frames)
    BY StructFacts, GroundFacts
  <1>2. /\ IsFiniteSet(X) /\ Len(c) + h.bignored \in Nat
        /\ StackBlocks(b, B.sbase, Len(c) + 1, X, Len(c) + h.bignored)
        /\ l.align \in Nat \ {0} /\ l.size \in Nat \ {0} /\ x.size = l.size
    <2>1. StackBlocks(b, B.sbase, Len(c) + 1, X, Len(c) + h.bignored)
      BY StructFacts
    <2>2. IsFiniteSet(X) /\ Len(c) + h.bignored \in Nat
      BY <1>1, HomeFinite DEF HistOk
    <2> QED BY <2>1, <2>2 DEF Fitting
  <1>14. \A y \in L : y.home = "backing" => y \in X
    BY DEF OfHome
  <1> HIDE DEF X
  <1>4. /\ StackOk(ns, B.scap)
        /\ StackBlocks(ns, B.sbase, Len(c) + 1, X \cup {x}, Len(c) + h.bignored)
        /\ KeepsBelow(b, ns, Len(c) + 1)
        /\ x.ptr \in Nat /\ x.ptr % l.align = 0 /\ \A y \in X : y.ptr # x.ptr
    <2>1. PICK first \in Nat \ {0} : first = Len(c) + 1 /\ first - 1 <= Len(b.frames)
      BY <1>1
    <2>2. PICK at \in Nat, cap \in Nat, others \in Nat :
               at = B.sbase /\ cap = B.scap /\ others = Len(c) + h.bignored
      BY <1>1, <1>2
    <2>3. PushedOk(b, StackPush(b, at, l), cap, at, first, X, others, x, l)
      BY <1>1, <1>2, <2>1, <2>2, PushedFacts
    <2>4. PushedOk(b, ns, cap, at, first, X, others, x, l)
      BY <2>2, <2>3
    <2> HIDE DEF ns
    <2> QED BY <2>1, <2>2, <2>4 DEF PushedOk
  <1>5. BlockOk(x)
    BY <1>4, FittingBlock
  <1>17. Regions(B, ns, c)
    BY <1>1, <1>4, RegionsKept
  <1>6. Ground(B, p, ns, c)
    BY <1>1, <1>4, <1>17 DEF Ground
  <1>7. PICK k \in (Len(c) + 1)..Len(ns.frames) : InFrame(ns, B.sbase, k, x.ptr, x.size)
    BY <1>4 DEF StackBlocks
  <1> HIDE DEF ns
  <1>8. ASSUME NEW y \in L, y.size > 0 PROVE x.ptr # y.ptr
    <2>1. CASE y.home = "backing"
      BY <1>4, <1>14, <2>1
    <2>2. CASE y.home # "backing"
      BY <1>2, <1>4, <1>7, <1>8, <1>17, <2>2, BackingElsewhere
    <2> QED BY <2>1, <2>2
  <1>9. BlocksOk(N)
    <2>1. \A y \in L : x.size > 0 /\ y.size > 0 => x.ptr # y.ptr
      BY <1>8
    <2> QED BY <1>1, <1>5, <2>1, BlocksAdd
  <1>10. OfHome(N, "backing") = X \cup {x}
    BY HomeAdd DEF X
  <1>11. /\ OfHome(N, "primary") = OfHome(L, "primary") /\ OfHome(N, "class") = OfHome(L, "class")
         /\ \A i \in 1..Len(c) : OfClass(N, i) = OfClass(L, i)
    <2>1. x.home # "primary" /\ x.home # "class"
      OBVIOUS
    <2>2. OfHome(N, "primary") = OfHome(L, "primary") /\ OfHome(N, "class") = OfHome(L, "class")
      BY <2>1, HomeAddOther, Zenon
    <2>3. \A i \in 1..Len(c) : OfClass(N, i) = OfClass(L, i)
      BY <2>1, ClassAddOther, Zenon
    <2> QED BY <2>2, <2>3
  <1> HIDE DEF N
  <1>12. StackBlocks(ns, B.sbase, Len(c) + 1, OfHome(N, "backing"), Len(c) + h.bignored)
    BY <1>4, <1>10
  <1>13. /\ StackBlocks(p, B.pbase, 1, OfHome(N, "primary"), h.pignored)
         /\ \A y \in OfHome(N, "class") : y.class \in 1..Len(c)
         /\ m = [a \in Cells(B) |-> m[a]]
    BY <1>11, StructFacts
  <1>15. \A i \in 1..Len(c) : ClassOk(B, c[i], m, OfClass(N, i), h.strays)
    <2>1. \A i \in 1..Len(c) : ClassOk(B, c[i], m, OfClass(L, i), h.strays)
      BY StructFacts
    <2> QED BY <1>11, <2>1, Zenon
  <1>16. Struct(B, p, ns, c, m, N, h)
    BY <1>1, <1>6, <1>9, <1>12, <1>13, <1>15 DEF Struct
  <1> QED BY <1>5, <1>16 DEF ns, N

-----------------------------------------------------------------------------
(* Powers of two: the smaller divides the larger, and there is one in every*)
(* range next_power_of_two looks in.                                       *)
LEMMA ModZero ==
  ASSUME NEW a \in Nat, NEW k \in Nat \ {0}, a % k = 0
  PROVE  \E t \in Nat : a = t * k
  <1> DEFINE t == a \div k
  <1>1. t \in Nat /\ a = t * k + (a % k)
    OBVIOUS
  <1> HIDE DEF t
  <1>2. t * k \in Nat
    BY <1>1, TimesNat
  <1> QED BY <1>1, <1>2

LEMMA TimesAssoc ==
  ASSUME NEW s \in Nat, NEW t \in Nat, NEW k \in Nat
  PROVE  s * (t * k) = (s * t) * k
OBVIOUS

LEMMA TimesComm ==
  ASSUME NEW s \in Nat, NEW t \in Nat
  PROVE  s * t = t * s
OBVIOUS

LEMMA TimesAtLeast ==
  ASSUME NEW s \in Nat, NEW k \in Nat, s > 0
  PROVE  k <= s * k
  <1>1. 1 * k <= s * k
    BY TimesMonotone
  <1> QED BY <1>1

LEMMA PowHalf ==
  ASSUME NEW n \in Nat, IsPowerOfTwo(n), n > 1
  PROVE  \E r \in Nat : n = 2 * r /\ r > 0 /\ r < n /\ IsPowerOfTwo(r)
  <1>1. n \in 2..n /\ n % n = 0
    OBVIOUS
  <1>2. n % 2 = 0
    BY <1>1 DEF IsPowerOfTwo
  <1>3. PICK r \in Nat : n = 2 * r
    BY <1>2
  <1>4. r > 0 /\ r < n
    BY <1>3
  <1>5. ASSUME NEW d \in 2..r, r % d = 0 PROVE d % 2 = 0
    <2>1. d \in Nat \ {0} /\ d \in Nat
      OBVIOUS
    <2>2. PICK t \in Nat : r = t * d
      BY <1>5, <2>1, ModZero
    <2>3. 2 * r = (2 * t) * d
      BY <2>1, <2>2, TimesAssoc
    <2>4. PICK u \in Nat : u = 2 * t
      OBVIOUS
    <2>5. n = u * d
      BY <1>3, <2>3, <2>4
    <2>6. n % d = 0
      BY <2>1, <2>5, MultipleMod
    <2>7. d \in 2..n
      BY <1>3
    <2> QED BY <2>6, <2>7 DEF IsPowerOfTwo
  <1>6. IsPowerOfTwo(r)
    BY <1>4, <1>5 DEF IsPowerOfTwo
  <1> QED BY <1>3, <1>4, <1>6

LEMMA PowDouble ==
  ASSUME NEW r \in Nat, IsPowerOfTwo(r)
  PROVE  IsPowerOfTwo(2 * r)
  <1>1. r > 0
    BY DEF IsPowerOfTwo
  <1>2. ASSUME NEW d \in 2..(2 * r), (2 * r) % d = 0 PROVE d % 2 = 0
    <2> SUFFICES ASSUME d % 2 # 0 PROVE FALSE
      OBVIOUS
    <2>1. d \in Nat \ {0} /\ d \in Nat /\ 2 * r \in Nat
      OBVIOUS
    <2>2. PICK t \in Nat : 2 * r = t * d
      BY <1>2, <2>1, ModZero
    <2>3. PICK e \in Nat : d = 2 * e + 1
      BY <2>1
    <2>4. t * d = 2 * (t * e) + t
      BY <2>3
    <2>5. t * e \in Nat
      BY TimesNat
    <2>6. PICK w \in Nat : w = t * e
      BY <2>5
    <2>7. 2 * r = 2 * w + t
      BY <2>2, <2>4, <2>6
    <2>8. PICK s \in Nat : t = 2 * s
      <3>1. t = 2 * (r - w) /\ r - w \in Nat
        BY <2>7
      <3> QED BY <3>1
    <2>9. t * d = 2 * (s * d)
      BY <2>1, <2>8, TimesAssoc
    <2>10. s * d \in Nat
      BY <2>1, TimesNat
    <2>11. r = s * d
      BY <2>2, <2>9, <2>10
    <2>12. s > 0
      BY <1>1, <2>11
    <2>13. d <= r
      BY <2>1, <2>11, <2>12, TimesAtLeast
    <2>14. r % d = 0
      BY <2>1, <2>11, MultipleMod
    <2> QED BY <2>13, <2>14 DEF IsPowerOfTwo
  <1> QED BY <1>1, <1>2 DEF IsPowerOfTwo

LEMMA PowDivides ==
  ASSUME NEW p0 \in Nat, NEW q0 \in Nat, IsPowerOfTwo(p0), IsPowerOfTwo(q0), p0 <= q0
  PROVE  \E t \in Nat : q0 = t * p0
  <1> DEFINE Bad(p) == \E q \in Nat : /\ IsPowerOfTwo(p) /\ IsPowerOfTwo(q) /\ p <= q
                                      /\ ~ \E t \in Nat : q = t * p
             S == {p \in Nat : Bad(p)}
  <1>1. S = {}
    <2> SUFFICES ASSUME S # {} PROVE FALSE
      OBVIOUS
    <2>1. S \in SUBSET Nat
      OBVIOUS
    <2>2. PICK p \in S : \A y \in S : p <= y
      <3> HIDE DEF S
      <3> QED BY <2>1, LeastNat
    <2>3. PICK q \in Nat : /\ IsPowerOfTwo(p) /\ IsPowerOfTwo(q) /\ p <= q
                           /\ ~ \E t \in Nat : q = t * p
      BY <2>2
    <2>4. p \in Nat /\ p > 0
      BY <2>3 DEF IsPowerOfTwo
    <2>5. CASE p = 1
      <3>1. q = q * p
        BY <2>5
      <3> QED BY <2>3, <3>1
    <2>6. CASE p > 1
      <3>1. PICK r \in Nat : p = 2 * r /\ r > 0 /\ r < p /\ IsPowerOfTwo(r)
        BY <2>3, <2>4, <2>6, PowHalf
      <3>2. PICK u \in Nat : q = 2 * u /\ u > 0 /\ u < q /\ IsPowerOfTwo(u)
        BY <2>3, <2>4, <2>6, PowHalf
      <3>3. r <= u
        BY <2>3, <3>1, <3>2
      <3>4. r \notin S
        <4> HIDE DEF S
        <4> QED BY <2>1, <2>2, <2>4, <3>1
      <3>5. PICK t \in Nat : u = t * r
        BY <3>1, <3>2, <3>3, <3>4
      <3>6. 2 * (t * r) = (2 * t) * r /\ (2 * t) * r = t * (2 * r)
        OBVIOUS
      <3>7. q = t * p
        BY <3>1, <3>2, <3>5, <3>6
      <3> QED BY <2>3, <3>7
    <2> QED BY <2>4, <2>5, <2>6
  <1>2. p0 \notin S
    BY <1>1
  <1> QED BY <1>2

LEMMA PowExists ==
  ASSUME NEW n0 \in Nat \ {0}
  PROVE  \E q \in n0..(2 * n0 - 1) : IsPowerOfTwo(q)
  <1> DEFINE S == {n \in Nat : n > 0 /\ ~ \E q \in n..(2 * n - 1) : IsPowerOfTwo(q)}
  <1>1. S = {}
    <2> SUFFICES ASSUME S # {} PROVE FALSE
      OBVIOUS
    <2>1. S \in SUBSET Nat
      OBVIOUS
    <2>2. PICK n \in S : \A y \in S : n <= y
      <3> HIDE DEF S
      <3> QED BY <2>1, LeastNat
    <2>3. n \in Nat /\ n > 0 /\ ~ \E q \in n..(2 * n - 1) : IsPowerOfTwo(q)
      BY <2>2
    <2>4. CASE n = 1
      <3>1. IsPowerOfTwo(1)
        BY DEF IsPowerOfTwo
      <3>2. 1 \in n..(2 * n - 1)
        BY <2>4
      <3> QED BY <2>3, <3>1, <3>2
    <2>5. CASE n > 1
      <3>1. PICK k \in Nat : (n = 2 * k \/ n = 2 * k - 1) /\ k > 0 /\ k < n
        <4>1. n % 2 = 0 \/ n % 2 = 1
          BY <2>3
        <4>2. CASE n % 2 = 0
          <5>1. n \div 2 \in Nat /\ n = 2 * (n \div 2)
            BY <2>3, <4>2
          <5> QED BY <2>5, <5>1
        <4>3. CASE n % 2 = 1
          <5>1. n \div 2 \in Nat /\ n = 2 * (n \div 2) + 1
            BY <2>3, <4>3
          <5>2. PICK w \in Nat : w = n \div 2 + 1
            BY <5>1
          <5>3. n = 2 * w - 1 /\ w > 0 /\ w < n
            BY <2>5, <5>1, <5>2
          <5> QED BY <5>3
        <4> QED BY <4>1, <4>2, <4>3
      <3>2. k \notin S
        <4> HIDE DEF S
        <4> QED BY <2>1, <2>2, <2>3, <3>1
      <3>3. PICK r \in k..(2 * k - 1) : IsPowerOfTwo(r)
        BY <3>1, <3>2
      <3>4. r \in Nat
        BY <3>1
      <3>5. IsPowerOfTwo(2 * r)
        BY <3>3, <3>4, PowDouble
      <3>6. 2 * r >= n /\ 2 * r <= 2 * n
        BY <2>3, <3>1, <3>3, <3>4
      <3>7. 2 * r # 2 * n
        <4> SUFFICES ASSUME 2 * r = 2 * n PROVE FALSE
          OBVIOUS
        <4>1. r = n /\ n = 2 * k - 1
          BY <2>3, <3>1, <3>3, <3>4
        <4>2. n % 2 = 0
          <5>1. n \in 2..n /\ n % n = 0
            BY <2>3, <2>5
          <5>2. IsPowerOfTwo(n)
            BY <3>3, <4>1
          <5> QED BY <5>1, <5>2 DEF IsPowerOfTwo
        <4> QED BY <2>3, <3>1, <4>1, <4>2
      <3>8. 2 * r \in n..(2 * n - 1)
        BY <2>3, <3>4, <3>6, <3>7
      <3> QED BY <2>3, <3>5, <3>8
    <2> QED BY <2>3, <2>4, <2>5
  <1>2. n0 \notin S
    BY <1>1
  <1> QED BY <1>2

LEMMA NextPowerProps ==
  ASSUME NEW n \in Nat \ {0}
  PROVE  NextPowerOfTwo(n) \in Nat /\ n <= NextPowerOfTwo(n)
  <1>1. \E q \in n..(2 * n - 1) : IsPowerOfTwo(q)
    BY PowExists
  <1>2. NextPowerOfTwo(n) \in n..(2 * n - 1)
    BY <1>1 DEF NextPowerOfTwo
  <1> QED BY <1>2

(* The first of the classes that qualify. *)
LEMMA FirstOf ==
  ASSUME NEW S \in SUBSET Nat, S # {}
  PROVE  /\ (CHOOSE i \in S : \A j \in S : i <= j) \in S
         /\ \A j \in S : (CHOOSE i \in S : \A k \in S : i <= k) <= j
  <1>1. \E i \in S : \A j \in S : i <= j
    BY LeastNat
  <1> QED BY <1>1

LEMMA PickProps ==
  ASSUME NEW c \in Seq(Class), NEW l, l.size \in Nat \ {0}, l.align \in Nat \ {0},
         PickClass(c, l) # 0
  PROVE  /\ PickClass(c, l) \in 1..Len(c)
         /\ l.size <= c[PickClass(c, l)].stride /\ l.align <= c[PickClass(c, l)].stride
  <1> DEFINE n == IF l.size > l.align THEN l.size ELSE l.align
             req == NextPowerOfTwo(n)
             S == {i \in DOMAIN c : req <= c[i].stride /\ c[i].stride <= LookupLimit}
  <1>1. n \in Nat \ {0} /\ l.size <= n /\ l.align <= n
    OBVIOUS
  <1> HIDE DEF n
  <1>2. req \in Nat /\ n <= req
    BY <1>1, NextPowerProps
  <1> HIDE DEF req
  <1>3. DOMAIN c = 1..Len(c) /\ Len(c) \in Nat
    OBVIOUS
  <1>4. S \in SUBSET Nat
    BY <1>3
  <1>5. PickClass(c, l) = IF S = {} THEN 0 ELSE CHOOSE i \in S : \A j \in S : i <= j
    BY DEF PickClass, n, req
  <1> HIDE DEF S
  <1>6. S # {} /\ PickClass(c, l) \in S
    BY <1>4, <1>5, FirstOf
  <1>7. PICK i : i = PickClass(c, l) /\ i \in S
    BY <1>6
  <1>8. i \in 1..Len(c) /\ req <= c[i].stride
    BY <1>3, <1>7 DEF S
  <1>9. c[i].stride \in Nat
    BY <1>8, ClassFields
  <1>10. l.size <= c[i].stride /\ l.align <= c[i].stride
    BY <1>1, <1>2, <1>8, <1>9
  <1> QED BY <1>7, <1>8, <1>10

LEMMA SlotAligned ==
  ASSUME NEW B, NEW b, NEW c, Regions(B, b, c), B.sbase \in Nat, NEW i \in 1..Len(c),
         NEW q \in Nat, NEW align \in Aligns, align <= c[i].stride
  PROVE  SlotAddr(B.sbase, c[i], q) % align = 0
  <1>1. c \in Seq(Class) /\ IsPowerOfTwo(c[i].stride) /\ (B.sbase + c[i].off) % c[i].stride = 0
    BY DEF Regions
  <1>2. PICK w \in Nat \ {0}, off \in Nat, at \in Nat :
             w = c[i].stride /\ off = c[i].off /\ at = B.sbase
    BY <1>1, ClassFields
  <1>3. align \in Nat \ {0} /\ IsPowerOfTwo(align)
    BY BumpOpsAssumption, RouterAssumption
  <1>4. PICK t \in Nat : w = t * align
    <2>1. w \in Nat /\ align \in Nat /\ IsPowerOfTwo(w) /\ align <= w
      BY <1>1, <1>2, <1>3
    <2> QED BY <1>3, <2>1, PowDivides
  <1>5. PICK u \in Nat : at + off = u * w
    <2>1. at + off \in Nat /\ (at + off) % w = 0
      BY <1>1, <1>2
    <2> QED BY <2>1, ModZero
  <1>6. u * w + q * w = (u + q) * w
    OBVIOUS
  <1>7. PICK v \in Nat : v = (u + q)
    OBVIOUS
  <1>8. v * (t * align) = (v * t) * align
    BY <1>3, TimesAssoc
  <1>9. PICK z \in Nat : z = v * t
    BY TimesNat
  <1>10. at + off + q * w = z * align
    BY <1>4, <1>5, <1>6, <1>7, <1>8, <1>9
  <1>11. (z * align) % align = 0
    BY <1>3, MultipleMod
  <1> QED BY <1>2, <1>10, <1>11 DEF SlotAddr

-----------------------------------------------------------------------------
(* An offer: the block it makes, in the state it leaves. *)
Now == Struct(conf, primary, backing, classes, mem, live, hist)

Tried(l) ==
  LET i == PickClass(classes, l)
  IN IF i = 0 THEN classes
     ELSE [classes EXCEPT ![i] = ClassAfterAllocate(conf.sbase, @, mem)]

NoSlot(l) ==
  \/ PickClass(classes, l) = 0
  \/ ~(SlotFor(conf.sbase, classes[PickClass(classes, l)], mem) >= 0)

LEMMA OfferCases ==
  ASSUME NEW l
  PROVE  \/ StackHasRoom(primary, conf.pbase, conf.pcap, l) /\ Offer(l) = PrimaryOffer(l)
         \/ /\ PickClass(classes, l) # 0
            /\ SlotFor(conf.sbase, classes[PickClass(classes, l)], mem) >= 0
            /\ Offer(l) = ClassOffer(Tried(l), PickClass(classes, l),
                                     SlotFor(conf.sbase, classes[PickClass(classes, l)], mem))
         \/ /\ NoSlot(l) /\ StackHasRoom(backing, conf.sbase, conf.scap, l)
            /\ Offer(l) = BackingOffer(Tried(l), l)
         \/ NoSlot(l) /\ Offer(l) = NoOffer(Tried(l))
  <1> DEFINE i == PickClass(classes, l)
             slot == IF i = 0 THEN -1 ELSE SlotFor(conf.sbase, classes[i], mem)
  <1>1. CASE StackHasRoom(primary, conf.pbase, conf.pcap, l)
    BY <1>1 DEF Offer
  <1>2. CASE ~StackHasRoom(primary, conf.pbase, conf.pcap, l)
    <2>1. Offer(l) = IF slot >= 0 THEN ClassOffer(Tried(l), i, slot)
                     ELSE IF StackHasRoom(backing, conf.sbase, conf.scap, l)
                          THEN BackingOffer(Tried(l), l) ELSE NoOffer(Tried(l))
      BY <1>2 DEF Offer, SecondaryOffer, Tried
    <2>2. CASE slot >= 0
      <3>1. i # 0 /\ slot = SlotFor(conf.sbase, classes[i], mem)
        BY <2>2
      <3> QED BY <2>1, <2>2, <3>1
    <2>3. CASE ~(slot >= 0)
      <3>1. NoSlot(l)
        BY <2>3 DEF NoSlot
      <3> QED BY <2>1, <2>3, <3>1
    <2> QED BY <2>2, <2>3
  <1> QED BY <1>1, <1>2

LEMMA TriedStruct ==
  ASSUME Now, NEW l \in Layout, NoSlot(l)
  PROVE  Struct(conf, primary, backing, Tried(l), mem, live, hist)
  <1>1. CASE PickClass(classes, l) = 0
    <2>1. Tried(l) = classes
      BY <1>1 DEF Tried
    <2> QED BY <2>1 DEF Now
  <1>2. CASE PickClass(classes, l) # 0
    <2>1. PICK i : i = PickClass(classes, l)
      OBVIOUS
    <2>2. classes \in Seq(Class)
      BY StructFacts, GroundFacts DEF Now
    <2>3. l.size \in Nat \ {0} /\ l.align \in Nat \ {0}
      BY LayoutProps
    <2>4. i \in 1..Len(classes)
      BY <1>2, <2>1, <2>2, <2>3, PickProps
    <2>5. ~(SlotFor(conf.sbase, classes[i], mem) >= 0)
      BY <1>2, <2>1 DEF NoSlot
    <2>6. Tried(l) = [classes EXCEPT ![i] = ClassAfterAllocate(conf.sbase, @, mem)]
      BY <1>2, <2>1 DEF Tried
    <2>7. Struct(conf, primary, backing, [classes EXCEPT ![i] = ClassAfterAllocate(conf.sbase, @, mem)],
                 mem, live, hist)
      BY <2>4, <2>5, TryClass DEF Now
    <2> QED BY <2>6, <2>7
  <1> QED BY <1>1, <1>2

(* The block a caller gets, whatever it then does with it. *)
Served(x, l, o) == Fitting(x, l) /\ x.home = o.home /\ x.class = o.class /\ x.ptr = o.ptr

Leaves(o, x) ==
  /\ Struct(conf, o.primary, o.backing, o.classes, mem, live \cup {x}, hist)
  /\ Extent(x, o.classes) = o.usable /\ x.size <= o.usable

LEMMA LayoutKnown ==
  ASSUME NEW l \in Layout
  PROVE  l.size \in Nat \ {0} /\ l.align \in Nat \ {0} /\ l.align \in Aligns
  <1>1. l.align \in Aligns
    BY DEF Layout
  <1> QED BY <1>1, LayoutProps

LEMMA PrimaryLeaves ==
  ASSUME Now, NEW l \in Layout, StackHasRoom(primary, conf.pbase, conf.pcap, l),
         NEW x, Served(x, l, PrimaryOffer(l))
  PROVE  Leaves(PrimaryOffer(l), x)
  <1> DEFINE o == PrimaryOffer(l)
  <1>1. /\ o.home = "primary" /\ o.usable = l.size
        /\ o.ptr = conf.pbase + AlignedOff(conf.pbase, primary.cursor, l)
        /\ o.primary = StackPush(primary, conf.pbase, l) /\ o.backing = backing
        /\ o.classes = classes
    BY DEF PrimaryOffer
  <1> HIDE DEF o
  <1>2. Fitting(x, l) /\ x.home = "primary" /\ x.ptr = conf.pbase + AlignedOff(conf.pbase, primary.cursor, l)
    BY <1>1 DEF Served, o
  <1>3. Struct(conf, StackPush(primary, conf.pbase, l), backing, classes, mem, live \cup {x}, hist)
    BY <1>2, PushPrimary DEF Now
  <1>4. Extent(x, o.classes) = x.size /\ x.size = l.size /\ x.size \in Nat
    BY <1>2 DEF Extent, Fitting
  <1>5. x.size <= o.usable /\ Extent(x, o.classes) = o.usable
    BY <1>1, <1>4
  <1> QED BY <1>1, <1>3, <1>5 DEF Leaves, o

LEMMA BackingLeaves ==
  ASSUME Now, NEW l \in Layout, NoSlot(l), StackHasRoom(backing, conf.sbase, conf.scap, l),
         NEW x, Served(x, l, BackingOffer(Tried(l), l))
  PROVE  Leaves(BackingOffer(Tried(l), l), x)
  <1> DEFINE o == BackingOffer(Tried(l), l)
  <1>1. /\ o.home = "backing" /\ o.usable = l.size /\ o.class = 0
        /\ o.ptr = conf.sbase + AlignedOff(conf.sbase, backing.cursor, l)
        /\ o.primary = primary /\ o.backing = StackPush(backing, conf.sbase, l)
        /\ o.classes = Tried(l)
    BY DEF BackingOffer
  <1> HIDE DEF o
  <1>2. /\ Fitting(x, l) /\ x.home = "backing" /\ x.class = 0
        /\ x.ptr = conf.sbase + AlignedOff(conf.sbase, backing.cursor, l)
    BY <1>1 DEF Served, o
  <1>3. Struct(conf, primary, StackPush(backing, conf.sbase, l), Tried(l), mem, live \cup {x}, hist)
    <2>1. Struct(conf, primary, backing, Tried(l), mem, live, hist)
      BY TriedStruct
    <2> QED BY <1>2, <2>1, PushBacking
  <1>4. Extent(x, o.classes) = x.size /\ x.size = l.size /\ x.size \in Nat
    BY <1>2 DEF Extent, Fitting
  <1>5. x.size <= o.usable /\ Extent(x, o.classes) = o.usable
    BY <1>1, <1>4
  <1> QED BY <1>1, <1>3, <1>5 DEF Leaves, o

LEMMA ClassLeaves ==
  ASSUME Now, NEW l \in Layout, NEW i, i = PickClass(classes, l), i # 0,
         NEW q, q = SlotFor(conf.sbase, classes[i], mem), q >= 0,
         NEW x, Served(x, l, ClassOffer(Tried(l), i, q))
  PROVE  Leaves(ClassOffer(Tried(l), i, q), x)
  <1> DEFINE o == ClassOffer(Tried(l), i, q)
  <1>1. /\ o.home = "class" /\ o.usable = classes[i].stride /\ o.class = i
        /\ o.ptr = SlotAddr(conf.sbase, classes[i], q)
        /\ o.primary = primary /\ o.backing = backing /\ o.classes = Tried(l)
    BY DEF ClassOffer
  <1> HIDE DEF o
  <1>2. /\ Fitting(x, l) /\ x.home = "class" /\ x.class = i
        /\ x.ptr = SlotAddr(conf.sbase, classes[i], q)
    BY <1>1 DEF Served, o
  <1>3. /\ classes \in Seq(Class) /\ Regions(conf, backing, classes) /\ conf.sbase \in Nat
        /\ Ground(conf, primary, backing, classes) /\ BlocksOk(live) /\ hist.strays \in Nat
    BY StructFacts, GroundFacts DEF Now, HistOk
  <1>4. l.size \in Nat \ {0} /\ l.align \in Nat \ {0} /\ l.align \in Aligns
    BY LayoutKnown
  <1>5. i \in 1..Len(classes) /\ l.size <= classes[i].stride /\ l.align <= classes[i].stride
    BY <1>3, <1>4, PickProps
  <1>6. x.size <= classes[i].stride
    BY <1>2, <1>5 DEF Fitting
  <1>7. q \in 0..(classes[i].slots - 1)
    <2>1. PICK cl \in Class : cl = classes[i]
      BY <1>3, <1>5
    <2>2. PICK X : X = OfClass(live, i)
      OBVIOUS
    <2>3. IsFiniteSet(X) /\ ClassOk(conf, cl, mem, X, hist.strays)
      BY <1>3, <1>5, <2>1, <2>2, HomeFinite, StructFacts DEF Now
    <2>4. q = SlotFor(conf.sbase, cl, mem)
      BY <2>1
    <2>5. q \in 0..(cl.slots - 1)
      BY <1>2, <1>3, <1>6, <2>1, <2>3, <2>4, ClassTake
    <2> QED BY <2>1, <2>5
  <1>8. BlockOk(x)
    <2>1. x.ptr \in Nat
      BY <1>2, <1>3, <1>5, <1>7, SlotInRegion
    <2>2. q \in Nat
      BY <1>7
    <2>3. PICK align \in Aligns : align = l.align
      BY <1>4
    <2>4. x.ptr % align = 0
      BY <1>2, <1>3, <1>5, <2>2, <2>3, SlotAligned
    <2> QED BY <1>2, <2>1, <2>3, <2>4, FittingBlock
  <1>9. Struct(conf, primary, backing, [classes EXCEPT ![i] = ClassAfterAllocate(conf.sbase, @, mem)],
               mem, live \cup {x}, hist)
    BY <1>2, <1>5, <1>6, <1>8, TakeClass DEF Now
  <1>10. Tried(l) = [classes EXCEPT ![i] = ClassAfterAllocate(conf.sbase, @, mem)]
    BY DEF Tried
  <1>11. o.classes[i].stride = classes[i].stride
    <2>2. ClassAfterAllocate(conf.sbase, classes[i], mem).stride = classes[i].stride
      <3>1. classes[i] \in Class
        BY <1>3, <1>5
      <3> QED BY <3>1 DEF ClassAfterAllocate, Class
    <2> QED BY <1>1, <1>3, <1>5, <1>10, <2>2
  <1>12. Extent(x, o.classes) = o.usable /\ x.size <= o.usable
    BY <1>1, <1>2, <1>6, <1>11 DEF Extent
  <1> QED BY <1>1, <1>9, <1>10, <1>12 DEF Leaves, o

LEMMA OfferLeaves ==
  ASSUME Now, NEW l \in Layout, Offer(l).home # "none", NEW x, Served(x, l, Offer(l))
  PROVE  Leaves(Offer(l), x)
  <1>1. CASE StackHasRoom(primary, conf.pbase, conf.pcap, l) /\ Offer(l) = PrimaryOffer(l)
    BY <1>1, PrimaryLeaves
  <1>2. CASE /\ PickClass(classes, l) # 0
             /\ SlotFor(conf.sbase, classes[PickClass(classes, l)], mem) >= 0
             /\ Offer(l) = ClassOffer(Tried(l), PickClass(classes, l),
                                      SlotFor(conf.sbase, classes[PickClass(classes, l)], mem))
    BY <1>2, ClassLeaves
  <1>3. CASE /\ NoSlot(l) /\ StackHasRoom(backing, conf.sbase, conf.scap, l)
             /\ Offer(l) = BackingOffer(Tried(l), l)
    BY <1>3, BackingLeaves
  <1>4. CASE NoSlot(l) /\ Offer(l) = NoOffer(Tried(l))
    <2>1. Offer(l).home = "none"
      BY <1>4 DEF NoOffer
    <2> QED BY <2>1
  <1> QED BY <1>1, <1>2, <1>3, <1>4, OfferCases

LEMMA NoOfferLeaves ==
  ASSUME Now, NEW l \in Layout, Offer(l).home = "none"
  PROVE  Struct(conf, Offer(l).primary, Offer(l).backing, Offer(l).classes, mem, live, hist)
  <1>1. CASE StackHasRoom(primary, conf.pbase, conf.pcap, l) /\ Offer(l) = PrimaryOffer(l)
    <2>1. Offer(l).home = "primary"
      BY <1>1 DEF PrimaryOffer
    <2> QED BY <2>1
  <1>2. CASE /\ PickClass(classes, l) # 0
             /\ SlotFor(conf.sbase, classes[PickClass(classes, l)], mem) >= 0
             /\ Offer(l) = ClassOffer(Tried(l), PickClass(classes, l),
                                      SlotFor(conf.sbase, classes[PickClass(classes, l)], mem))
    <2>1. Offer(l).home = "class"
      BY <1>2 DEF ClassOffer
    <2> QED BY <2>1
  <1>3. CASE /\ NoSlot(l) /\ StackHasRoom(backing, conf.sbase, conf.scap, l)
             /\ Offer(l) = BackingOffer(Tried(l), l)
    <2>1. Offer(l).home = "backing"
      BY <1>3 DEF BackingOffer
    <2> QED BY <2>1
  <1>4. CASE NoSlot(l) /\ Offer(l) = NoOffer(Tried(l))
    <2>1. Offer(l).primary = primary /\ Offer(l).backing = backing /\ Offer(l).classes = Tried(l)
      BY <1>4 DEF NoOffer
    <2> QED BY <1>4, <2>1, TriedStruct
  <1> QED BY <1>1, <1>2, <1>3, <1>4, OfferCases

-----------------------------------------------------------------------------
(* A free is routed by address to the allocator, and to the class, that    *)
(* served the block.                                                       *)
InClassRegion(B, c, i, ptr) == ptr - (B.sbase + c[i].off) \in 0..(c[i].slots * c[i].stride - 1)

(* An address at or above the end of a region, or below it, is outside. *)
LEMMA OutsideRegion ==
  ASSUME NEW B, NEW b, NEW c, Regions(B, b, c), NEW i \in 1..Len(c), B.sbase \in Nat,
         NEW ptr \in Nat,
         ptr < B.sbase + c[i].off \/ B.sbase + c[i].off + c[i].slots * c[i].stride <= ptr
  PROVE  ~InClassRegion(B, c, i, ptr)
  <1>1. c \in Seq(Class)
    BY DEF Regions
  <1>2. PICK w \in Nat, off \in Nat, n \in Nat, at \in Nat :
             w = c[i].stride /\ off = c[i].off /\ n = c[i].slots /\ at = B.sbase
    BY <1>1, ClassFields
  <1>3. n * w \in Nat
    BY TimesNat
  <1>4. PICK z \in Nat : z = n * w
    BY <1>3
  <1>5. ptr < at + off \/ at + off + z <= ptr
    BY <1>2, <1>4
  <1>6. ~(ptr - (at + off) \in 0..(z - 1))
    BY <1>5
  <1> QED BY <1>2, <1>4, <1>6 DEF InClassRegion

LEMMA InsideRegion ==
  ASSUME NEW B, NEW b, NEW c, Regions(B, b, c), NEW i \in 1..Len(c), B.sbase \in Nat,
         NEW q \in 0..(c[i].slots - 1), NEW ptr, ptr = SlotAddr(B.sbase, c[i], q)
  PROVE  InClassRegion(B, c, i, ptr)
  <1>1. c \in Seq(Class)
    BY DEF Regions
  <1>2. /\ ptr \in Nat /\ B.sbase + c[i].off <= ptr
        /\ ptr + c[i].stride <= B.sbase + c[i].off + c[i].slots * c[i].stride
    BY SlotInRegion
  <1>3. PICK w \in Nat, off \in Nat, n \in Nat, at \in Nat :
             w = c[i].stride /\ off = c[i].off /\ n = c[i].slots /\ at = B.sbase /\ w > 0
    BY <1>1, ClassFields
  <1>4. PICK z \in Nat : z = n * w
    BY TimesNat
  <1>5. at + off <= ptr /\ ptr + w <= at + off + z
    BY <1>2, <1>3, <1>4
  <1>6. ptr - (at + off) \in 0..(z - 1)
    <2>1. ptr \in Nat
      BY <1>2
    <2>2. w > 0
      BY <1>3
    <2> QED BY <1>5, <2>1, <2>2
  <1> QED BY <1>3, <1>4, <1>6 DEF InClassRegion

(* A block of frame k is above the regions of the classes before k. *)
LEMMA AboveRegions ==
  ASSUME NEW B, NEW p, NEW b, NEW c, Ground(B, p, b, c), NEW k \in 1..Len(b.frames),
         NEW i \in 1..Len(c), i < k, NEW ptr \in Nat, B.sbase + b.frames[k].off <= ptr
  PROVE  ~InClassRegion(B, c, i, ptr)
  <1>1. /\ StackOk(b, B.scap) /\ Regions(B, b, c) /\ B.sbase \in Nat /\ B.scap \in Nat
        /\ c \in Seq(Class) /\ Len(c) <= Len(b.frames) /\ Len(b.frames) \in Nat /\ Len(c) \in Nat
    BY GroundFacts
  <1>2. i \in 1..Len(b.frames)
    BY <1>1
  <1>3. Bound(b, i + 1) <= b.frames[k].off
    BY <1>1, <1>2, FrameOrder
  <1>4. c[i].off + c[i].slots * c[i].stride <= Bound(b, i + 1)
    BY <1>1 DEF Regions
  <1>5. b.frames[k].off \in Nat /\ Bound(b, i + 1) \in Nat
    BY <1>1, <1>2, FrameInside
  <1>6. PICK off \in Nat, z \in Nat, at \in Nat :
             off = c[i].off /\ z = c[i].slots * c[i].stride /\ at = B.sbase
    <2>1. c[i].off \in Nat /\ c[i].slots \in Nat /\ c[i].stride \in Nat
      BY <1>1, ClassFields
    <2> QED BY <1>1, <2>1, TimesNat
  <1>7. at + off + z <= ptr
    <2>1. PICK u \in Nat, v \in Nat : u = b.frames[k].off /\ v = Bound(b, i + 1)
      BY <1>5
    <2>2. off + z <= v
      BY <1>4, <1>6, <2>1
    <2>3. v <= u
      BY <1>3, <2>1
    <2>4. at + u <= ptr
      BY <1>6, <2>1
    <2> QED BY <2>2, <2>3, <2>4
  <1>8. B.sbase + c[i].off + c[i].slots * c[i].stride <= ptr
    BY <1>6, <1>7
  <1> QED BY <1>1, <1>8, OutsideRegion

(* A slot is below the regions of the classes after its own. *)
LEMMA BelowRegions ==
  ASSUME NEW B, NEW p, NEW b, NEW c, Ground(B, p, b, c), NEW k \in 1..Len(c),
         NEW q \in 0..(c[k].slots - 1), NEW ptr, ptr = SlotAddr(B.sbase, c[k], q),
         NEW i \in 1..Len(c), k < i
  PROVE  ~InClassRegion(B, c, i, ptr)
  <1>1. /\ StackOk(b, B.scap) /\ Regions(B, b, c) /\ B.sbase \in Nat /\ B.scap \in Nat
        /\ c \in Seq(Class) /\ Len(c) <= Len(b.frames) /\ Len(b.frames) \in Nat /\ Len(c) \in Nat
    BY GroundFacts
  <1>2. i \in 1..Len(b.frames) /\ k \in 1..Len(b.frames)
    BY <1>1
  <1>3. Bound(b, k + 1) <= b.frames[i].off
    BY <1>1, <1>2, FrameOrder
  <1>4. /\ c[k].off + c[k].slots * c[k].stride <= Bound(b, k + 1)
        /\ c[i].off = b.frames[i].off
    BY <1>1 DEF Regions
  <1>5. b.frames[i].off \in Nat /\ Bound(b, k + 1) \in Nat
    BY <1>1, <1>2, FrameInside
  <1>6. PICK off \in Nat, z \in Nat, at \in Nat, w \in Nat :
             off = c[k].off /\ z = c[k].slots * c[k].stride /\ at = B.sbase /\ w = c[k].stride /\ w > 0
    <2>1. c[k].off \in Nat /\ c[k].slots \in Nat /\ c[k].stride \in Nat /\ c[k].stride > 0
      BY <1>1, ClassFields
    <2>2. c[k].slots * c[k].stride \in Nat
      BY <2>1, TimesNat
    <2> QED BY <1>1, <2>1, <2>2
  <1>7. ptr \in Nat /\ ptr + w <= at + off + z
    <2>1. ptr \in Nat /\ ptr + c[k].stride <= B.sbase + c[k].off + c[k].slots * c[k].stride
      BY <1>1, SlotInRegion
    <2> QED BY <1>6, <2>1
  <1>8. ptr < at + c[i].off
    <2>1. PICK u \in Nat, v \in Nat : u = b.frames[i].off /\ v = Bound(b, k + 1)
      BY <1>5
    <2>2. off + z <= v
      BY <1>4, <1>6, <2>1
    <2>3. v <= u /\ u = c[i].off
      BY <1>3, <1>4, <2>1
    <2>4. w > 0
      BY <1>6
    <2>5. ptr < at + u
      BY <1>7, <2>2, <2>3, <2>4, SMTT(30)
    <2> QED BY <2>3, <2>5
  <1>9. ptr < B.sbase + c[i].off
    BY <1>6, <1>8
  <1> QED BY <1>1, <1>7, <1>9, OutsideRegion

LEMMA RouteNone ==
  ASSUME NEW B, NEW c \in Seq(Class), NEW ptr, \A i \in 1..Len(c) : ~InClassRegion(B, c, i, ptr)
  PROVE  RouteDealloc(B.sbase, c, ptr) = 0
  <1> DEFINE H == {i \in DOMAIN c : ptr - (B.sbase + c[i].off) \in 0..(c[i].slots * c[i].stride - 1)}
  <1>1. H = {i \in DOMAIN c : InClassRegion(B, c, i, ptr)}
    BY DEF InClassRegion
  <1>2. H = {}
    <2>1. DOMAIN c = 1..Len(c)
      OBVIOUS
    <2> HIDE DEF H
    <2> QED BY <1>1, <2>1
  <1>3. RouteDealloc(B.sbase, c, ptr) = IF H = {} THEN 0 ELSE CHOOSE i \in H : \A j \in H : i <= j
    BY DEF RouteDealloc
  <1> QED BY <1>2, <1>3

LEMMA RouteOne ==
  ASSUME NEW B, NEW c \in Seq(Class), NEW ptr, NEW k \in 1..Len(c), InClassRegion(B, c, k, ptr),
         \A i \in 1..Len(c) : i # k => ~InClassRegion(B, c, i, ptr)
  PROVE  RouteDealloc(B.sbase, c, ptr) = k
  <1> DEFINE H == {i \in DOMAIN c : ptr - (B.sbase + c[i].off) \in 0..(c[i].slots * c[i].stride - 1)}
  <1>1. H = {i \in DOMAIN c : InClassRegion(B, c, i, ptr)}
    BY DEF InClassRegion
  <1>2. H = {k}
    <2>1. DOMAIN c = 1..Len(c)
      OBVIOUS
    <2> HIDE DEF H
    <2> QED BY <1>1, <2>1
  <1>3. RouteDealloc(B.sbase, c, ptr) = IF H = {} THEN 0 ELSE CHOOSE i \in H : \A j \in H : i <= j
    BY DEF RouteDealloc
  <1> HIDE DEF H
  <1>4. H \in SUBSET Nat /\ H # {}
    BY <1>2
  <1>5. RouteDealloc(B.sbase, c, ptr) \in H
    BY <1>3, <1>4, FirstOf
  <1> QED BY <1>2, <1>5

LEMMA RouteBacking ==
  ASSUME NEW B, NEW p, NEW b, NEW c, NEW m, NEW L, NEW h, Struct(B, p, b, c, m, L, h),
         NEW x \in L, x.home = "backing"
  PROVE  RouteDealloc(B.sbase, c, x.ptr) = 0
  <1>1. Ground(B, p, b, c) /\ BlocksOk(L) /\ c \in Seq(Class) /\ Len(c) \in Nat /\ B.sbase \in Nat
    BY StructFacts, GroundFacts
  <1>2. x.ptr \in Nat
    BY <1>1, HomeSized
  <1>3. x \in OfHome(L, "backing")
    BY DEF OfHome
  <1>4. PICK k \in (Len(c) + 1)..Len(b.frames) : InFrame(b, B.sbase, k, x.ptr, x.size)
    BY <1>3, StructFacts DEF StackBlocks
  <1>5. Len(b.frames) \in Nat
    BY <1>1, GroundFacts
  <1>6. k \in 1..Len(b.frames) /\ \A i \in 1..Len(c) : i < k
    BY <1>1, <1>4, <1>5
  <1>7. x.ptr = B.sbase + b.frames[k].off
    BY <1>4 DEF InFrame
  <1>8. B.sbase + b.frames[k].off <= x.ptr
    BY <1>2, <1>7
  <1>9. \A i \in 1..Len(c) : ~InClassRegion(B, c, i, x.ptr)
    BY <1>1, <1>2, <1>6, <1>8, AboveRegions
  <1> QED BY <1>1, <1>9, RouteNone

LEMMA RouteClass ==
  ASSUME NEW B, NEW p, NEW b, NEW c, NEW m, NEW L, NEW h, Struct(B, p, b, c, m, L, h),
         NEW x \in L, x.home = "class"
  PROVE  /\ RouteDealloc(B.sbase, c, x.ptr) = x.class /\ x.class # 0
  <1>1. /\ Ground(B, p, b, c) /\ BlocksOk(L) /\ c \in Seq(Class) /\ Len(c) \in Nat /\ B.sbase \in Nat
        /\ Regions(B, b, c) /\ Len(b.frames) \in Nat /\ Len(c) <= Len(b.frames)
    BY StructFacts, GroundFacts
  <1>2. PICK k \in 1..Len(c) : k = x.class
    BY ClassPlace
  <1>3. PICK u \in Nat : Place(B, p, b, c, "backing", k, u, x.ptr, Extent(x, c))
    BY <1>2, ClassPlace
  <1>4. u \in 0..(c[k].slots - 1) /\ x.ptr = SlotAddr(B.sbase, c[k], u)
    BY <1>1, <1>3 DEF Place
  <1>5. InClassRegion(B, c, k, x.ptr)
    BY <1>1, <1>4, InsideRegion
  <1>6. x.ptr \in Nat /\ B.sbase + c[k].off <= x.ptr
    BY <1>1, <1>4, SlotInRegion
  <1>7. k \in 1..Len(b.frames) /\ B.sbase + b.frames[k].off <= x.ptr
    BY <1>1, <1>6 DEF Regions
  <1>8. ASSUME NEW i \in 1..Len(c), i # k PROVE ~InClassRegion(B, c, i, x.ptr)
    <2>1. CASE i < k
      BY <1>1, <1>6, <1>7, <2>1, AboveRegions
    <2>2. CASE k < i
      BY <1>1, <1>4, <2>2, BelowRegions
    <2> QED BY <1>8, <2>1, <2>2
  <1>9. RouteDealloc(B.sbase, c, x.ptr) = k
    BY <1>1, <1>5, <1>8, RouteOne
  <1> QED BY <1>2, <1>9

LEMMA Disjointness ==
  ASSUME NEW B, BuildOk(B), NEW ptr \in Nat, B.sbase <= ptr, ptr < B.sbase + B.scap
  PROVE  ~InRange(B.pbase, B.pcap, ptr)
BY DEF BuildOk, RangesDisjoint, InRange

LEMMA PlaceRange ==
  ASSUME NEW B, NEW p, NEW b, NEW c, NEW m, NEW L, NEW h, Struct(B, p, b, c, m, L, h),
         NEW x \in L, x.size > 0
  PROVE  InRange(B.pbase, B.pcap, x.ptr) <=> x.home = "primary"
  <1>1. /\ Ground(B, p, b, c) /\ BlocksOk(L) /\ B.sbase \in Nat /\ B.scap \in Nat
        /\ B.pbase \in Nat /\ B.pcap \in Nat /\ StackOk(p, B.pcap) /\ StackOk(b, B.scap) /\ BuildOk(B)
    BY StructFacts, GroundFacts
  <1>2. x.home \in {"primary", "backing", "class"} /\ x.size \in Nat /\ x.ptr \in Nat
    BY <1>1, SizedBlock
  <1>3. PICK w : w = Extent(x, c)
    OBVIOUS
  <1>4. w \in Nat /\ w > 0
    <2>1. Extent(x, c) \in Nat /\ x.size <= Extent(x, c)
      BY LivePlace
    <2> QED BY <1>2, <1>3, <2>1
  <1>5. CASE x.home = "primary"
    <2>1. PICK k : Place(B, p, b, c, "primary", k, 0, x.ptr, w)
      BY <1>3, <1>5, StackPlace
    <2>2. InsideFrame(StackOf("primary", p, b), BaseOf("primary", B), k, x.ptr, w)
      BY <1>1, <1>4, <2>1, PlaceInFrame
    <2>3. InsideFrame(p, B.pbase, k, x.ptr, w)
      BY <2>2 DEF StackOf, BaseOf
    <2>4. B.pbase <= x.ptr /\ x.ptr + w <= B.pbase + B.pcap
      BY <1>1, <1>4, <2>3, InRegionOf
    <2>5. InRange(B.pbase, B.pcap, x.ptr)
      BY <1>1, <1>2, <1>4, <2>4 DEF InRange
    <2> QED BY <1>5, <2>5
  <1>6. CASE x.home # "primary"
    <2>1. \E k, u : Place(B, p, b, c, "backing", k, u, x.ptr, w)
      <3>1. CASE x.home = "backing"
        BY <1>3, <3>1, StackPlace
      <3>2. CASE x.home = "class"
        <4>1. \E u \in Nat : Place(B, p, b, c, "backing", x.class, u, x.ptr, w)
          BY <1>3, <3>2, ClassPlace
        <4> QED BY <4>1
      <3> QED BY <1>2, <1>6, <3>1, <3>2
    <2>2. PICK k, u : Place(B, p, b, c, "backing", k, u, x.ptr, w)
      BY <2>1
    <2>3. InsideFrame(StackOf("backing", p, b), BaseOf("backing", B), k, x.ptr, w)
      BY <1>1, <1>4, <2>2, PlaceInFrame
    <2>4. InsideFrame(b, B.sbase, k, x.ptr, w)
      BY <2>3 DEF StackOf, BaseOf
    <2>5. B.sbase <= x.ptr /\ x.ptr + w <= B.sbase + B.scap
      BY <1>1, <1>4, <2>4, InRegionOf
    <2>6. x.ptr < B.sbase + B.scap
      BY <1>1, <1>2, <1>4, <2>5
    <2>7. ~InRange(B.pbase, B.pcap, x.ptr)
      BY <1>1, <1>2, <2>5, <2>6, Disjointness
    <2> QED BY <1>6, <2>7
  <1> QED BY <1>5, <1>6

LEMMA Routed ==
  ASSUME NEW p, NEW b, NEW c, NEW m, NEW L, NEW h, Struct(conf, p, b, c, m, L, h),
         NEW x \in L, x.size > 0
  PROVE  /\ Route(c, x.ptr) = x.home /\ x.home \in {"primary", "backing", "class"}
         /\ x.home # "primary" => RouteDealloc(conf.sbase, c, x.ptr) = x.class
  <1>1. x.home \in {"primary", "backing", "class"} /\ BlockOk(x)
    <2>1. BlocksOk(L)
      BY StructFacts
    <2> QED BY <2>1, SizedBlock DEF BlocksOk
  <1>2. InRange(conf.pbase, conf.pcap, x.ptr) <=> x.home = "primary"
    BY PlaceRange
  <1>3. CASE x.home = "primary"
    BY <1>2, <1>3 DEF Route
  <1>4. CASE x.home = "backing"
    <2>1. RouteDealloc(conf.sbase, c, x.ptr) = 0
      BY <1>4, RouteBacking
    <2>2. x.class = 0
      BY <1>1, <1>4 DEF BlockOk
    <2> QED BY <1>2, <1>4, <2>1, <2>2 DEF Route
  <1>5. CASE x.home = "class"
    <2>1. RouteDealloc(conf.sbase, c, x.ptr) = x.class /\ x.class # 0
      BY <1>5, RouteClass
    <2> QED BY <1>2, <1>5, <2>1 DEF Route
  <1> QED BY <1>1, <1>3, <1>4, <1>5

-----------------------------------------------------------------------------
(* The pieces of the actions. *)
SameCounts(h, g) == g.strays = h.strays /\ g.pignored = h.pignored /\ g.bignored = h.bignored

LEMMA StructHist ==
  ASSUME NEW B, NEW p, NEW b, NEW c, NEW m, NEW L, NEW h, Struct(B, p, b, c, m, L, h),
         NEW g, SameCounts(h, g)
  PROVE  Struct(B, p, b, c, m, L, g)
BY DEF SameCounts, Struct, HistOk

(* The fields of Freed, by the home of the block. *)
Counts(h, g, f) ==
  /\ g.strays = h.strays /\ g.pignored = h.pignored + f.pignored
  /\ g.bignored = h.bignored + f.bignored

LEMMA FreedPrimary ==
  ASSUME NEW x, NEW p, NEW b, NEW c, NEW m, Route(c, x.ptr) = "primary"
  PROVE  LET f == Freed(x, p, b, c, m)
         IN /\ f.p = StackFree(p, x.ptr - conf.pbase) /\ f.b = b /\ f.c = c /\ f.m = m
            /\ f.pignored = Ignored(p, x.ptr - conf.pbase) /\ f.bignored = 0
  <1>1. Freed(x, p, b, c, m) =
          [p |-> StackFree(p, x.ptr - conf.pbase), b |-> b, c |-> c, m |-> m,
           pignored |-> Ignored(p, x.ptr - conf.pbase), bignored |-> 0]
    BY DEF Freed, Ignored
  <1> QED BY <1>1

LEMMA FreedBacking ==
  ASSUME NEW x, NEW p, NEW b, NEW c, NEW m, Route(c, x.ptr) = "backing"
  PROVE  LET f == Freed(x, p, b, c, m)
         IN /\ f.p = p /\ f.b = StackFree(b, x.ptr - conf.sbase) /\ f.c = c /\ f.m = m
            /\ f.bignored = Ignored(b, x.ptr - conf.sbase) /\ f.pignored = 0
  <1>1. Freed(x, p, b, c, m) =
          [p |-> p, b |-> StackFree(b, x.ptr - conf.sbase), c |-> c, m |-> m,
           pignored |-> 0, bignored |-> Ignored(b, x.ptr - conf.sbase)]
    BY DEF Freed, Ignored
  <1> QED BY <1>1

LEMMA FreedClass ==
  ASSUME NEW x, NEW p, NEW b, NEW c, NEW m, Route(c, x.ptr) = "class",
         NEW i, i = RouteDealloc(conf.sbase, c, x.ptr), IsSlot(conf.sbase, c[i], x.ptr)
  PROVE  LET f == Freed(x, p, b, c, m)
         IN /\ f.p = p /\ f.b = b /\ f.bignored = 0 /\ f.pignored = 0
            /\ f.c = [c EXCEPT ![i] = ClassAfterFree(conf.sbase, @, x.ptr)]
            /\ f.m = [m EXCEPT ![x.ptr] = LinkTo(c[i].head)]
  <1> DEFINE nc == [c EXCEPT ![i] = ClassAfterFree(conf.sbase, @, x.ptr)]
             nm == [m EXCEPT ![x.ptr] = LinkTo(c[i].head)]
  <1>1. Freed(x, p, b, c, m) =
          [p |-> p, b |-> b, c |-> nc, m |-> nm, pignored |-> 0, bignored |-> 0]
    BY DEF Freed
  <1> HIDE DEF nc, nm
  <1>2. LET f == Freed(x, p, b, c, m)
        IN f.p = p /\ f.b = b /\ f.bignored = 0 /\ f.pignored = 0 /\ f.c = nc /\ f.m = nm
    BY <1>1
  <1> QED BY <1>2 DEF nc, nm

FreedOk(f, L, x, g) ==
  Struct(conf, f.p, f.b, f.c, f.m, L \ {x}, g) /\ Contents(f.m, L \ {x})

LEMMA FreeLemma ==
  ASSUME NEW p, NEW b, NEW c, NEW m, NEW L, NEW h, Struct(conf, p, b, c, m, L, h),
         Contents(m, L), NEW x \in L, x.size > 0, NEW f, f = Freed(x, p, b, c, m),
         NEW g, Counts(h, g, f)
  PROVE  FreedOk(f, L, x, g)
  <1>1. /\ Route(c, x.ptr) = x.home /\ x.home \in {"primary", "backing", "class"}
        /\ x.home # "primary" => RouteDealloc(conf.sbase, c, x.ptr) = x.class
    BY Routed
  <1>2. HistOk(h)
    BY StructFacts
  <1>3. Contents(m, L \ {x})
    BY DEF Contents
  <1>4. CASE x.home = "primary"
    <2>1. /\ f.p = StackFree(p, x.ptr - conf.pbase) /\ f.b = b /\ f.c = c /\ f.m = m
          /\ f.pignored = Ignored(p, x.ptr - conf.pbase) /\ f.bignored = 0
      BY <1>1, <1>4, FreedPrimary
    <2>2. /\ g.strays = h.strays /\ g.bignored = h.bignored
          /\ g.pignored = h.pignored + Ignored(p, x.ptr - conf.pbase)
      BY <1>2, <2>1 DEF Counts, HistOk
    <2>3. Struct(conf, StackFree(p, x.ptr - conf.pbase), b, c, m, L \ {x}, g)
      BY <1>4, <2>2, FreePrimary
    <2> QED BY <1>3, <2>1, <2>3 DEF FreedOk
  <1>5. CASE x.home = "backing"
    <2>1. /\ f.p = p /\ f.b = StackFree(b, x.ptr - conf.sbase) /\ f.c = c /\ f.m = m
          /\ f.bignored = Ignored(b, x.ptr - conf.sbase) /\ f.pignored = 0
      BY <1>1, <1>5, FreedBacking
    <2>2. /\ g.strays = h.strays /\ g.pignored = h.pignored
          /\ g.bignored = h.bignored + Ignored(b, x.ptr - conf.sbase)
      BY <1>2, <2>1 DEF Counts, HistOk
    <2>3. Struct(conf, p, StackFree(b, x.ptr - conf.sbase), c, m, L \ {x}, g)
      BY <1>5, <2>2, FreeBacking
    <2> QED BY <1>3, <2>1, <2>3 DEF FreedOk
  <1>6. CASE x.home = "class"
    <2>1. PICK i : i = x.class
      OBVIOUS
    <2> DEFINE nc == [c EXCEPT ![i] = ClassAfterFree(conf.sbase, @, x.ptr)]
               nm == [m EXCEPT ![x.ptr] = LinkTo(c[i].head)]
    <2>2. /\ IsSlot(conf.sbase, c[i], x.ptr)
          /\ WritesOnly(conf, m, nm, x.ptr, Extent(x, c))
          /\ Struct(conf, p, b, nc, nm, L \ {x}, h)
      BY <1>6, <2>1, FreeClass
    <2>3. i = RouteDealloc(conf.sbase, c, x.ptr) /\ Route(c, x.ptr) = "class"
      BY <1>1, <1>6, <2>1
    <2>4. f.p = p /\ f.b = b /\ f.bignored = 0 /\ f.pignored = 0 /\ f.c = nc /\ f.m = nm
      BY <2>2, <2>3, FreedClass
    <2> HIDE DEF nc, nm
    <2>5. SameCounts(h, g)
      BY <1>2, <2>4 DEF Counts, SameCounts, HistOk
    <2>6. Struct(conf, p, b, nc, nm, L \ {x}, g)
      BY <2>2, <2>5, StructHist
    <2>7. Contents(nm, L \ {x})
      BY <1>3, <2>2, ContentsApart
    <2> QED BY <2>4, <2>6, <2>7 DEF FreedOk
  <1> QED BY <1>1, <1>4, <1>5, <1>6

(* Zero-sized blocks are nowhere. *)
LEMMA SameBlocks ==
  ASSUME NEW B, NEW p, NEW b, NEW c, NEW m, NEW L, NEW h, Struct(B, p, b, c, m, L, h),
         NEW N, BlocksOk(N), SameElsewhere(L, N, 0, Len(c))
  PROVE  Struct(B, p, b, c, m, N, h)
  <1>1. Ground(B, p, b, c) /\ HistOk(h) /\ m = [a \in Cells(B) |-> m[a]]
    BY StructFacts
  <1>2. /\ OfHome(N, "primary") = OfHome(L, "primary") /\ OfHome(N, "backing") = OfHome(L, "backing")
        /\ \A i \in 1..Len(c) : OfClass(N, i) = OfClass(L, i)
        /\ \A x \in OfHome(N, "class") : x.class \in 1..Len(c)
    BY DEF SameElsewhere
  <1>3. /\ StackBlocks(p, B.pbase, 1, OfHome(N, "primary"), h.pignored)
        /\ StackBlocks(b, B.sbase, Len(c) + 1, OfHome(N, "backing"), Len(c) + h.bignored)
    BY <1>2, StructFacts
  <1>4. \A i \in 1..Len(c) : ClassOk(B, c[i], m, OfClass(N, i), h.strays)
    <2>1. \A i \in 1..Len(c) : ClassOk(B, c[i], m, OfClass(L, i), h.strays)
      BY StructFacts
    <2> QED BY <1>2, <2>1, Zenon
  <1> QED BY <1>1, <1>2, <1>3, <1>4 DEF Struct

LEMMA DanglingRemoved ==
  ASSUME NEW B, NEW p, NEW b, NEW c, NEW m, NEW L, NEW h, Struct(B, p, b, c, m, L, h),
         NEW x \in L, x.size = 0
  PROVE  Struct(B, p, b, c, m, L \ {x}, h)
  <1>1. BlocksOk(L) /\ BlocksOk(L \ {x})
    BY StructFacts, BlocksRemove
  <1>2. x.home = "dangling"
    BY <1>1 DEF BlocksOk, BlockOk
  <1>3. x.home # "primary" /\ x.home # "backing" /\ x.home # "class"
    BY <1>2
  <1>4. \A w \in {"primary", "backing", "class"} : OfHome(L \ {x}, w) = OfHome(L, w)
    BY <1>3, HomeRemoveOther
  <1>5. \A i : OfClass(L \ {x}, i) = OfClass(L, i)
    BY <1>3, ClassRemoveOther, Zenon
  <1>6. /\ OfHome(L \ {x}, "primary") = OfHome(L, "primary")
        /\ OfHome(L \ {x}, "backing") = OfHome(L, "backing")
        /\ OfHome(L \ {x}, "class") = OfHome(L, "class")
    BY <1>4
  <1>7. SameElsewhere(L, L \ {x}, 0, Len(c))
    <2>1. \A y \in OfHome(L, "class") : y.class \in 1..Len(c)
      BY StructFacts
    <2> QED BY <1>5, <1>6, <2>1 DEF SameElsewhere
  <1> QED BY <1>1, <1>7, SameBlocks

LEMMA DanglingAdded ==
  ASSUME NEW B, NEW p, NEW b, NEW c, NEW m, NEW L, NEW h, Struct(B, p, b, c, m, L, h),
         NEW x, x.size = 0, x.known = 0, x.home = "dangling", x.align \in Aligns
  PROVE  Struct(B, p, b, c, m, L \cup {x}, h)
  <1>1. BlocksOk(L)
    BY StructFacts
  <1>2. BlocksOk(L \cup {x})
    <2>1. BlockOk(x)
      BY DEF BlockOk
    <2>2. \A y \in L : x.size > 0 /\ y.size > 0 => x.ptr # y.ptr
      OBVIOUS
    <2> QED BY <1>1, <2>1, <2>2, BlocksAdd
  <1>3. x.home # "primary" /\ x.home # "backing" /\ x.home # "class"
    OBVIOUS
  <1>4. \A w \in {"primary", "backing", "class"} : OfHome(L \cup {x}, w) = OfHome(L, w)
    BY <1>3, HomeAddOther
  <1>5. \A i : OfClass(L \cup {x}, i) = OfClass(L, i)
    BY <1>3, ClassAddOther, Zenon
  <1>6. /\ OfHome(L \cup {x}, "primary") = OfHome(L, "primary")
        /\ OfHome(L \cup {x}, "backing") = OfHome(L, "backing")
        /\ OfHome(L \cup {x}, "class") = OfHome(L, "class")
    BY <1>4
  <1>7. SameElsewhere(L, L \cup {x}, 0, Len(c))
    <2>1. \A y \in OfHome(L, "class") : y.class \in 1..Len(c)
      BY StructFacts
    <2> QED BY <1>5, <1>6, <2>1 DEF SameElsewhere
  <1> QED BY <1>2, <1>7, SameBlocks

(* The caller, or the copy of a grow, writes inside the new block. *)
LEMMA Filled ==
  ASSUME Now, Contents(mem, live), NEW l \in Layout, NEW o, o = Offer(l), o.home # "none",
         NEW x, Served(x, l, o), NEW n, WritesOnly(conf, mem, n, x.ptr, o.usable),
         \A a \in Span(x.ptr, x.known) : a \in Cells(conf) => n[a] = x.holds
  PROVE  /\ Struct(conf, o.primary, o.backing, o.classes, n, live \cup {x}, hist)
         /\ Contents(n, live \cup {x})
  <1> DEFINE L == live \cup {x}
  <1>1. Leaves(o, x)
    BY OfferLeaves
  <1>2. /\ Struct(conf, o.primary, o.backing, o.classes, mem, L, hist)
        /\ WritesOnly(conf, mem, n, x.ptr, Extent(x, o.classes))
        /\ x.size <= Extent(x, o.classes)
    BY <1>1 DEF Leaves
  <1>3. x.size > 0 /\ x.size \in Nat /\ x.known \in Nat /\ x.known <= x.size /\ x \in L
    BY DEF Served, Fitting
  <1>4. Contents(mem, L \ {x})
    BY DEF Contents
  <1> HIDE DEF L
  <1>5. PICK p, b, c : p = o.primary /\ b = o.backing /\ c = o.classes
    OBVIOUS
  <1>6. Struct(conf, p, b, c, mem, L, hist) /\ WritesOnly(conf, mem, n, x.ptr, Extent(x, c))
    BY <1>2, <1>5
  <1>7. Struct(conf, p, b, c, n, L, hist)
    BY <1>3, <1>6, WriteLive
  <1>8. Contents(n, L \ {x})
    BY <1>3, <1>4, <1>6, ContentsApart
  <1>9. ASSUME NEW a \in Span(x.ptr, x.known) PROVE a \in DOMAIN n /\ n[a] = x.holds
    <2>1. PICK s, k, q : Place(conf, p, b, c, s, k, q, x.ptr, Extent(x, c))
      BY <1>3, <1>6, LivePlace
    <2>2. PICK w : w = Extent(x, c)
      OBVIOUS
    <2>3. w \in Nat /\ x.size <= w
      BY <1>3, <1>6, <2>2, LivePlace
    <2>4. x.ptr \in Nat
      <3>1. BlocksOk(L)
        BY <1>6, StructFacts
      <3> QED BY <1>3, <3>1, SizedBlock
    <2>5. a \in Span(x.ptr, w)
      BY <1>3, <2>3, <2>4 DEF Span
    <2>6. a \in Cells(conf)
      <3>1. Ground(conf, p, b, c)
        BY <1>6, StructFacts
      <3> QED BY <2>1, <2>2, <2>3, <2>5, <3>1, PlaceCells
    <2>7. n = [d \in Cells(conf) |-> n[d]]
      BY <1>6 DEF WritesOnly
    <2>8. DOMAIN n = Cells(conf)
      BY <2>7
    <2> QED BY <2>6, <2>8
  <1>10. Contents(n, L)
    <2> SUFFICES ASSUME NEW y \in L, y.size > 0
                 PROVE  \A a \in Span(y.ptr, y.known) : a \in DOMAIN n /\ n[a] = y.holds
      BY DEF Contents
    <2>1. CASE y = x
      BY <1>9, <2>1
    <2>2. CASE y # x
      BY <1>8, <2>2 DEF Contents
    <2> QED BY <2>1, <2>2
  <1> QED BY <1>5, <1>7, <1>10 DEF L

-----------------------------------------------------------------------------
(* The walk along a free list, which FreeSlots collects, visits fl[hi], ...*)
(* fl[lo] and then leaves the slots.                                       *)
IsWalk(cl, f) ==
  f = [k \in 1..cl.slots |->
        IF k = 1 THEN cl.head
        ELSE IF f[k - 1] \in 1..cl.slots THEN mem[SlotAddr(conf.sbase, cl, f[k - 1] - 1)][2] ELSE 0]

LEMMA FreeSlotsWalk ==
  ASSUME NEW cl, \E f : IsWalk(cl, f)
  PROVE  \E f : /\ IsWalk(cl, f)
                /\ FreeSlots(cl) = {f[k] - 1 : k \in {j \in 1..cl.slots : f[j] \in 1..cl.slots}}
  <1> DEFINE w == CHOOSE f : IsWalk(cl, f)
  <1>1. IsWalk(cl, w)
    OBVIOUS
  <1>2. FreeSlots(cl) = {w[k] - 1 : k \in {j \in 1..cl.slots : w[j] \in 1..cl.slots}}
    BY DEF FreeSlots, IsWalk
  <1> HIDE DEF w
  <1> QED BY <1>1, <1>2

(* The value and the link of a listed slot. *)
LinkedAt(at, cl, m, fl, lo, k) ==
  /\ fl[k] \in Nat /\ fl[k] + 1 \in 1..cl.slots /\ (fl[k] + 1) - 1 = fl[k]
  /\ k > lo => m[SlotAddr(at, cl, fl[k])][2] = fl[k - 1] + 1
  /\ k = lo => m[SlotAddr(at, cl, fl[k])][2] \notin 1..cl.slots

LEMMA ListedLink ==
  ASSUME NEW at \in Nat, NEW cl \in Class, NEW fl \in [Nat -> Nat], NEW lo \in Nat, NEW hi \in Nat,
         NEW strays, NEW m, ListOk(at, cl, m, fl, lo, hi, strays), NEW k \in lo..hi
  PROVE  LinkedAt(at, cl, m, fl, lo, k)
  <1>1. cl.slots \in Nat /\ cl.next \in Nat
    BY DEF Class
  <1>2. fl[k] \in 0..(cl.next - 1) /\ cl.next <= cl.slots
    BY DEF ListOk
  <1>3. fl[k] \in Nat /\ fl[k] + 1 \in 1..cl.slots /\ (fl[k] + 1) - 1 = fl[k]
    BY <1>1, <1>2
  <1>4. ASSUME k > lo PROVE m[SlotAddr(at, cl, fl[k])][2] = fl[k - 1] + 1
    <2>1. m[SlotAddr(at, cl, fl[k])] = LinkTo(fl[k - 1] + 1)
      BY <1>4 DEF ListOk
    <2> QED BY <2>1, LinkValue
  <1>5. ASSUME k = lo PROVE m[SlotAddr(at, cl, fl[k])][2] \notin 1..cl.slots
    <2>1. lo <= hi
      BY <1>5
    <2>2. m[SlotAddr(at, cl, fl[k])] \in {LinkTo(0), LinkTo(cl.slots + 1)}
      BY <1>5, <2>1 DEF ListOk
    <2>3. m[SlotAddr(at, cl, fl[k])][2] \in {0, cl.slots + 1}
      BY <2>2, LinkValue
    <2> QED BY <1>1, <2>3
  <1> QED BY <1>3, <1>4, <1>5 DEF LinkedAt

WalkAt(cl, f, fl, lo, hi, k) ==
  IF k <= hi + 1 - lo THEN f[k] = fl[hi + 1 - k] + 1 ELSE f[k] \notin 1..cl.slots

LEMMA WalkNext ==
  ASSUME NEW cl \in Class, conf.sbase \in Nat, NEW fl \in [Nat -> Nat], NEW lo \in Nat,
         NEW hi \in Nat, NEW strays, ListOk(conf.sbase, cl, mem, fl, lo, hi, strays),
         NEW f, NEW k \in 1..cl.slots,
         f[k] = IF k = 1 THEN cl.head
                ELSE IF f[k - 1] \in 1..cl.slots
                     THEN mem[SlotAddr(conf.sbase, cl, f[k - 1] - 1)][2] ELSE 0,
         k > 1 => WalkAt(cl, f, fl, lo, hi, k - 1)
  PROVE  WalkAt(cl, f, fl, lo, hi, k)
  <1>1. cl.slots \in Nat /\ lo <= hi + 1 /\ lo \in Nat \ {0}
        /\ cl.head = (IF lo <= hi THEN fl[hi] + 1 ELSE 0)
    BY DEF ListOk, Class
  <1>2. PICK at \in Nat : at = conf.sbase
    OBVIOUS
  <1>3. CASE k = 1
    <2>1. f[k] = cl.head
      BY <1>3
    <2>2. hi + 1 - k = hi /\ (k <= hi + 1 - lo <=> lo <= hi)
      BY <1>1, <1>3
    <2>3. CASE lo <= hi
      BY <1>1, <2>1, <2>2, <2>3 DEF WalkAt
    <2>4. CASE ~(lo <= hi)
      <3>1. f[k] = 0
        BY <1>1, <2>1, <2>4
      <3>2. 0 \notin 1..cl.slots
        BY <1>1
      <3> QED BY <2>2, <2>4, <3>1, <3>2 DEF WalkAt
    <2> QED BY <2>3, <2>4
  <1>4. CASE k > 1 /\ k - 1 <= hi + 1 - lo
    <2>1. f[k - 1] = fl[hi + 1 - (k - 1)] + 1
      BY <1>4 DEF WalkAt
    <2>2. PICK j \in lo..hi : j = hi + 1 - (k - 1)
      BY <1>1, <1>4
    <2>3. f[k - 1] = fl[j] + 1
      BY <2>1, <2>2
    <2>4. /\ fl[j] \in Nat /\ fl[j] + 1 \in 1..cl.slots /\ (fl[j] + 1) - 1 = fl[j]
          /\ j > lo => mem[SlotAddr(at, cl, fl[j])][2] = fl[j - 1] + 1
          /\ j = lo => mem[SlotAddr(at, cl, fl[j])][2] \notin 1..cl.slots
      <3>1. ListOk(at, cl, mem, fl, lo, hi, strays)
        BY <1>2
      <3>2. PICK m : m = mem
        OBVIOUS
      <3>3. ListOk(at, cl, m, fl, lo, hi, strays)
        BY <3>1, <3>2
      <3>6. LinkedAt(at, cl, m, fl, lo, j)
        BY <3>3, ListedLink
      <3>4. fl[j] \in Nat /\ fl[j] + 1 \in 1..cl.slots /\ (fl[j] + 1) - 1 = fl[j]
        BY <3>6 DEF LinkedAt
      <3>5. /\ j > lo => m[SlotAddr(at, cl, fl[j])][2] = fl[j - 1] + 1
            /\ j = lo => m[SlotAddr(at, cl, fl[j])][2] \notin 1..cl.slots
        BY <3>6 DEF LinkedAt
      <3> QED BY <3>2, <3>4, <3>5
    <2>5. f[k] = mem[SlotAddr(at, cl, fl[j])][2]
      BY <1>2, <1>4, <2>3, <2>4
    <2>6. CASE j > lo
      <3>1. k <= hi + 1 - lo /\ j - 1 = hi + 1 - k
        BY <1>1, <2>2, <2>6
      <3> QED BY <2>4, <2>5, <2>6, <3>1 DEF WalkAt
    <2>7. CASE j = lo
      <3>1. ~(k <= hi + 1 - lo)
        BY <1>1, <2>2, <2>7
      <3> QED BY <2>4, <2>5, <2>7, <3>1 DEF WalkAt
    <2> QED BY <1>1, <2>2, <2>6, <2>7
  <1>5. CASE k > 1 /\ ~(k - 1 <= hi + 1 - lo)
    <2>1. f[k - 1] \notin 1..cl.slots
      BY <1>5 DEF WalkAt
    <2>2. f[k] = 0 /\ 0 \notin 1..cl.slots
      BY <1>1, <1>5, <2>1
    <2>3. ~(k <= hi + 1 - lo)
      BY <1>1, <1>5
    <2> QED BY <2>2, <2>3 DEF WalkAt
  <1> QED BY <1>1, <1>3, <1>4, <1>5

LEMMA WalkValues ==
  ASSUME NEW cl \in Class, conf.sbase \in Nat, NEW fl \in [Nat -> Nat], NEW lo \in Nat,
         NEW hi \in Nat, NEW strays, ListOk(conf.sbase, cl, mem, fl, lo, hi, strays),
         NEW f, IsWalk(cl, f)
  PROVE  \A k \in 1..cl.slots : WalkAt(cl, f, fl, lo, hi, k)
  <1> DEFINE S == {k \in 1..cl.slots : ~WalkAt(cl, f, fl, lo, hi, k)}
  <1>1. cl.slots \in Nat
    BY DEF Class
  <1>2. S = {}
    <2> SUFFICES ASSUME S # {} PROVE FALSE
      OBVIOUS
    <2>1. S \in SUBSET Nat
      BY <1>1
    <2>2. PICK k \in S : \A y \in S : k <= y
      <3> HIDE DEF S
      <3> QED BY <2>1, LeastNat
    <2>3. k \in 1..cl.slots /\ ~WalkAt(cl, f, fl, lo, hi, k)
      BY <2>2
    <2>4. k > 1 => k - 1 \in 1..cl.slots /\ k - 1 \notin S
      <3> HIDE DEF S
      <3> QED BY <1>1, <2>2, <2>3
    <2>5. k > 1 => WalkAt(cl, f, fl, lo, hi, k - 1)
      BY <2>4
    <2>6. f[k] = IF k = 1 THEN cl.head
                 ELSE IF f[k - 1] \in 1..cl.slots
                      THEN mem[SlotAddr(conf.sbase, cl, f[k - 1] - 1)][2] ELSE 0
      BY <2>3 DEF IsWalk
    <2> HIDE DEF S
    <2> QED BY <2>3, <2>5, <2>6, WalkNext
  <1> QED BY <1>2

LEMMA WalkExists ==
  ASSUME NEW cl \in Class, conf.sbase \in Nat, NEW fl \in [Nat -> Nat], NEW lo \in Nat,
         NEW hi \in Nat, NEW strays, ListOk(conf.sbase, cl, mem, fl, lo, hi, strays)
  PROVE  \E f : IsWalk(cl, f)
  <1> DEFINE last == mem[SlotAddr(conf.sbase, cl, fl[lo])][2]
             w == [k \in 1..cl.slots |->
                    IF k <= hi + 1 - lo THEN fl[hi + 1 - k] + 1
                    ELSE IF k = hi + 2 - lo /\ lo <= hi THEN last ELSE 0]
             step(k) == IF k = 1 THEN cl.head
                        ELSE IF w[k - 1] \in 1..cl.slots
                             THEN mem[SlotAddr(conf.sbase, cl, w[k - 1] - 1)][2] ELSE 0
  <1>1. cl.slots \in Nat /\ lo <= hi + 1 /\ lo \in Nat \ {0}
        /\ cl.head = (IF lo <= hi THEN fl[hi] + 1 ELSE 0)
    BY DEF ListOk, Class
  <1>2. PICK at \in Nat : at = conf.sbase
    OBVIOUS
  <1>3. PICK m : m = mem
    OBVIOUS
  <1>4. ListOk(at, cl, m, fl, lo, hi, strays)
    BY <1>2, <1>3
  <1>5. ASSUME NEW k \in 1..cl.slots PROVE w[k] = step(k)
    <2>1. w[k] = IF k <= hi + 1 - lo THEN fl[hi + 1 - k] + 1
                 ELSE IF k = hi + 2 - lo /\ lo <= hi THEN last ELSE 0
      OBVIOUS
    <2>2. CASE k = 1
      <3>1. hi + 1 - k = hi /\ (k <= hi + 1 - lo <=> lo <= hi) /\ ~(k = hi + 2 - lo /\ lo <= hi)
        BY <1>1, <2>2
      <3>2. w[k] = cl.head
        <4> HIDE DEF w
        <4>1. CASE lo <= hi
          BY <1>1, <2>1, <3>1, <4>1
        <4>2. CASE ~(lo <= hi)
          BY <1>1, <2>1, <3>1, <4>2
        <4> QED BY <4>1, <4>2
      <3> HIDE DEF w
      <3> QED BY <2>2, <3>2
    <2>3. CASE k > 1 /\ k - 1 <= hi + 1 - lo
      <3>1. k - 1 \in 1..cl.slots
        BY <1>1, <2>3
      <3>2. w[k - 1] = fl[hi + 1 - (k - 1)] + 1
        BY <2>3, <3>1
      <3>3. PICK j \in lo..hi : j = hi + 1 - (k - 1)
        BY <1>1, <2>3
      <3>4. w[k - 1] = fl[j] + 1
        BY <3>2, <3>3
      <3>10. LinkedAt(at, cl, m, fl, lo, j)
        BY <1>4, ListedLink
      <3>5. fl[j] \in Nat /\ fl[j] + 1 \in 1..cl.slots /\ (fl[j] + 1) - 1 = fl[j]
        BY <3>10 DEF LinkedAt
      <3>6. j > lo => m[SlotAddr(at, cl, fl[j])][2] = fl[j - 1] + 1
        BY <3>10 DEF LinkedAt
      <3> HIDE DEF w
      <3>7. step(k) = m[SlotAddr(at, cl, fl[j])][2]
        BY <1>2, <1>3, <2>3, <3>4, <3>5
      <3>8. CASE j > lo
        <4>1. k <= hi + 1 - lo /\ j - 1 = hi + 1 - k
          BY <1>1, <3>3, <3>8
        <4> QED BY <2>1, <3>6, <3>7, <3>8, <4>1
      <3>9. CASE j = lo
        <4>1. ~(k <= hi + 1 - lo) /\ k = hi + 2 - lo /\ lo <= hi
          BY <1>1, <3>3, <3>9
        <4> QED BY <1>2, <1>3, <2>1, <3>7, <3>9, <4>1
      <3> QED BY <1>1, <3>3, <3>8, <3>9
    <2>4. CASE k > 1 /\ ~(k - 1 <= hi + 1 - lo)
      <3>1. k - 1 \in 1..cl.slots /\ ~(k <= hi + 1 - lo) /\ ~(k = hi + 2 - lo /\ lo <= hi)
        BY <1>1, <2>4
      <3>2. w[k] = 0
        BY <2>1, <3>1
      <3>3. w[k - 1] \notin 1..cl.slots
        <4>1. w[k - 1] = IF k - 1 = hi + 2 - lo /\ lo <= hi THEN last ELSE 0
          BY <2>4, <3>1
        <4>2. 0 \notin 1..cl.slots
          BY <1>1
        <4>3. lo <= hi => last \notin 1..cl.slots
          <5> SUFFICES ASSUME lo <= hi PROVE last \notin 1..cl.slots
            OBVIOUS
          <5>1. PICK j \in lo..hi : j = lo
            BY <1>1
          <5>2. m[SlotAddr(at, cl, fl[j])][2] \notin 1..cl.slots
            <6>1. LinkedAt(at, cl, m, fl, lo, j)
              BY <1>4, ListedLink
            <6> QED BY <5>1, <6>1 DEF LinkedAt
          <5> QED BY <1>2, <1>3, <5>1, <5>2
        <4> HIDE DEF w
        <4> QED BY <4>1, <4>2, <4>3
      <3> HIDE DEF w
      <3> QED BY <2>4, <3>2, <3>3
    <2> HIDE DEF w, step
    <2> QED BY <1>1, <2>2, <2>3, <2>4
  <1>6. w = [k \in 1..cl.slots |-> w[k]]
    OBVIOUS
  <1>7. w = [k \in 1..cl.slots |-> step(k)]
    <2> HIDE DEF w, step
    <2> QED BY <1>5, <1>6
  <1>8. IsWalk(cl, w)
    <2> HIDE DEF w
    <2> QED BY <1>7 DEF IsWalk
  <1> QED BY <1>8

(* A list is no longer than the class, and FreeSlots is the list. *)
LEMMA ListLength ==
  ASSUME NEW at \in Nat, NEW cl \in Class, NEW fl \in [Nat -> Nat], NEW lo \in Nat, NEW hi \in Nat,
         NEW strays, NEW m, ListOk(at, cl, m, fl, lo, hi, strays)
  PROVE  hi + 1 - lo <= cl.slots
  <1> DEFINE S == lo..hi
             T == 0..(cl.next - 1)
             f == [k \in S |-> fl[k]]
  <1>1. /\ cl.slots \in Nat /\ cl.next \in Nat /\ cl.next <= cl.slots /\ lo <= hi + 1
        /\ \A k \in S : fl[k] \in T
        /\ \A j, k \in S : fl[j] = fl[k] => j = k
    BY DEF ListOk, Class
  <1>2. f \in [S -> T] /\ \A j, k \in S : f[j] = f[k] => j = k
    BY <1>1
  <1>3. IsFiniteSet(S) /\ Cardinality(S) = hi + 1 - lo
    <2>1. IsFiniteSet(S) /\ Cardinality(S) = IF lo > hi THEN 0 ELSE hi - lo + 1
      BY FS_Interval
    <2> QED BY <1>1, <2>1
  <1>4. IsFiniteSet(T) /\ Cardinality(T) = cl.next
    <2>1. 0 \in Int /\ cl.next - 1 \in Int
      BY <1>1
    <2>2. IsFiniteSet(T) /\ Cardinality(T) = IF 0 > cl.next - 1 THEN 0 ELSE (cl.next - 1) - 0 + 1
      BY <2>1, FS_Interval
    <2>3. PICK n \in Nat : n = cl.next
      BY <1>1
    <2> HIDE DEF T
    <2> QED BY <2>2, <2>3
  <1>5. ~(Cardinality(T) < Cardinality(S))
    <2> SUFFICES ASSUME Cardinality(T) < Cardinality(S) PROVE FALSE
      OBVIOUS
    <2> HIDE DEF S, T, f
    <2>1. \E x, y \in S : x # y /\ f[x] = f[y]
      BY <1>2, <1>3, <1>4, FS_PigeonHole
    <2> QED BY <1>2, <2>1
  <1> HIDE DEF S, T, f
  <1>6. PICK n \in Nat, u \in Nat : n = cl.next /\ u = cl.slots /\ n <= u
    BY <1>1
  <1> QED BY <1>1, <1>3, <1>4, <1>5, <1>6

Listed(fl, lo, hi) == {fl[k] : k \in lo..hi}

LEMMA FreeSlotsListed ==
  ASSUME NEW cl \in Class, conf.sbase \in Nat, NEW fl \in [Nat -> Nat], NEW lo \in Nat,
         NEW hi \in Nat, NEW strays, ListOk(conf.sbase, cl, mem, fl, lo, hi, strays)
  PROVE  FreeSlots(cl) = Listed(fl, lo, hi)
  <1>1. \E f : IsWalk(cl, f)
    BY WalkExists
  <1>2. PICK f : /\ IsWalk(cl, f)
                 /\ FreeSlots(cl) = {f[k] - 1 : k \in {j \in 1..cl.slots : f[j] \in 1..cl.slots}}
    BY <1>1, FreeSlotsWalk
  <1>3. \A k \in 1..cl.slots : WalkAt(cl, f, fl, lo, hi, k)
    BY <1>2, WalkValues
  <1>4. cl.slots \in Nat /\ lo <= hi + 1 /\ lo \in Nat \ {0}
    BY DEF ListOk, Class
  <1>5. PICK at \in Nat : at = conf.sbase
    OBVIOUS
  <1>6. PICK m : m = mem
    OBVIOUS
  <1>7. ListOk(at, cl, m, fl, lo, hi, strays)
    BY <1>5, <1>6
  <1>8. hi + 1 - lo <= cl.slots
    BY <1>7, ListLength
  <1>9. ASSUME NEW q \in FreeSlots(cl) PROVE q \in Listed(fl, lo, hi)
    <2>1. PICK k \in 1..cl.slots : f[k] \in 1..cl.slots /\ q = f[k] - 1
      BY <1>2
    <2>2. k <= hi + 1 - lo /\ f[k] = fl[hi + 1 - k] + 1
      BY <1>3, <2>1 DEF WalkAt
    <2>3. PICK j \in lo..hi : j = hi + 1 - k
      BY <1>4, <2>2
    <2>4. q = fl[j]
      <3>1. fl[j] \in Nat /\ f[k] = fl[j] + 1
        BY <2>2, <2>3
      <3> QED BY <2>1, <3>1
    <2> QED BY <2>4 DEF Listed
  <1>10. ASSUME NEW q \in Listed(fl, lo, hi) PROVE q \in FreeSlots(cl)
    <2>1. PICK j \in lo..hi : q = fl[j]
      BY DEF Listed
    <2>2. PICK k \in 1..cl.slots : k = hi + 1 - j
      BY <1>4, <1>8
    <2>3. k <= hi + 1 - lo /\ hi + 1 - k = j
      BY <1>4, <2>2
    <2>4. f[k] = fl[j] + 1
      BY <1>3, <2>3 DEF WalkAt
    <2>7. LinkedAt(at, cl, m, fl, lo, j)
      BY <1>7, ListedLink
    <2>5. fl[j] \in Nat /\ fl[j] + 1 \in 1..cl.slots /\ (fl[j] + 1) - 1 = fl[j]
      BY <2>7 DEF LinkedAt
    <2>6. f[k] \in 1..cl.slots /\ f[k] - 1 = q
      BY <2>1, <2>4, <2>5
    <2> QED BY <1>2, <2>6
  <1> QED BY <1>9, <1>10

LEMMA ListedCount ==
  ASSUME NEW at \in Nat, NEW cl \in Class, NEW fl \in [Nat -> Nat], NEW lo \in Nat, NEW hi \in Nat,
         NEW strays, NEW m, ListOk(at, cl, m, fl, lo, hi, strays)
  PROVE  Cardinality(Listed(fl, lo, hi)) = hi + 1 - lo
  <1> DEFINE S == lo..hi
             T == Listed(fl, lo, hi)
             f == [k \in S |-> fl[k]]
  <1>1. lo <= hi + 1 /\ \A j, k \in S : fl[j] = fl[k] => j = k
    BY DEF ListOk
  <1>2. f \in [S -> T] /\ (\A j, k \in S : f[j] = f[k] => j = k) /\ \A q \in T : \E k \in S : f[k] = q
    BY <1>1 DEF Listed
  <1>3. IsFiniteSet(S) /\ Cardinality(S) = hi + 1 - lo
    <2>1. IsFiniteSet(S) /\ Cardinality(S) = IF lo > hi THEN 0 ELSE hi - lo + 1
      BY FS_Interval
    <2> QED BY <1>1, <2>1
  <1> HIDE DEF S, T, f
  <1>4. f \in Surjection(S, T) /\ f \in Injection(S, T)
    BY <1>2 DEF Surjection, Injection, IsInjective
  <1>5. Cardinality(T) = Cardinality(S)
    BY <1>3, <1>4, FS_Surjection
  <1> QED BY <1>3, <1>5 DEF T

(* A link overwritten: the list now ends at the slot that holds it. *)
LEMMA ListStrays ==
  ASSUME NEW at, NEW cl \in Class, NEW m, NEW fl, NEW lo \in Nat, NEW hi \in Nat, NEW strays \in Nat,
         ListOk(at, cl, m, fl, lo, hi, strays), NEW X, SlotsOk(at, cl, X, fl, lo, hi, strays)
  PROVE  /\ ListOk(at, cl, m, fl, lo, hi, strays + 1)
         /\ SlotsOk(at, cl, X, fl, lo, hi, strays + 1)
  <1>1. cl.events \in Nat /\ strays + 1 # 0
    BY DEF Class
  <1>2. ListOk(at, cl, m, fl, lo, hi, strays + 1)
    BY <1>1 DEF ListOk
  <1>3. SlotsOk(at, cl, X, fl, lo, hi, strays + 1)
    BY <1>1 DEF SlotsOk
  <1> QED BY <1>2, <1>3

LEMMA ListCut ==
  ASSUME NEW at \in Nat, NEW cl \in Class, NEW m, NEW fl \in [Nat -> Nat], NEW lo \in Nat,
         NEW hi \in Nat, NEW strays \in Nat, ListOk(at, cl, m, fl, lo, hi, strays),
         NEW j \in lo..hi, NEW n, n[SlotAddr(at, cl, fl[j])] = LinkTo(cl.slots + 1),
         \A k \in lo..hi : k # j => n[SlotAddr(at, cl, fl[k])] = m[SlotAddr(at, cl, fl[k])]
  PROVE  ListOk(at, cl, n, fl, j, hi, strays + 1)
  <1>0. /\ lo \in Nat \ {0} /\ cl.next <= cl.slots /\ cl.slots \in Nat /\ cl.events <= strays
        /\ cl.events \in Nat
        /\ \A k \in lo..hi : fl[k] \in 0..(cl.next - 1)
        /\ \A i, k \in lo..hi : fl[i] = fl[k] => i = k
        /\ \A k \in lo..hi : k > lo => m[SlotAddr(at, cl, fl[k])] = LinkTo(fl[k - 1] + 1)
        /\ lo <= hi => cl.head = fl[hi] + 1
    BY DEF ListOk, Class
  <1>1. /\ j \in Nat \ {0} /\ j <= hi /\ j <= hi + 1 /\ lo <= hi
        /\ \A k \in j..hi : k \in lo..hi /\ (k > j => k > lo /\ k # j)
    BY <1>0
  <1>2. cl.head = IF j <= hi THEN fl[hi] + 1 ELSE 0
    BY <1>0, <1>1
  <1>3. cl.events <= strays + 1 /\ cl.events < strays + 1
    BY <1>0
  <1>4. /\ \A k \in j..hi : fl[k] \in 0..(cl.next - 1)
        /\ \A i, k \in j..hi : fl[i] = fl[k] => i = k
    BY <1>0, <1>1
  <1>5. \A k \in j..hi : k > j => n[SlotAddr(at, cl, fl[k])] = LinkTo(fl[k - 1] + 1)
    BY <1>0, <1>1
  <1> QED BY <1>0, <1>1, <1>2, <1>3, <1>4, <1>5 DEF ListOk

LEMMA SlotsCut ==
  ASSUME NEW at, NEW cl, NEW fl, NEW lo \in Nat, NEW hi \in Nat, NEW strays \in Nat, NEW X,
         SlotsOk(at, cl, X, fl, lo, hi, strays), NEW j \in lo..hi
  PROVE  SlotsOk(at, cl, X, fl, j, hi, strays + 1)
  <1>1. strays + 1 # 0 /\ \A k \in j..hi : k \in lo..hi
    OBVIOUS
  <1> QED BY <1>1 DEF SlotsOk

(* The counters after a stray write. *)
OneMoreStray(h, g) ==
  g.strays = h.strays + 1 /\ g.pignored = h.pignored /\ g.bignored = h.bignored

LEMMA StrayHist ==
  ASSUME NEW h, NEW g, HistOk(h), OneMoreStray(h, g)
  PROVE  HistOk(g) /\ g.strays \in Nat /\ g.strays = h.strays + 1
  <1>1. h.strays \in Nat /\ h.pignored \in Nat /\ h.bignored \in Nat
    BY DEF HistOk
  <1>2. g.strays = h.strays + 1 /\ g.pignored = h.pignored /\ g.bignored = h.bignored
    BY DEF OneMoreStray
  <1>3. g.strays \in Nat
    <2>1. PICK s \in Nat : s = h.strays
      BY <1>1
    <2>2. s + 1 \in Nat
      OBVIOUS
    <2> QED BY <1>2, <2>1, <2>2
  <1> QED BY <1>1, <1>2, <1>3 DEF HistOk

LEMMA WithinSpan ==
  ASSUME NEW ptr \in Nat, NEW known \in Nat, NEW size \in Nat, NEW w \in Nat,
         known <= size, size <= w, NEW a \in Span(ptr, known)
  PROVE  a \in Span(ptr, w)
BY DEF Span

(* Slots of two classes. *)
LEMMA ClassesApart ==
  ASSUME NEW B, NEW p, NEW b, NEW c, Ground(B, p, b, c),
         NEW k, NEW q, NEW y, NEW v \in Nat, Place(B, p, b, c, "backing", k, q, y, v),
         NEW i, NEW r, NEW z, NEW w \in Nat, Place(B, p, b, c, "backing", i, r, z, w), k # i
  PROVE  Apart(y, v, z, w)
BY PlacesApart

LEMMA OtherSlot ==
  ASSUME NEW B, NEW p, NEW b, NEW c, Ground(B, p, b, c),
         NEW k \in 1..Len(c), c[k].next <= c[k].slots, NEW q \in 0..(c[k].next - 1),
         NEW i \in 1..Len(c), c[i].next <= c[i].slots, NEW r \in 0..(c[i].next - 1), k # i
  PROVE  SlotAddr(B.sbase, c[k], q) # SlotAddr(B.sbase, c[i], r)
  <1>1. PICK y, z : y = SlotAddr(B.sbase, c[k], q) /\ z = SlotAddr(B.sbase, c[i], r)
    OBVIOUS
  <1>2. Place(B, p, b, c, "backing", k, q, y, c[k].stride) /\ y \in Nat
    BY <1>1, SlotPlace
  <1>3. Place(B, p, b, c, "backing", i, r, z, c[i].stride) /\ z \in Nat
    BY <1>1, SlotPlace
  <1>4. c[k].stride \in Nat \ {0} /\ c[i].stride \in Nat \ {0}
    BY GroundFacts, ClassFields
  <1>5. PICK v \in Nat \ {0}, w \in Nat \ {0} : v = c[k].stride /\ w = c[i].stride
    BY <1>4
  <1>6. Place(B, p, b, c, "backing", k, q, y, v) /\ Place(B, p, b, c, "backing", i, r, z, w)
    BY <1>2, <1>3, <1>5
  <1>7. Apart(y, v, z, w)
    BY <1>6, ClassesApart
  <1>8. y # z
    BY <1>2, <1>3, <1>7, ApartDiffer
  <1> QED BY <1>1, <1>8

LEMMA StrayStruct ==
  ASSUME NEW B, NEW p, NEW b, NEW c, NEW m, NEW L, NEW h, Struct(B, p, b, c, m, L, h), Contents(m, L),
         NEW i \in 1..Len(c), NEW fl \in [Nat -> Nat], NEW lo \in Nat, NEW hi \in Nat,
         ListOk(B.sbase, c[i], m, fl, lo, hi, h.strays),
         SlotsOk(B.sbase, c[i], OfClass(L, i), fl, lo, hi, h.strays), NEW j \in lo..hi,
         NEW z, z = SlotAddr(B.sbase, c[i], fl[j]),
         NEW n, n = [m EXCEPT ![z] = LinkTo(c[i].slots + 1)],
         NEW g, OneMoreStray(h, g)
  PROVE  Struct(B, p, b, c, n, L, g) /\ Contents(n, L)
  <1>1. /\ Ground(B, p, b, c) /\ BlocksOk(L) /\ HistOk(h) /\ c \in Seq(Class) /\ Len(c) \in Nat
        /\ B.sbase \in Nat /\ h.strays \in Nat /\ m = [a \in Cells(B) |-> m[a]]
    BY StructFacts, GroundFacts DEF HistOk
  <1>1a. Ground(B, p, b, c)
    BY <1>1
  <1>2. fl[j] \in 0..(c[i].next - 1) /\ c[i].next <= c[i].slots
    BY DEF ListOk
  <1>3. /\ Place(B, p, b, c, "backing", i, fl[j], z, c[i].stride)
        /\ z \in Nat /\ z \in Cells(B) /\ c[i].stride \in Nat
    BY <1>1, <1>2, SlotPlace
  <1>4. c[i].stride \in Nat \ {0}
    BY <1>1, ClassFields
  <1>0. DOMAIN m = Cells(B)
    BY <1>1
  <1>5. n[z] = LinkTo(c[i].slots + 1) /\ \A a \in Cells(B) : a # z => n[a] = m[a]
    BY <1>0, <1>3
  <1>6. n = [a \in Cells(B) |-> n[a]] /\ DOMAIN n = DOMAIN m
    BY <1>1
  <1>7. HistOk(g)
    BY <1>1, StrayHist
  <1>8. ClassOk(B, c[i], n, OfClass(L, i), g.strays)
    <2>0. c[i] \in Class /\ B.sbase \in Nat
      BY <1>1
    <2>1. PICK at \in Nat, cl \in Class : at = B.sbase /\ cl = c[i]
      BY <2>0
    <2>2. ASSUME NEW k \in lo..hi, k # j
          PROVE  n[SlotAddr(at, cl, fl[k])] = m[SlotAddr(at, cl, fl[k])]
      <3>1. fl[k] # fl[j] /\ fl[k] \in Nat /\ fl[j] \in Nat
        BY <2>2 DEF ListOk
      <3>2. SlotAddr(at, cl, fl[k]) # SlotAddr(at, cl, fl[j])
        BY <3>1, SlotsDiffer
      <3>3. fl[k] \in 0..(c[i].next - 1)
        BY <2>2 DEF ListOk
      <3>4. SlotAddr(B.sbase, c[i], fl[k]) \in Cells(B)
        BY <1>1, <1>2, <3>3, SlotPlace
      <3> QED BY <1>5, <2>1, <3>2, <3>4
    <2>3. PICK strays \in Nat : strays = h.strays
      BY <1>1
    <2>4. ListOk(at, cl, n, fl, j, hi, strays + 1)
      <3>1. ListOk(at, cl, m, fl, lo, hi, strays) /\ n[SlotAddr(at, cl, fl[j])] = LinkTo(cl.slots + 1)
        BY <1>5, <2>1, <2>3
      <3> QED BY <2>2, <3>1, ListCut
    <2>5. SlotsOk(at, cl, OfClass(L, i), fl, j, hi, strays + 1)
      <3>1. SlotsOk(at, cl, OfClass(L, i), fl, lo, hi, strays)
        BY <2>1, <2>3
      <3> QED BY <3>1, SlotsCut
    <2>6. g.strays = strays + 1 /\ j \in Nat
      BY <2>3 DEF OneMoreStray
    <2> QED BY <2>1, <2>4, <2>5, <2>6 DEF ClassOk
  <1>9. ASSUME NEW k \in 1..Len(c), k # i PROVE ClassOk(B, c[k], n, OfClass(L, k), g.strays)
    <2>0. c[k] \in Class /\ B.sbase \in Nat
      BY <1>1
    <2>1. PICK at \in Nat, cl \in Class : at = B.sbase /\ cl = c[k]
      BY <2>0
    <2>2. PICK strays \in Nat : strays = h.strays
      BY <1>1
    <2>3. PICK f2 \in [Nat -> Nat], l2 \in Nat, h2 \in Nat :
               /\ ListOk(at, cl, m, f2, l2, h2, strays)
               /\ SlotsOk(at, cl, OfClass(L, k), f2, l2, h2, strays)
      <3>1. ClassOk(B, c[k], m, OfClass(L, k), h.strays)
        BY StructFacts
      <3> QED BY <2>1, <2>2, <3>1 DEF ClassOk
    <2>4. ASSUME NEW u \in l2..h2
          PROVE  n[SlotAddr(at, cl, f2[u])] = m[SlotAddr(at, cl, f2[u])]
      <3>1. f2[u] \in 0..(c[k].next - 1) /\ c[k].next <= c[k].slots
        BY <2>1, <2>3 DEF ListOk
      <3>2. SlotAddr(B.sbase, c[k], f2[u]) # SlotAddr(B.sbase, c[i], fl[j])
        BY <1>1a, <1>2, <1>9, <3>1, OtherSlot
      <3>3. SlotAddr(B.sbase, c[k], f2[u]) \in Cells(B)
        BY <1>1a, <3>1, SlotPlace
      <3> QED BY <1>5, <2>1, <3>2, <3>3
    <2>5. ListOk(at, cl, n, f2, l2, h2, strays)
      BY <2>3, <2>4, ListKept
    <2>6. /\ ListOk(at, cl, n, f2, l2, h2, strays + 1)
          /\ SlotsOk(at, cl, OfClass(L, k), f2, l2, h2, strays + 1)
      BY <2>3, <2>5, ListStrays
    <2>7. g.strays = strays + 1
      BY <2>2 DEF OneMoreStray
    <2> QED BY <2>1, <2>6, <2>7 DEF ClassOk
  <1>10. \A k \in 1..Len(c) : ClassOk(B, c[k], n, OfClass(L, k), g.strays)
    BY <1>8, <1>9
  <1>11. /\ StackBlocks(p, B.pbase, 1, OfHome(L, "primary"), g.pignored)
         /\ StackBlocks(b, B.sbase, Len(c) + 1, OfHome(L, "backing"), Len(c) + g.bignored)
         /\ \A x \in OfHome(L, "class") : x.class \in 1..Len(c)
    BY StructFacts DEF OneMoreStray
  <1>12. Struct(B, p, b, c, n, L, g)
    BY <1>1, <1>6, <1>7, <1>10, <1>11 DEF Struct
  <1>13. ASSUME NEW x \in L, x.size > 0, NEW a \in Span(x.ptr, x.known)
         PROVE  a \in DOMAIN n /\ n[a] = x.holds
    <2>1. a \in DOMAIN m /\ m[a] = x.holds
      BY <1>13 DEF Contents
    <2>2. Apart(z, c[i].stride, x.ptr, Extent(x, c))
      BY <1>13, ListedApart
    <2>3. PICK w : w = Extent(x, c)
      OBVIOUS
    <2>4. w \in Nat /\ x.size <= w
      BY <1>13, <2>3, LivePlace
    <2>5. x.known \in Nat /\ x.known <= x.size /\ x.size \in Nat /\ x.ptr \in Nat
      BY <1>1, <1>13 DEF BlocksOk, BlockOk
    <2>6. z # a
      <3>1. PICK s \in Nat \ {0} : s = c[i].stride
        BY <1>4
      <3>2. s \in Nat /\ z \in Span(z, s)
        BY <1>3, SelfSpan
      <3>3. Apart(z, s, x.ptr, w)
        BY <2>2, <2>3, <3>1
      <3>4. z \notin Span(x.ptr, w)
        BY <1>3, <2>4, <2>5, <3>2, <3>3, OutsideApart
      <3>5. a \in Span(x.ptr, w)
        BY <1>13, <2>4, <2>5, WithinSpan
      <3> QED BY <3>4, <3>5
    <2> QED BY <1>0, <1>5, <1>6, <2>1, <2>6
  <1>14. Contents(n, L)
    BY <1>13 DEF Contents
  <1> QED BY <1>12, <1>14

-----------------------------------------------------------------------------
(* The invariant of the router: what holds in each phase. *)
Hist == [calls : Nat, strays : Nat, pignored : Nat, bignored : Nat]

RouterInv ==
  /\ conf \in Builds /\ hist \in Hist /\ phase \in {"new", "ready", "refused", "dropped"}
  /\ phase = "new" => /\ primary = NewStack /\ backing = NewStack
                      /\ mem = [a \in Cells(conf) |-> mem[a]]
                      /\ hist = [calls |-> 0, strays |-> 0, pignored |-> 0, bignored |-> 0]
  /\ phase = "ready" => Now /\ Contents(mem, live)
  /\ phase = "refused" => backing = NewStack
  /\ phase # "ready" => live = {}

(* The router ready, as the actions find it and leave it. *)
Ready == conf \in Builds /\ hist \in Hist /\ phase = "ready" /\ Now /\ Contents(mem, live)

LEMMA ReadyHolds ==
  ASSUME RouterInv, phase = "ready"
  PROVE  Ready
BY DEF RouterInv, Ready

LEMMA ReadyNext ==
  ASSUME conf \in Builds, conf' = conf, phase' = "ready", hist' \in Hist,
         Struct(conf, primary', backing', classes', mem', live', hist'), Contents(mem', live')
  PROVE  RouterInv'
BY DEF RouterInv, Now

LEMMA CountedHist ==
  ASSUME hist \in Hist, Counted
  PROVE  hist' \in Hist /\ SameCounts(hist, hist')
BY DEF Hist, Counted, SameCounts

(* The cells written are those of the span. *)
LEMMA WiderWrite ==
  ASSUME NEW B, NEW m, NEW n, NEW ptr \in Nat, NEW len \in Nat, NEW usable \in Nat, len <= usable,
         WritesOnly(B, m, n, ptr, len)
  PROVE  WritesOnly(B, m, n, ptr, usable)
  <1>1. \A a \in Span(ptr, len) : a \in Span(ptr, usable)
    BY DEF Span
  <1> QED BY <1>1 DEF WritesOnly

LEMMA FillWrites ==
  ASSUME NEW B, NEW m, m = [a \in Cells(B) |-> m[a]], NEW S, NEW v,
         NEW n, n = [a \in DOMAIN m |-> IF a \in S THEN v ELSE m[a]]
  PROVE  /\ n = [a \in Cells(B) |-> n[a]]
         /\ \A a \in Cells(B) : n[a] = IF a \in S THEN v ELSE m[a]
  <1>1. DOMAIN m = Cells(B)
    OBVIOUS
  <1>2. n = [a \in Cells(B) |-> IF a \in S THEN v ELSE m[a]]
    BY <1>1
  <1> QED BY <1>2

LEMMA ServedAddress ==
  ASSUME Now, NEW l \in Layout, NEW o, o = Offer(l), o.home # "none", NEW x, Served(x, l, o)
  PROVE  x.ptr \in Nat /\ o.usable \in Nat /\ x.size <= o.usable /\ x.size \in Nat /\ x.size > 0
  <1>1. x.size \in Nat \ {0}
    BY DEF Served, Fitting
  <1>2. Leaves(o, x)
    BY OfferLeaves
  <1>3. /\ Struct(conf, o.primary, o.backing, o.classes, mem, live \cup {x}, hist)
        /\ Extent(x, o.classes) = o.usable /\ x.size <= o.usable
    BY <1>2 DEF Leaves
  <1>4. x \in live \cup {x} /\ x.size > 0
    BY <1>1
  <1>5. Extent(x, o.classes) \in Nat
    BY <1>3, <1>4, LivePlace
  <1>6. BlocksOk(live \cup {x})
    BY <1>3, StructFacts
  <1>7. x.ptr \in Nat
    BY <1>4, <1>6, SizedBlock
  <1> QED BY <1>1, <1>3, <1>5, <1>7

(* What an allocation leaves, and its history. *)
LEMMA ReceivedServed ==
  ASSUME NEW l \in Layout, NEW zeroed, NEW o, NEW x, x = Received(l, zeroed, o)
  PROVE  /\ Served(x, l, o) /\ x.known = x.size
         /\ x.holds = IF zeroed THEN Zero ELSE Data(FreshId)
  <1>1. l.size \in Nat \ {0} /\ l.align \in Nat \ {0} /\ l.align \in Aligns
    BY LayoutKnown
  <1>2. PICK id, v : id = FreshId /\ v = IF zeroed THEN Zero ELSE Data(FreshId)
    OBVIOUS
  <1>3. x = [id |-> id, ptr |-> o.ptr, size |-> l.size, align |-> l.align, known |-> l.size,
             holds |-> v, home |-> o.home, class |-> o.class]
    BY <1>2 DEF Received
  <1>4. x.size = l.size /\ x.known = l.size /\ x.align = l.align /\ x.holds = v
        /\ x.home = o.home /\ x.class = o.class /\ x.ptr = o.ptr
    BY <1>3
  <1>5. x.known \in Nat /\ x.known <= x.size
    BY <1>1, <1>4
  <1> QED BY <1>1, <1>2, <1>4, <1>5 DEF Served, Fitting

LEMMA MovedServed ==
  ASSUME NEW l \in Layout, NEW block, block.known \in Nat, block.align = l.align,
         NEW o, NEW x, x = Moved(block, l, o)
  PROVE  /\ Served(x, l, o) /\ x.known <= block.known /\ x.holds = block.holds
         /\ x.known \in Nat /\ x.known <= l.size
  <1>1. l.size \in Nat \ {0} /\ l.align \in Nat \ {0} /\ l.align \in Aligns
    BY LayoutKnown
  <1>2. PICK k : k = IF block.known < l.size THEN block.known ELSE l.size
    OBVIOUS
  <1>3. x = [id |-> block.id, ptr |-> o.ptr, size |-> l.size, align |-> block.align, known |-> k,
             holds |-> block.holds, home |-> o.home, class |-> o.class]
    BY <1>2 DEF Moved
  <1>4. x.size = l.size /\ x.known = k /\ x.align = block.align /\ x.holds = block.holds
        /\ x.home = o.home /\ x.class = o.class /\ x.ptr = o.ptr
    BY <1>3
  <1>5. k \in Nat /\ k <= l.size /\ k <= block.known
    BY <1>1, <1>2
  <1> QED BY <1>1, <1>4, <1>5 DEF Served, Fitting

LEMMA MemCells ==
  ASSUME Now
  PROVE  mem = [a \in Cells(conf) |-> mem[a]] /\ HistOk(hist) /\ BlocksOk(live)
BY StructFacts DEF Now

LEMMA AllocateInv ==
  ASSUME Ready, NEW l \in Layout, NEW zeroed \in BOOLEAN, Allocate(l, zeroed)
  PROVE  RouterInv'
  <1>0. /\ conf \in Builds /\ hist \in Hist /\ phase = "ready" /\ Now /\ Contents(mem, live)
        /\ mem = [a \in Cells(conf) |-> mem[a]]
    BY MemCells DEF Ready
  <1>1. PICK o, x, len : o = Offer(l) /\ x = Received(l, zeroed, o)
                         /\ len = IF zeroed THEN x.size ELSE o.usable
    OBVIOUS
  <1>2. /\ o.home # "none" /\ live' = live \cup {x} /\ conf' = conf /\ phase' = phase
        /\ mem' = [a \in DOMAIN mem |-> IF a \in Span(x.ptr, len) THEN x.holds ELSE mem[a]]
        /\ primary' = o.primary /\ classes' = o.classes /\ backing' = o.backing /\ Counted
    BY <1>1 DEF Allocate, TakeOffer
  <1>3. Served(x, l, o) /\ x.known = x.size
    BY <1>1, ReceivedServed
  <1>4. x.ptr \in Nat /\ o.usable \in Nat /\ x.size <= o.usable /\ x.size \in Nat /\ x.size > 0
    BY <1>0, <1>1, <1>2, <1>3, ServedAddress
  <1>5. len \in Nat /\ x.size <= len /\ len <= o.usable
    BY <1>1, <1>4
  <1>6. PICK n : n = mem'
    OBVIOUS
  <1>7. PICK S : S = Span(x.ptr, len)
    OBVIOUS
  <1>8. n = [a \in DOMAIN mem |-> IF a \in S THEN x.holds ELSE mem[a]]
    BY <1>2, <1>6, <1>7
  <1>9. n = [a \in Cells(conf) |-> n[a]]
    BY <1>0, <1>8, FillWrites
  <1>10. \A a \in Cells(conf) : n[a] = IF a \in S THEN x.holds ELSE mem[a]
    BY <1>0, <1>8, FillWrites
  <1>11. WritesOnly(conf, mem, n, x.ptr, o.usable)
    <2>1. WritesOnly(conf, mem, n, x.ptr, len)
      BY <1>7, <1>9, <1>10 DEF WritesOnly
    <2> QED BY <1>4, <1>5, <2>1, WiderWrite
  <1>12. \A a \in Span(x.ptr, x.known) : a \in Cells(conf) => n[a] = x.holds
    <2>1. \A a \in Span(x.ptr, x.known) : a \in S
      BY <1>3, <1>4, <1>5, <1>7, WithinSpan
    <2> QED BY <1>10, <2>1
  <1>13. Struct(conf, o.primary, o.backing, o.classes, n, live \cup {x}, hist)
    BY <1>0, <1>1, <1>2, <1>3, <1>11, <1>12, Filled
  <1>14. Contents(n, live \cup {x})
    BY <1>0, <1>1, <1>2, <1>3, <1>11, <1>12, Filled
  <1>15. hist' \in Hist /\ SameCounts(hist, hist')
    BY <1>0, <1>2, CountedHist
  <1>16. Struct(conf, o.primary, o.backing, o.classes, n, live \cup {x}, hist')
    BY <1>13, <1>15, StructHist
  <1>17. /\ Struct(conf, primary', backing', classes', mem', live', hist') /\ Contents(mem', live')
         /\ phase' = "ready"
    BY <1>0, <1>2, <1>6, <1>14, <1>16
  <1> QED BY <1>0, <1>2, <1>15, <1>17, ReadyNext

LEMMA AllocateFailsInv ==
  ASSUME Ready, NEW l \in Layout, AllocateFails(l)
  PROVE  RouterInv'
  <1>0. conf \in Builds /\ hist \in Hist /\ phase = "ready" /\ Now /\ Contents(mem, live)
    BY DEF Ready
  <1>1. PICK o : o = Offer(l)
    OBVIOUS
  <1>2. /\ o.home = "none" /\ live' = live /\ conf' = conf /\ phase' = phase /\ mem' = mem
        /\ primary' = o.primary /\ classes' = o.classes /\ backing' = o.backing /\ Counted
    BY <1>1 DEF AllocateFails, TakeOffer
  <1>3. Struct(conf, o.primary, o.backing, o.classes, mem, live, hist)
    BY <1>0, <1>1, <1>2, NoOfferLeaves
  <1>4. hist' \in Hist /\ SameCounts(hist, hist')
    BY <1>0, <1>2, CountedHist
  <1>5. Struct(conf, o.primary, o.backing, o.classes, mem, live, hist')
    BY <1>3, <1>4, StructHist
  <1>6. /\ Struct(conf, primary', backing', classes', mem', live', hist') /\ Contents(mem', live')
        /\ phase' = "ready"
    BY <1>0, <1>2, <1>5
  <1> QED BY <1>0, <1>2, <1>4, <1>6, ReadyNext

(* Zero-sized blocks come and go without memory. *)
LEMMA DanglingContents ==
  ASSUME NEW m, NEW L, Contents(m, L), NEW x, x.size = 0
  PROVE  Contents(m, L \cup {x}) /\ Contents(m, L \ {x})
BY DEF Contents

LEMMA FewerContents ==
  ASSUME NEW m, NEW L, Contents(m, L), NEW S
  PROVE  Contents(m, L \ S)
BY DEF Contents

LEMMA AllocateZeroSizedInv ==
  ASSUME Ready, NEW align \in Aligns, AllocateZeroSized(align)
  PROVE  RouterInv'
  <1>0. conf \in Builds /\ hist \in Hist /\ phase = "ready" /\ Now /\ Contents(mem, live)
    BY DEF Ready
  <1>1. PICK x : x = ZeroSized(align)
    OBVIOUS
  <1>2. /\ live' = live \cup {x} /\ conf' = conf /\ phase' = phase /\ mem' = mem
        /\ primary' = primary /\ classes' = classes /\ backing' = backing /\ Counted
    BY <1>1 DEF AllocateZeroSized
  <1>3. x.size = 0 /\ x.known = 0 /\ x.home = "dangling" /\ x.align \in Aligns
    <2>1. PICK id : id = FreshId
      OBVIOUS
    <2>2. x = [id |-> id, ptr |-> align, size |-> 0, align |-> align,
               known |-> 0, holds |-> Zero, home |-> "dangling", class |-> 0]
      BY <1>1, <2>1 DEF ZeroSized
    <2> QED BY <2>2
  <1>4. hist' \in Hist /\ SameCounts(hist, hist')
    BY <1>0, <1>2, CountedHist
  <1>5. Struct(conf, primary, backing, classes, mem, live \cup {x}, hist)
    BY <1>0, <1>3, DanglingAdded DEF Now
  <1>6. Struct(conf, primary, backing, classes, mem, live \cup {x}, hist')
    BY <1>4, <1>5, StructHist
  <1>7. Contents(mem, live \cup {x})
    BY <1>0, <1>3, DanglingContents
  <1>8. /\ Struct(conf, primary', backing', classes', mem', live', hist') /\ Contents(mem', live')
        /\ phase' = "ready"
    BY <1>0, <1>2, <1>6, <1>7
  <1> QED BY <1>0, <1>2, <1>4, <1>8, ReadyNext

LEMMA DeallocateZeroSizedInv ==
  ASSUME Ready, NEW block \in live, DeallocateZeroSized(block)
  PROVE  RouterInv'
  <1>0. conf \in Builds /\ hist \in Hist /\ phase = "ready" /\ Now /\ Contents(mem, live)
    BY DEF Ready
  <1>2. /\ live' = live \ {block} /\ conf' = conf /\ phase' = phase /\ mem' = mem /\ block.size = 0
        /\ primary' = primary /\ classes' = classes /\ backing' = backing /\ hist' = hist
    BY DEF DeallocateZeroSized
  <1>5. Struct(conf, primary, backing, classes, mem, live \ {block}, hist)
    BY <1>0, <1>2, DanglingRemoved DEF Now
  <1>7. Contents(mem, live \ {block})
    BY <1>0, FewerContents
  <1>8. /\ Struct(conf, primary', backing', classes', mem', live', hist') /\ Contents(mem', live')
        /\ phase' = "ready" /\ hist' \in Hist
    BY <1>0, <1>2, <1>5, <1>7
  <1> QED BY <1>0, <1>2, <1>8, ReadyNext

(* What a free counts. *)
LEMMA FreedCounts ==
  ASSUME NEW x, NEW p, NEW b, NEW c, NEW m, NEW f, f = Freed(x, p, b, c, m)
  PROVE  f.pignored \in Nat /\ f.bignored \in Nat
  <1> DEFINE nc == [c EXCEPT ![RouteDealloc(conf.sbase, c, x.ptr)] = ClassAfterFree(conf.sbase, @, x.ptr)]
             nm == IF IsSlot(conf.sbase, c[RouteDealloc(conf.sbase, c, x.ptr)], x.ptr)
                   THEN [m EXCEPT ![x.ptr] = LinkTo(c[RouteDealloc(conf.sbase, c, x.ptr)].head)] ELSE m
  <1>1. CASE Route(c, x.ptr) = "primary"
    <2>1. f.pignored = Ignored(p, x.ptr - conf.pbase) /\ f.bignored = 0
      BY <1>1, FreedPrimary
    <2> QED BY <2>1 DEF Ignored
  <1>2. CASE Route(c, x.ptr) = "backing"
    <2>1. f.bignored = Ignored(b, x.ptr - conf.sbase) /\ f.pignored = 0
      BY <1>2, FreedBacking
    <2> QED BY <2>1 DEF Ignored
  <1>3. CASE Route(c, x.ptr) = "class"
    <2>1. f = [p |-> p, b |-> b, c |-> nc, m |-> nm, pignored |-> 0, bignored |-> 0]
      BY <1>3 DEF Freed
    <2> HIDE DEF nc, nm
    <2> QED BY <2>1
  <1> QED BY <1>1, <1>2, <1>3 DEF Route

HistPlus(h, n, i, j) ==
  [calls |-> h.calls + n, strays |-> h.strays, pignored |-> h.pignored + i, bignored |-> h.bignored + j]

LEMMA HistAdd ==
  ASSUME NEW h \in Hist, NEW n \in Nat, NEW i \in Nat, NEW j \in Nat, NEW g, g = HistPlus(h, n, i, j)
  PROVE  /\ g \in Hist /\ g.strays = h.strays
         /\ g.pignored = h.pignored + i /\ g.bignored = h.bignored + j
  <1>1. PICK a \in Nat, b \in Nat, c \in Nat, d \in Nat :
          h = [calls |-> a, strays |-> b, pignored |-> c, bignored |-> d]
    BY DEF Hist
  <1>2. g = [calls |-> a + n, strays |-> b, pignored |-> c + i, bignored |-> d + j]
    BY <1>1 DEF HistPlus
  <1>3. a + n \in Nat /\ c + i \in Nat /\ d + j \in Nat
    OBVIOUS
  <1> QED BY <1>1, <1>2, <1>3 DEF Hist

LEMMA HistFreed ==
  ASSUME NEW h \in Hist, NEW i \in Nat, NEW j \in Nat,
         NEW g, g = [h EXCEPT !.pignored = @ + i, !.bignored = @ + j]
  PROVE  g = HistPlus(h, 0, i, j)
  <1>1. PICK a \in Nat, b \in Nat, c \in Nat, d \in Nat :
          h = [calls |-> a, strays |-> b, pignored |-> c, bignored |-> d]
    BY DEF Hist
  <1>2. a + 0 = a
    OBVIOUS
  <1>3. g = [calls |-> a, strays |-> b, pignored |-> c + i, bignored |-> d + j]
    BY <1>1
  <1>5. HistPlus(h, 0, i, j) = [calls |-> a, strays |-> b, pignored |-> c + i, bignored |-> d + j]
    BY <1>1, <1>2 DEF HistPlus
  <1> QED BY <1>3, <1>5

LEMMA HistResized ==
  ASSUME NEW h \in Hist, NEW i \in Nat, NEW j \in Nat,
         NEW g, g = [h EXCEPT !.calls = @ + 1, !.pignored = @ + i, !.bignored = @ + j]
  PROVE  g = HistPlus(h, 1, i, j)
  <1>1. PICK a \in Nat, b \in Nat, c \in Nat, d \in Nat :
          h = [calls |-> a, strays |-> b, pignored |-> c, bignored |-> d]
    BY DEF Hist
  <1>4. g = [calls |-> a + 1, strays |-> b, pignored |-> c + i, bignored |-> d + j]
    BY <1>1
  <1>6. HistPlus(h, 1, i, j) = [calls |-> a + 1, strays |-> b, pignored |-> c + i, bignored |-> d + j]
    BY <1>1 DEF HistPlus
  <1> QED BY <1>4, <1>6

LEMMA FreedHist ==
  ASSUME hist \in Hist, NEW f, f.pignored \in Nat, f.bignored \in Nat, TakeFreed(f)
  PROVE  hist' \in Hist /\ Counts(hist, hist', f)
  <1>1. PICK i \in Nat, j \in Nat : i = f.pignored /\ j = f.bignored
    OBVIOUS
  <1>2. PICK h \in Hist : h = hist
    OBVIOUS
  <1>3. PICK g : g = hist'
    OBVIOUS
  <1>4. g = [h EXCEPT !.pignored = @ + i, !.bignored = @ + j]
    BY <1>1, <1>2, <1>3 DEF TakeFreed
  <1>5. g = HistPlus(h, 0, i, j)
    BY <1>4, HistFreed
  <1>6. PICK n \in Nat : n = 0
    OBVIOUS
  <1>6a. g = HistPlus(h, n, i, j)
    BY <1>5, <1>6
  <1>7a. g \in Hist
    BY <1>6a, HistAdd
  <1>7b. g.strays = h.strays
    BY <1>6a DEF HistPlus
  <1>7. g.pignored = h.pignored + i /\ g.bignored = h.bignored + j
    BY <1>6a DEF HistPlus
  <1> QED BY <1>1, <1>2, <1>3, <1>7, <1>7a, <1>7b DEF Counts

LEMMA DeallocateInv ==
  ASSUME Ready, NEW block \in live, Deallocate(block)
  PROVE  RouterInv'
  <1>0. conf \in Builds /\ hist \in Hist /\ phase = "ready" /\ Now /\ Contents(mem, live)
    BY DEF Ready
  <1>1. PICK f : f = Freed(block, primary, backing, classes, mem)
    OBVIOUS
  <1>2. /\ live' = live \ {block} /\ conf' = conf /\ phase' = phase /\ block.size > 0
        /\ TakeFreed(f)
    BY <1>1 DEF Deallocate
  <1>3. hist' \in Hist /\ Counts(hist, hist', f)
    BY <1>0, <1>1, <1>2, FreedCounts, FreedHist
  <1>4. Struct(conf, primary, backing, classes, mem, live, hist)
    BY <1>0 DEF Now
  <1>5. FreedOk(f, live, block, hist')
    BY <1>0, <1>1, <1>2, <1>3, <1>4, FreeLemma
  <1>6. /\ Struct(conf, f.p, f.b, f.c, f.m, live \ {block}, hist') /\ Contents(f.m, live \ {block})
        /\ primary' = f.p /\ backing' = f.b /\ classes' = f.c /\ mem' = f.m
    BY <1>2, <1>5 DEF FreedOk, TakeFreed
  <1>7. /\ Struct(conf, primary', backing', classes', mem', live', hist') /\ Contents(mem', live')
        /\ phase' = "ready"
    BY <1>0, <1>2, <1>6
  <1> QED BY <1>0, <1>2, <1>3, <1>7, ReadyNext

LEMMA ShrinkToZeroInv ==
  ASSUME Ready, NEW block \in live, ShrinkToZero(block)
  PROVE  RouterInv'
  <1>0. conf \in Builds /\ hist \in Hist /\ phase = "ready" /\ Now /\ Contents(mem, live)
    BY DEF Ready
  <1>1. PICK f : f = Freed(block, primary, backing, classes, mem)
    OBVIOUS
  <1>1a. PICK x : x = [id |-> block.id, ptr |-> block.align, size |-> 0, align |-> block.align,
                       known |-> 0, holds |-> block.holds, home |-> "dangling", class |-> 0]
    OBVIOUS
  <1>2. /\ live' = (live \ {block}) \cup {x} /\ conf' = conf /\ phase' = phase /\ block.size > 0
        /\ TakeFreed(f)
    BY <1>1, <1>1a DEF ShrinkToZero
  <1>3. hist' \in Hist /\ Counts(hist, hist', f)
    BY <1>0, <1>1, <1>2, FreedCounts, FreedHist
  <1>4. Struct(conf, primary, backing, classes, mem, live, hist)
    BY <1>0 DEF Now
  <1>5. FreedOk(f, live, block, hist')
    BY <1>0, <1>1, <1>2, <1>3, <1>4, FreeLemma
  <1>6. /\ Struct(conf, f.p, f.b, f.c, f.m, live \ {block}, hist') /\ Contents(f.m, live \ {block})
        /\ primary' = f.p /\ backing' = f.b /\ classes' = f.c /\ mem' = f.m
    BY <1>2, <1>5 DEF FreedOk, TakeFreed
  <1>7. block.align \in Aligns
    BY <1>0, MemCells DEF BlocksOk, BlockOk
  <1>8. x.size = 0 /\ x.known = 0 /\ x.home = "dangling" /\ x.align \in Aligns
    BY <1>1a, <1>7
  <1>9. Struct(conf, f.p, f.b, f.c, f.m, (live \ {block}) \cup {x}, hist')
    BY <1>6, <1>8, DanglingAdded
  <1>10. Contents(f.m, (live \ {block}) \cup {x})
    BY <1>6, <1>8, DanglingContents
  <1>11. /\ Struct(conf, primary', backing', classes', mem', live', hist') /\ Contents(mem', live')
         /\ phase' = "ready"
    BY <1>0, <1>2, <1>6, <1>9, <1>10
  <1> QED BY <1>0, <1>2, <1>3, <1>11, ReadyNext

LEMMA GrowFromZeroInv ==
  ASSUME Ready, NEW block \in live, NEW l \in Layout, GrowFromZero(block, l)
  PROVE  RouterInv'
  <1>0. /\ conf \in Builds /\ hist \in Hist /\ phase = "ready" /\ Now /\ Contents(mem, live)
        /\ mem = [a \in Cells(conf) |-> mem[a]] /\ BlocksOk(live)
    BY MemCells DEF Ready
  <1>1. PICK o, x : o = Offer(l) /\ x = Moved(block, l, o)
    OBVIOUS
  <1>2. /\ o.home # "none" /\ live' = (live \ {block}) \cup {x} /\ conf' = conf /\ phase' = phase
        /\ mem' = mem /\ primary' = o.primary /\ classes' = o.classes /\ backing' = o.backing /\ Counted
        /\ block.size = 0 /\ block.align = l.align
    BY <1>1 DEF GrowFromZero, TakeOffer
  <1>3. block.known = 0
    BY <1>0, <1>2 DEF BlocksOk, BlockOk
  <1>4. Served(x, l, o) /\ x.known <= block.known /\ x.known \in Nat
    BY <1>1, <1>2, <1>3, MovedServed
  <1>5. x.known = 0
    BY <1>3, <1>4
  <1>6. x.ptr \in Nat /\ o.usable \in Nat /\ x.size > 0
    BY <1>0, <1>1, <1>2, <1>4, ServedAddress
  <1>7. WritesOnly(conf, mem, mem, x.ptr, o.usable)
    BY <1>0 DEF WritesOnly
  <1>8. \A a \in Span(x.ptr, x.known) : a \in Cells(conf) => mem[a] = x.holds
    BY <1>5, <1>6 DEF Span
  <1>9. Struct(conf, o.primary, o.backing, o.classes, mem, live \cup {x}, hist)
    BY <1>0, <1>1, <1>2, <1>4, <1>7, <1>8, Filled
  <1>10. Contents(mem, live \cup {x})
    BY <1>0, <1>1, <1>2, <1>4, <1>7, <1>8, Filled
  <1>11. x # block /\ block \in live \cup {x} /\ (live \cup {x}) \ {block} = live'
    BY <1>2, <1>6
  <1>12. Struct(conf, o.primary, o.backing, o.classes, mem, (live \cup {x}) \ {block}, hist)
    BY <1>2, <1>9, <1>11, DanglingRemoved
  <1>13. Contents(mem, (live \cup {x}) \ {block})
    BY <1>10, FewerContents
  <1>14. hist' \in Hist /\ SameCounts(hist, hist')
    BY <1>0, <1>2, CountedHist
  <1>15. Struct(conf, o.primary, o.backing, o.classes, mem, (live \cup {x}) \ {block}, hist')
    BY <1>12, <1>14, StructHist
  <1>16. /\ Struct(conf, primary', backing', classes', mem', live', hist') /\ Contents(mem', live')
         /\ phase' = "ready"
    BY <1>0, <1>2, <1>11, <1>13, <1>15
  <1> QED BY <1>0, <1>2, <1>14, <1>16, ReadyNext

(* The copy puts the known part of the old block into the new one. *)
LEMMA CopyWrites ==
  ASSUME NEW B, NEW m, m = [a \in Cells(B) |-> m[a]], NEW to \in Nat, NEW from \in Nat, NEW len \in Nat,
         NEW n, n = [a \in DOMAIN m |-> IF a \in Span(to, len) THEN m[from + (a - to)] ELSE m[a]]
  PROVE  /\ WritesOnly(B, m, n, to, len)
         /\ \A a \in Cells(B) : a \in Span(to, len) => n[a] = m[from + (a - to)]
  <1>1. DOMAIN m = Cells(B)
    OBVIOUS
  <1>2. n = [a \in Cells(B) |-> IF a \in Span(to, len) THEN m[from + (a - to)] ELSE m[a]]
    BY <1>1
  <1>3. n = [a \in Cells(B) |-> n[a]]
    BY <1>2
  <1>4. \A a \in Cells(B) : a \notin Span(to, len) => n[a] = m[a]
    BY <1>2
  <1>5. \A a \in Cells(B) : a \in Span(to, len) => n[a] = m[from + (a - to)]
    BY <1>2
  <1> QED BY <1>3, <1>4, <1>5 DEF WritesOnly

LEMMA CopySource ==
  ASSUME NEW to \in Nat, NEW from \in Nat, NEW known \in Nat, NEW old \in Nat, known <= old,
         NEW a \in Span(to, known)
  PROVE  from + (a - to) \in Span(from, old)
BY DEF Span

LEMMA ResizeInv ==
  ASSUME Ready, NEW block \in live, NEW l \in Layout, Resize(block, l)
  PROVE  RouterInv'
  <1>0. /\ conf \in Builds /\ hist \in Hist /\ phase = "ready" /\ Now /\ Contents(mem, live)
        /\ mem = [a \in Cells(conf) |-> mem[a]] /\ BlocksOk(live)
    BY MemCells DEF Ready
  <1>1. PICK o, x, len, n :
          /\ o = Offer(l) /\ x = Moved(block, l, o)
          /\ len = IF l.size < block.size THEN l.size ELSE block.size
          /\ n = [a \in DOMAIN mem |-> IF a \in Span(o.ptr, len)
                                       THEN mem[block.ptr + (a - o.ptr)] ELSE mem[a]]
    OBVIOUS
  <1>2. PICK f : f = Freed(block, o.primary, o.backing, o.classes, n)
    OBVIOUS
  <1>3. f = CopiedThenFreed(block, l, o)
    BY <1>1, <1>2 DEF CopiedThenFreed
  <1>4. /\ o.home # "none" /\ live' = (live \ {block}) \cup {x} /\ conf' = conf /\ phase' = phase
        /\ primary' = f.p /\ backing' = f.b /\ classes' = f.c /\ mem' = f.m
        /\ block.size > 0 /\ block.size # l.size /\ block.align = l.align
        /\ hist' = [hist EXCEPT !.calls = @ + 1, !.pignored = @ + f.pignored,
                                !.bignored = @ + f.bignored]
    BY <1>1, <1>3 DEF Resize
  <1>5. block.known \in Nat /\ block.size \in Nat /\ block.known <= block.size /\ block.ptr \in Nat
    BY <1>0, <1>4 DEF BlocksOk, BlockOk
  <1>6. l.size \in Nat
    BY LayoutKnown
  <1>7. /\ Served(x, l, o) /\ x.known <= block.known /\ x.holds = block.holds
        /\ x.known \in Nat /\ x.known <= l.size
    BY <1>1, <1>4, <1>5, MovedServed
  <1>8. x.ptr \in Nat /\ o.usable \in Nat /\ x.size <= o.usable /\ x.size \in Nat /\ x.size > 0
    BY <1>0, <1>1, <1>4, <1>7, ServedAddress
  <1>9. o.ptr = x.ptr /\ x.size = l.size
    BY <1>7 DEF Served, Fitting
  <1>10. len \in Nat /\ x.known <= len /\ len <= o.usable /\ len <= block.size
    BY <1>1, <1>5, <1>6, <1>7, <1>8, <1>9
  <1>11. PICK to, from, m :
           to \in Nat /\ from \in Nat /\ to = x.ptr /\ from = block.ptr /\ m = mem
    BY <1>5, <1>8
  <1>12. n = [a \in DOMAIN m |-> IF a \in Span(to, len) THEN m[from + (a - to)] ELSE m[a]]
    BY <1>1, <1>9, <1>11
  <1>13. m = [a \in Cells(conf) |-> m[a]]
    BY <1>0, <1>11
  <1>11a. to \in Nat /\ from \in Nat /\ len \in Nat
    BY <1>10, <1>11
  <1>14. WritesOnly(conf, m, n, to, len)
    BY <1>11a, <1>12, <1>13, CopyWrites, Zenon
  <1>15. \A a \in Cells(conf) : a \in Span(to, len) => n[a] = m[from + (a - to)]
    BY <1>10, <1>11, <1>12, <1>13, CopyWrites
  <1>16. WritesOnly(conf, mem, n, x.ptr, o.usable)
    BY <1>8, <1>10, <1>11, <1>14, WiderWrite
  <1>17. ASSUME NEW a \in Span(x.ptr, x.known), a \in Cells(conf) PROVE n[a] = x.holds
    <2>1. a \in Span(to, len)
      BY <1>7, <1>10, <1>11, WithinSpan
    <2>2. n[a] = m[from + (a - to)]
      BY <1>15, <1>17, <2>1
    <2>3. from + (a - to) \in Span(block.ptr, block.known)
      BY <1>5, <1>7, <1>11, CopySource
    <2>4. m[from + (a - to)] = block.holds
      BY <1>0, <1>4, <1>11, <2>3 DEF Contents
    <2> QED BY <1>7, <2>2, <2>4
  <1>18. \A a \in Span(x.ptr, x.known) : a \in Cells(conf) => n[a] = x.holds
    BY <1>17
  <1>19. Struct(conf, o.primary, o.backing, o.classes, n, live \cup {x}, hist)
    BY <1>0, <1>1, <1>4, <1>7, <1>16, <1>18, Filled
  <1>20. Contents(n, live \cup {x})
    BY <1>0, <1>1, <1>4, <1>7, <1>16, <1>18, Filled
  <1>21. PICK L : L = live \cup {x}
    OBVIOUS
  <1>22. block \in L /\ L \ {block} = live'
    <2>1. x.size # block.size
      BY <1>4, <1>9
    <2>2. x # block
      BY <2>1
    <2> QED BY <1>4, <1>21, <2>2
  <1>23. f.pignored \in Nat /\ f.bignored \in Nat
    BY <1>2, FreedCounts
  <1>24. hist' \in Hist /\ Counts(hist, hist', f)
    <2>1. PICK i \in Nat, j \in Nat : i = f.pignored /\ j = f.bignored
      BY <1>23
    <2>2. PICK h \in Hist : h = hist
      BY <1>0
    <2>3. PICK g : g = hist'
      OBVIOUS
    <2>4. g = [h EXCEPT !.calls = @ + 1, !.pignored = @ + i, !.bignored = @ + j]
      BY <1>4, <2>1, <2>2, <2>3
    <2>5. g = HistPlus(h, 1, i, j)
      BY <2>4, HistResized
    <2>6. PICK k \in Nat : k = 1
      OBVIOUS
    <2>7. g = HistPlus(h, k, i, j)
      BY <2>5, <2>6
    <2>8. g \in Hist
      BY <2>7, HistAdd
    <2>9. g.strays = h.strays /\ g.pignored = h.pignored + i /\ g.bignored = h.bignored + j
      BY <2>7 DEF HistPlus
    <2> QED BY <2>1, <2>2, <2>3, <2>8, <2>9 DEF Counts
  <1>25. FreedOk(f, L, block, hist')
    <2>1. PICK p, b, c : p = o.primary /\ b = o.backing /\ c = o.classes
      OBVIOUS
    <2>2. Struct(conf, p, b, c, n, L, hist) /\ Contents(n, L) /\ f = Freed(block, p, b, c, n)
      BY <1>2, <1>19, <1>20, <1>21, <2>1
    <2> QED BY <1>4, <1>22, <1>24, <2>2, FreeLemma
  <1>26. Struct(conf, f.p, f.b, f.c, f.m, L \ {block}, hist') /\ Contents(f.m, L \ {block})
    BY <1>25 DEF FreedOk
  <1>27. /\ Struct(conf, primary', backing', classes', mem', live', hist') /\ Contents(mem', live')
         /\ phase' = "ready"
    BY <1>0, <1>4, <1>22, <1>26
  <1> QED BY <1>0, <1>4, <1>24, <1>27, ReadyNext

LEMMA StrayWriteInv ==
  ASSUME Ready, NEW i \in DOMAIN classes, StrayWrite(i)
  PROVE  RouterInv'
  <1>0. conf \in Builds /\ hist \in Hist /\ phase = "ready" /\ Now /\ Contents(mem, live)
    BY DEF Ready
  <1>1. PICK q \in FreeSlots(classes[i]) :
          mem' = [mem EXCEPT ![SlotAddr(conf.sbase, classes[i], q)] = Junk]
    BY DEF StrayWrite
  <1>2. /\ hist' = [hist EXCEPT !.strays = @ + 1] /\ conf' = conf /\ phase' = phase
        /\ primary' = primary /\ backing' = backing /\ classes' = classes /\ live' = live
    BY DEF StrayWrite
  <1>3. /\ Ground(conf, primary, backing, classes) /\ conf.sbase \in Nat
        /\ classes \in Seq(Class) /\ Regions(conf, backing, classes)
    BY <1>0, StructFacts, GroundFacts DEF Now
  <1>4. i \in 1..Len(classes)
    BY <1>3
  <1>5. classes[i] \in Class /\ classes[i].slots = conf.slots
    BY <1>3, <1>4 DEF Regions
  <1>6. PICK fl \in [Nat -> Nat], lo \in Nat, hi \in Nat :
          /\ ListOk(conf.sbase, classes[i], mem, fl, lo, hi, hist.strays)
          /\ SlotsOk(conf.sbase, classes[i], OfClass(live, i), fl, lo, hi, hist.strays)
    <2>1. ClassOk(conf, classes[i], mem, OfClass(live, i), hist.strays)
      BY <1>0, <1>4, StructFacts DEF Now
    <2> QED BY <2>1 DEF ClassOk
  <1>7. FreeSlots(classes[i]) = Listed(fl, lo, hi)
    BY <1>3, <1>5, <1>6, FreeSlotsListed
  <1>8. PICK j \in lo..hi : q = fl[j]
    BY <1>1, <1>7 DEF Listed
  <1>9. PICK z : z = SlotAddr(conf.sbase, classes[i], fl[j])
    OBVIOUS
  <1>10. PICK n : n = mem'
    OBVIOUS
  <1>11. n = [mem EXCEPT ![z] = LinkTo(classes[i].slots + 1)]
    BY <1>1, <1>5, <1>8, <1>9, <1>10 DEF Junk
  <1>12. OneMoreStray(hist, hist') /\ hist' \in Hist
    BY <1>0, <1>2 DEF OneMoreStray, Hist
  <1>13. PICK g : g = hist'
    OBVIOUS
  <1>14. Struct(conf, primary, backing, classes, n, live, g)
    BY <1>0, <1>4, <1>6, <1>9, <1>11, <1>12, <1>13, StrayStruct DEF Now
  <1>15. Contents(n, live)
    BY <1>0, <1>4, <1>6, <1>9, <1>11, <1>12, <1>13, StrayStruct DEF Now
  <1>16. /\ Struct(conf, primary', backing', classes', mem', live', hist') /\ Contents(mem', live')
         /\ phase' = "ready"
    BY <1>0, <1>2, <1>10, <1>13, <1>14, <1>15
  <1> QED BY <1>0, <1>2, <1>12, <1>16, ReadyNext

-----------------------------------------------------------------------------
(* Construction: the regions taken one by one, and given back in reverse.  *)
BuildStep(at, cap, sizes, slots, i, b) ==
  LET region == [size |-> sizes[i] * slots, align |-> sizes[i]]
  IN IF Len(b.classes) < i - 1 \/ ~StackHasRoom(b.backing, at, cap, region)
     THEN b
     ELSE [backing |-> StackPush(b.backing, at, region),
           classes |-> Append(b.classes,
             NewClass(AlignedOff(at, b.backing.cursor, region), sizes[i], slots))]

IsBuild(at, cap, sizes, slots, n, f) ==
  f = [i \in 0..n |-> IF i = 0 THEN [backing |-> NewStack, classes |-> <<>>]
                      ELSE BuildStep(at, cap, sizes, slots, i, f[i - 1])]

LEMMA BuildExists ==
  ASSUME NEW at, NEW cap, NEW sizes, NEW slots
  PROVE  \A n \in Nat : \E f : IsBuild(at, cap, sizes, slots, n, f)
  <1> DEFINE F(i, b) == BuildStep(at, cap, sizes, slots, i, b)
             z == [backing |-> NewStack, classes |-> <<>>]
             Good(n, f) == f = [i \in 0..n |-> IF i = 0 THEN z ELSE F(i, f[i - 1])]
             S == {n \in Nat : ~ \E f : Good(n, f)}
  <1> HIDE DEF F, z
  <1>1. S = {}
    <2> SUFFICES ASSUME S # {} PROVE FALSE
      OBVIOUS
    <2>1. PICK n \in S : \A y \in S : n <= y
      BY LeastNat
    <2>2. CASE n = 0
      <3> DEFINE f == [i \in 0..0 |-> z]
      <3>1. Good(0, f)
        OBVIOUS
      <3> QED BY <3>1, <2>1, <2>2
    <2>3. CASE n > 0
      <3>1. n \in Nat /\ n - 1 \in Nat /\ n - 1 \notin S
        <4>1. S \in SUBSET Nat
          OBVIOUS
        <4> HIDE DEF S
        <4> QED BY <4>1, <2>1, <2>3
      <3>2. PICK f : Good(n - 1, f)
        BY <3>1
      <3> DEFINE g == [i \in 0..n |-> IF i = n THEN F(n, f[n - 1]) ELSE f[i]]
                 h == [i \in 0..n |-> IF i = 0 THEN z ELSE F(i, g[i - 1])]
      <3>3. ASSUME NEW i \in 0..n PROVE g[i] = h[i]
        <4>1. CASE i = n
          <5>1. g[n] = F(n, f[n - 1]) /\ g[n - 1] = f[n - 1] /\ h[n] = F(n, g[n - 1])
            BY <2>3, <3>1
          <5> QED BY <4>1, <5>1
        <4>2. CASE i = 0
          BY <4>2, <3>1, <3>2, <2>3
        <4>3. CASE i # 0 /\ i # n
          <5>1. i \in 0..(n - 1) /\ i - 1 \in 0..(n - 1) /\ i - 1 # n /\ i - 1 \in 0..n
            BY <3>1, <4>3
          <5>2. f[i] = F(i, f[i - 1])
            BY <3>1, <3>2, <4>3, <5>1
          <5>3. g[i] = f[i] /\ g[i - 1] = f[i - 1]
            BY <4>3, <5>1
          <5>4. h[i] = F(i, g[i - 1])
            BY <4>3
          <5> QED BY <5>2, <5>3, <5>4
        <4> QED BY <4>1, <4>2, <4>3
      <3>4. g = h
        BY <3>3
      <3>5. Good(n, g)
        BY <3>4
      <3> QED BY <3>5, <2>1
    <2> QED BY <2>1, <2>2, <2>3
  <1>2. ASSUME NEW n \in Nat PROVE \E f : IsBuild(at, cap, sizes, slots, n, f)
    <2>1. \E f : Good(n, f)
      BY <1>1
    <2> QED BY <2>1 DEF IsBuild, F, z
  <1> QED BY <1>2

LEMMA BuildIs ==
  ASSUME NEW at, NEW cap, NEW sizes \in Seq(Nat), NEW slots
  PROVE  \E f : /\ IsBuild(at, cap, sizes, slots, Len(sizes), f)
                /\ BuildClasses(at, cap, sizes, slots) = f[Len(sizes)]
  <1> DEFINE w == CHOOSE f : IsBuild(at, cap, sizes, slots, Len(sizes), f)
  <1>1. \E f : IsBuild(at, cap, sizes, slots, Len(sizes), f)
    <2>1. Len(sizes) \in Nat
      OBVIOUS
    <2> QED BY <2>1, BuildExists, Zenon
  <1>2. IsBuild(at, cap, sizes, slots, Len(sizes), w)
    BY <1>1
  <1>3. BuildClasses(at, cap, sizes, slots) = w[Len(sizes)]
    BY DEF BuildClasses, IsBuild, BuildStep
  <1> HIDE DEF w
  <1> QED BY <1>2, <1>3

IsGivenBack(b, c, n, f) ==
  f = [i \in 0..n |-> IF i = 0 THEN b ELSE StackFree(f[i - 1], c[Len(c) + 1 - i].off)]

LEMMA GivenBackExists ==
  ASSUME NEW b, NEW c
  PROVE  \A n \in Nat : \E f : IsGivenBack(b, c, n, f)
  <1> DEFINE F(i, st) == StackFree(st, c[Len(c) + 1 - i].off)
             Good(n, f) == f = [i \in 0..n |-> IF i = 0 THEN b ELSE F(i, f[i - 1])]
             S == {n \in Nat : ~ \E f : Good(n, f)}
  <1> HIDE DEF F
  <1>1. S = {}
    <2> SUFFICES ASSUME S # {} PROVE FALSE
      OBVIOUS
    <2>1. PICK n \in S : \A y \in S : n <= y
      BY LeastNat
    <2>2. CASE n = 0
      <3> DEFINE f == [i \in 0..0 |-> b]
      <3>1. Good(0, f)
        OBVIOUS
      <3> QED BY <3>1, <2>1, <2>2
    <2>3. CASE n > 0
      <3>1. n \in Nat /\ n - 1 \in Nat /\ n - 1 \notin S
        <4>1. S \in SUBSET Nat
          OBVIOUS
        <4> HIDE DEF S
        <4> QED BY <4>1, <2>1, <2>3
      <3>2. PICK f : Good(n - 1, f)
        BY <3>1
      <3> DEFINE g == [i \in 0..n |-> IF i = n THEN F(n, f[n - 1]) ELSE f[i]]
                 h == [i \in 0..n |-> IF i = 0 THEN b ELSE F(i, g[i - 1])]
      <3>3. ASSUME NEW i \in 0..n PROVE g[i] = h[i]
        <4>1. CASE i = n
          <5>1. g[n] = F(n, f[n - 1]) /\ g[n - 1] = f[n - 1] /\ h[n] = F(n, g[n - 1])
            BY <2>3, <3>1
          <5> QED BY <4>1, <5>1
        <4>2. CASE i = 0
          BY <4>2, <3>1, <3>2, <2>3
        <4>3. CASE i # 0 /\ i # n
          <5>1. i \in 0..(n - 1) /\ i - 1 \in 0..(n - 1) /\ i - 1 # n /\ i - 1 \in 0..n
            BY <3>1, <4>3
          <5>2. f[i] = F(i, f[i - 1])
            BY <3>1, <3>2, <4>3, <5>1
          <5>3. g[i] = f[i] /\ g[i - 1] = f[i - 1]
            BY <4>3, <5>1
          <5>4. h[i] = F(i, g[i - 1])
            BY <4>3
          <5> QED BY <5>2, <5>3, <5>4
        <4> QED BY <4>1, <4>2, <4>3
      <3>4. g = h
        BY <3>3
      <3>5. Good(n, g)
        BY <3>4
      <3> QED BY <3>5, <2>1
    <2> QED BY <2>1, <2>2, <2>3
  <1>2. ASSUME NEW n \in Nat PROVE \E f : IsGivenBack(b, c, n, f)
    <2>1. \E f : Good(n, f)
      BY <1>1
    <2> QED BY <2>1 DEF IsGivenBack, F
  <1> QED BY <1>2

LEMMA GivenBackIs ==
  ASSUME NEW b, NEW c \in Seq(Class)
  PROVE  \E f : /\ IsGivenBack(b, c, Len(c), f)
                /\ FreeRegionsReverse(b, c) = f[Len(c)]
  <1> DEFINE w == CHOOSE f : IsGivenBack(b, c, Len(c), f)
  <1>1. \E f : IsGivenBack(b, c, Len(c), f)
    <2>1. Len(c) \in Nat
      OBVIOUS
    <2> QED BY <2>1, GivenBackExists, Zenon
  <1>2. IsGivenBack(b, c, Len(c), w)
    BY <1>1
  <1>3. FreeRegionsReverse(b, c) = w[Len(c)]
    BY DEF FreeRegionsReverse, IsGivenBack
  <1> HIDE DEF w
  <1> QED BY <1>2, <1>3

(* The classes built so far: a frame each, and untouched. *)
BuiltOk(B, b, c) ==
  /\ StackOk(b, B.scap) /\ Len(b.frames) = Len(c) /\ Regions(B, b, c)
  /\ \A i \in 1..Len(c) : c[i].head = 0 /\ c[i].next = 0 /\ c[i].events = 0

LEMMA EmptyStack ==
  ASSUME NEW cap \in Nat
  PROVE  StackOk(NewStack, cap) /\ Len(NewStack.frames) = 0 /\ NewStack.cursor = 0
  <1>1. NewStack.frames = <<>> /\ NewStack.cursor = 0 /\ Len(NewStack.frames) = 0
    BY DEF NewStack
  <1>2. NewStack \in Stack
    BY DEF NewStack, Stack
  <1>3. Bound(NewStack, 1) = 0
    BY <1>1 DEF Bound
  <1>4. \A k \in 1..(Len(NewStack.frames) + 1) : k = 1
    BY <1>1
  <1>5. ASSUME NEW j \in 1..(Len(NewStack.frames) + 1), NEW k \in 1..(Len(NewStack.frames) + 1), j <= k
        PROVE  Bound(NewStack, j) <= Bound(NewStack, k)
    <2>1. Bound(NewStack, j) = 0 /\ Bound(NewStack, k) = 0
      BY <1>3, <1>4
    <2> QED BY <2>1
  <1>6. 1..Len(NewStack.frames) = {}
    BY <1>1
  <1> QED BY <1>1, <1>2, <1>3, <1>5, <1>6 DEF StackOk

LEMMA StackEmpty ==
  ASSUME NEW st, NEW cap, StackOk(st, cap), Len(st.frames) = 0
  PROVE  st = NewStack
  <1>1. st \in Stack /\ Bound(st, 1) = 0
    BY DEF StackOk
  <1>2. st.frames \in Seq(Frame) /\ st = [cursor |-> st.cursor, frames |-> st.frames]
    BY <1>1 DEF Stack
  <1>3. st.frames = <<>>
    BY <1>2
  <1>4. st.cursor = 0
    BY <1>1 DEF Bound
  <1> QED BY <1>2, <1>3, <1>4 DEF NewStack

LEMMA NothingBuilt ==
  ASSUME NEW B, B.scap \in Nat
  PROVE  BuiltOk(B, NewStack, <<>>)
  <1>1. StackOk(NewStack, B.scap) /\ Len(NewStack.frames) = 0
    BY EmptyStack
  <1>2. <<>> \in Seq(Class) /\ Len(<<>>) = 0 /\ 1..Len(<<>>) = {}
    OBVIOUS
  <1>3. Regions(B, NewStack, <<>>)
    BY <1>1, <1>2 DEF Regions
  <1> QED BY <1>1, <1>2, <1>3 DEF BuiltOk

LEMMA SameAddend ==
  ASSUME NEW a \in Nat, NEW x \in Nat, NEW y \in Nat, a + x = a + y
  PROVE  x = y
OBVIOUS

(* What PushFrame states, as one fact. *)
Pushes(st, ns, cap, at, l, off) ==
  /\ StackOk(ns, cap) /\ Len(ns.frames) = Len(st.frames) + 1
  /\ \A k \in 1..Len(st.frames) : ns.frames[k] = st.frames[k] /\ Bound(ns, k + 1) = Bound(st, k + 1)
  /\ ns.frames[Len(st.frames) + 1].off = off /\ off + l.size <= Bound(ns, (Len(st.frames) + 1) + 1)
  /\ (at + off) % l.align = 0 /\ off \in Nat

LEMMA PushFacts ==
  ASSUME NEW st, NEW cap \in Nat, StackOk(st, cap), NEW at \in Nat, NEW l,
         l.align \in Nat \ {0}, l.size \in Nat \ {0}, StackHasRoom(st, at, cap, l),
         NEW ns, ns = StackPush(st, at, l), NEW off, off = AlignedOff(at, st.cursor, l)
  PROVE  Pushes(st, ns, cap, at, l, off)
  <1>1. st \in Stack /\ st.cursor \in Nat /\ Len(st.frames) \in Nat
    BY StackFields DEF StackOk
  <1>2. off \in Nat /\ (at + off) % l.align = 0
    BY <1>1, PlacementOf
  <1>3. StackOk(ns, cap)
    BY PushFrame
  <1>4. Len(ns.frames) = Len(st.frames) + 1
    BY PushFrame
  <1>5. \A k \in 1..Len(st.frames) : ns.frames[k] = st.frames[k] /\ Bound(ns, k + 1) = Bound(st, k + 1)
    BY PushFrame
  <1>6. InFrame(ns, at, Len(st.frames) + 1, at + off, l.size)
    BY PushFrame
  <1>7. PICK k : k = Len(st.frames) + 1
    OBVIOUS
  <1>8. ns \in Stack /\ k \in 1..Len(ns.frames)
    BY <1>1, <1>3, <1>4, <1>7 DEF StackOk
  <1>9. PICK x \in Nat : x = ns.frames[k].off
    BY <1>8, StackFields
  <1>10. at + off = at + x /\ x + l.size <= Bound(ns, k + 1)
    BY <1>6, <1>7, <1>9 DEF InFrame
  <1>11. x = off
    <2>1. PICK y \in Nat : y = off
      BY <1>2
    <2>2. at + y = at + x
      BY <1>10, <2>1
    <2>3. y = x
      BY <2>2, SameAddend
    <2> QED BY <2>1, <2>3
  <1> QED BY <1>2, <1>3, <1>4, <1>5, <1>7, <1>9, <1>10, <1>11 DEF Pushes

(* One more region: the frame behind those there are. *)
LEMMA BuildGrows ==
  ASSUME NEW B, B.sbase \in Nat, B.scap \in Nat, NEW slots \in Nat \ {0}, slots = B.slots,
         NEW b, NEW c, BuiltOk(B, b, c), NEW w \in Nat \ {0}, IsPowerOfTwo(w),
         NEW l, l.size = w * slots, l.align = w, StackHasRoom(b, B.sbase, B.scap, l),
         NEW nb, nb = StackPush(b, B.sbase, l),
         NEW nc, nc = Append(c, NewClass(AlignedOff(B.sbase, b.cursor, l), w, slots))
  PROVE  BuiltOk(B, nb, nc)
  <1>1. /\ StackOk(b, B.scap) /\ Len(b.frames) = Len(c) /\ Regions(B, b, c)
        /\ \A i \in 1..Len(c) : c[i].head = 0 /\ c[i].next = 0 /\ c[i].events = 0
    BY DEF BuiltOk
  <1>2. c \in Seq(Class) /\ Len(c) \in Nat
    BY <1>1 DEF Regions
  <1>3. PICK n \in Nat : n = Len(c)
    BY <1>2
  <1>4. l.align \in Nat \ {0}
    OBVIOUS
  <1>5. PICK z \in Nat : z = w * slots
    BY TimesNat
  <1>6. z # 0 /\ z = slots * w
    <2>1. w * slots = slots * w /\ w * slots >= slots
      BY TimesComm, TimesAtLeast
    <2> QED BY <1>5, <2>1
  <1>7. l.size \in Nat \ {0} /\ l.size = z
    BY <1>5, <1>6
  <1>8. PICK off, at : off = AlignedOff(B.sbase, b.cursor, l) /\ at = B.sbase
    OBVIOUS
  <1>9. PICK cap : cap \in Nat /\ cap = B.scap
    OBVIOUS
  <1>10. /\ StackOk(b, cap) /\ at \in Nat /\ StackHasRoom(b, at, cap, l) /\ nb = StackPush(b, at, l)
         /\ off = AlignedOff(at, b.cursor, l)
    BY <1>1, <1>8, <1>9
  <1>10a. Pushes(b, nb, cap, at, l, off)
    BY <1>4, <1>7, <1>9, <1>10, PushFacts, Zenon
  <1>11. StackOk(nb, cap) /\ Len(nb.frames) = Len(b.frames) + 1
    BY <1>10a DEF Pushes
  <1>12. \A k \in 1..Len(b.frames) : nb.frames[k] = b.frames[k] /\ Bound(nb, k + 1) = Bound(b, k + 1)
    BY <1>10a DEF Pushes
  <1>14. (at + off) % l.align = 0 /\ off \in Nat
    BY <1>10a DEF Pushes
  <1>16. PICK cl : cl = NewClass(off, w, slots)
    OBVIOUS
  <1>17. /\ cl \in Class /\ cl.off = off /\ cl.stride = w /\ cl.slots = slots
         /\ cl.head = 0 /\ cl.next = 0 /\ cl.events = 0
    BY <1>14, <1>16 DEF NewClass, Class
  <1>18. nc = Append(c, cl)
    BY <1>8, <1>16
  <1>19. /\ nc \in Seq(Class) /\ Len(nc) = n + 1 /\ nc[n + 1] = cl
         /\ \A i \in 1..n : nc[i] = c[i]
    BY <1>2, <1>3, <1>17, <1>18
  <1>20. Regions(B, nb, c)
    <2>1. KeepsBelow(b, nb, Len(c) + 1)
      <3>1. (Len(c) + 1) - 1 = Len(b.frames) /\ Len(b.frames) <= Len(nb.frames)
        BY <1>1, <1>2, <1>11
      <3> QED BY <1>12, <3>1 DEF KeepsBelow
    <2> QED BY <1>1, <2>1, RegionsKept
  <1>21. Len(nb.frames) = n + 1 /\ Len(b.frames) = n
    BY <1>1, <1>3, <1>11
  <1>22. nb.frames[n + 1].off = off /\ off + z <= Bound(nb, (n + 1) + 1)
    BY <1>7, <1>10a, <1>21 DEF Pushes
  <1>23. ASSUME NEW i \in 1..Len(nc)
         PROVE  /\ nc[i].slots = B.slots /\ IsPowerOfTwo(nc[i].stride)
                /\ nc[i].off = nb.frames[i].off
                /\ nc[i].off + nc[i].slots * nc[i].stride <= Bound(nb, i + 1)
                /\ (B.sbase + nc[i].off) % nc[i].stride = 0
    <2>1. CASE i = n + 1
      <3>1. nc[i] = cl
        BY <1>19, <2>1
      <3>2. nc[i].slots = B.slots /\ IsPowerOfTwo(nc[i].stride) /\ nc[i].off = nb.frames[i].off
        BY <1>17, <1>22, <2>1, <3>1
      <3>3. cl.off + cl.slots * cl.stride <= Bound(nb, i + 1)
        BY <1>6, <1>17, <1>22, <2>1
      <3>4. (B.sbase + cl.off) % cl.stride = 0
        BY <1>8, <1>14, <1>17
      <3> QED BY <3>1, <3>2, <3>3, <3>4
    <2>2. CASE i # n + 1
      <3>1. i \in 1..n /\ i \in 1..Len(c)
        BY <1>3, <1>19, <2>2
      <3>2. nc[i] = c[i]
        BY <1>19, <3>1
      <3> QED BY <1>20, <3>1, <3>2 DEF Regions
    <2> QED BY <2>1, <2>2
  <1>24. Regions(B, nb, nc)
    <2>1. Len(nc) <= Len(nb.frames)
      BY <1>19, <1>21
    <2> QED BY <1>19, <1>23, <2>1 DEF Regions
  <1>25. \A i \in 1..Len(nc) : nc[i].head = 0 /\ nc[i].next = 0 /\ nc[i].events = 0
    BY <1>1, <1>3, <1>17, <1>19
  <1> QED BY <1>9, <1>11, <1>19, <1>21, <1>24, <1>25 DEF BuiltOk

(* A build step by step: at each of them the classes are in order. *)
LEMMA BuildStepOk ==
  ASSUME NEW B, B.sbase \in Nat, B.scap \in Nat, B.slots \in Nat \ {0}, NEW sizes,
         NEW i, sizes[i] \in Nat \ {0}, IsPowerOfTwo(sizes[i]),
         NEW u, BuiltOk(B, u.backing, u.classes),
         NEW v, v = BuildStep(B.sbase, B.scap, sizes, B.slots, i, u)
  PROVE  BuiltOk(B, v.backing, v.classes)
  <1>1. PICK b, c, at, cap, l :
          /\ b = u.backing /\ c = u.classes /\ at = B.sbase /\ cap = B.scap
          /\ l = [size |-> sizes[i] * B.slots, align |-> sizes[i]]
    OBVIOUS
  <1>2. PICK w \in Nat \ {0}, slots \in Nat \ {0} : w = sizes[i] /\ slots = B.slots
    OBVIOUS
  <1>3. l.size = w * slots /\ l.align = w
    BY <1>1, <1>2
  <1>4. PICK nb, nc : /\ nb = StackPush(b, at, l)
                      /\ nc = Append(c, NewClass(AlignedOff(at, b.cursor, l), w, slots))
    OBVIOUS
  <1>5. v = IF Len(c) < i - 1 \/ ~StackHasRoom(b, at, cap, l) THEN u
            ELSE [backing |-> nb, classes |-> nc]
    BY <1>1, <1>2, <1>4 DEF BuildStep
  <1>6. CASE Len(c) < i - 1 \/ ~StackHasRoom(b, at, cap, l)
    BY <1>5, <1>6
  <1>7. CASE ~(Len(c) < i - 1 \/ ~StackHasRoom(b, at, cap, l))
    <2>1. v.backing = nb /\ v.classes = nc
      BY <1>5, <1>7
    <2>2. IsPowerOfTwo(w) /\ BuiltOk(B, b, c)
      BY <1>1, <1>2
    <2>3. StackHasRoom(b, B.sbase, B.scap, l) /\ nb = StackPush(b, B.sbase, l)
          /\ nc = Append(c, NewClass(AlignedOff(B.sbase, b.cursor, l), w, slots))
      BY <1>1, <1>4, <1>7
    <2>4. BuiltOk(B, nb, nc)
      BY <1>2, <1>3, <2>2, <2>3, BuildGrows
    <2> QED BY <2>1, <2>4
  <1> QED BY <1>6, <1>7

LEMMA BuildValues ==
  ASSUME NEW B, B.sbase \in Nat, B.scap \in Nat, B.slots \in Nat \ {0}, NEW sizes, NEW n \in Nat,
         \A i \in 1..n : sizes[i] \in Nat \ {0} /\ IsPowerOfTwo(sizes[i]),
         NEW f, IsBuild(B.sbase, B.scap, sizes, B.slots, n, f)
  PROVE  BuiltOk(B, f[n].backing, f[n].classes)
  <1> DEFINE S == {i \in 0..n : ~BuiltOk(B, f[i].backing, f[i].classes)}
  <1>1. S = {}
    <2> SUFFICES ASSUME S # {} PROVE FALSE
      OBVIOUS
    <2>0. S \in SUBSET Nat
      OBVIOUS
    <2>1. PICK k \in S : \A y \in S : k <= y
      <3> HIDE DEF S
      <3> QED BY <2>0, LeastNat
    <2>2. k \in 0..n /\ ~BuiltOk(B, f[k].backing, f[k].classes)
      BY <2>1
    <2>3. CASE k = 0
      <3>1. f[0] = [backing |-> NewStack, classes |-> <<>>]
        BY DEF IsBuild
      <3>2. f[0].backing = NewStack /\ f[0].classes = <<>>
        BY <3>1
      <3> QED BY <2>2, <2>3, <3>2, NothingBuilt
    <2>4. CASE k # 0
      <3>1. k - 1 \in 0..n /\ k \in 1..n /\ ~(k <= k - 1)
        BY <2>2, <2>4
      <3>2. k - 1 \notin S
        <4> HIDE DEF S
        <4> QED BY <2>1, <3>1
      <3>3. BuiltOk(B, f[k - 1].backing, f[k - 1].classes)
        BY <3>1, <3>2
      <3>4. f[k] = BuildStep(B.sbase, B.scap, sizes, B.slots, k, f[k - 1])
        BY <2>2, <2>4 DEF IsBuild
      <3>5. BuiltOk(B, f[k].backing, f[k].classes)
        BY <3>1, <3>3, <3>4, BuildStepOk
      <3> QED BY <2>2, <3>5
    <2> QED BY <2>3, <2>4
  <1> QED BY <1>1

LEMMA BuildClassesOk ==
  ASSUME NEW B \in Builds, ValidClasses(B.sizes, B.slots),
         NEW u, u = BuildClasses(B.sbase, B.scap, B.sizes, B.slots)
  PROVE  BuiltOk(B, u.backing, u.classes)
  <1>1. /\ B.sbase \in Nat /\ B.scap \in Nat /\ B.slots \in Nat /\ B.sizes \in Seq(Nat)
    BY RouterAssumption
  <1>2. PICK n \in Nat : n = Len(B.sizes)
    BY <1>1
  <1>3. B.slots \in Nat \ {0}
    BY <1>1 DEF ValidClasses
  <1>4. \A i \in 1..n : B.sizes[i] \in Nat \ {0} /\ IsPowerOfTwo(B.sizes[i])
    <2>1. \A i \in 1..n : B.sizes[i] \in Nat /\ i \in DOMAIN B.sizes
      BY <1>1, <1>2
    <2> QED BY <2>1 DEF ValidClasses
  <1>5. PICK f : /\ IsBuild(B.sbase, B.scap, B.sizes, B.slots, n, f)
                 /\ BuildClasses(B.sbase, B.scap, B.sizes, B.slots) = f[n]
    BY <1>1, <1>2, BuildIs
  <1>6. BuiltOk(B, f[n].backing, f[n].classes)
    BY <1>1, <1>3, <1>4, <1>5, BuildValues
  <1> QED BY <1>5, <1>6

(* Given back in reverse, each region is the top frame when its turn comes.*)
LeftOver(b, cap, n, st, i) ==
  /\ StackOk(st, cap) /\ Len(st.frames) = n - i
  /\ \A k \in 1..(n - i) : st.frames[k] = b.frames[k]

LEMMA GiveBackStep ==
  ASSUME NEW b, NEW cap \in Nat, NEW n \in Nat, NEW st, NEW i \in 1..n, LeftOver(b, cap, n, st, i - 1),
         NEW off, off = b.frames[n + 1 - i].off
  PROVE  LeftOver(b, cap, n, StackFree(st, off), i)
  <1>1. StackOk(st, cap) /\ Len(st.frames) = n - (i - 1)
        /\ \A k \in 1..(n - (i - 1)) : st.frames[k] = b.frames[k]
    BY DEF LeftOver
  <1>2. PICK k \in Nat : k = n + 1 - i
    OBVIOUS
  <1>3. k = n - (i - 1) /\ k \in 1..k /\ n - i = k - 1 /\ k # 0
    BY <1>2
  <1>4. st.frames[k].off = off /\ Len(st.frames) = k
    BY <1>1, <1>2, <1>3
  <1>5. st.frames \in Seq(Frame)
    BY <1>1, StackFields DEF StackOk
  <1>6. IsTop(st, off)
    BY <1>3, <1>4, <1>5 DEF IsTop, Last
  <1>7. StackOk(StackFree(st, off), cap) /\ Len(StackFree(st, off).frames) = k - 1
    BY <1>1, <1>4, <1>6, PopFrame
  <1>8. \A j \in 1..(k - 1) : StackFree(st, off).frames[j] = st.frames[j]
    BY <1>1, <1>4, <1>6, PopFrame, SMTT(30)
  <1>9. \A j \in 1..(k - 1) : j \in 1..(n - (i - 1))
    BY <1>3
  <1> QED BY <1>1, <1>3, <1>7, <1>8, <1>9 DEF LeftOver

LEMMA GivenBackValues ==
  ASSUME NEW b, NEW cap \in Nat, NEW c, NEW n \in Nat, Len(c) = n, Len(b.frames) = n, StackOk(b, cap),
         \A i \in 1..n : c[i].off = b.frames[i].off, NEW f, IsGivenBack(b, c, n, f)
  PROVE  f[n] = NewStack
  <1> DEFINE S == {i \in 0..n : ~LeftOver(b, cap, n, f[i], i)}
  <1>1. S = {}
    <2> SUFFICES ASSUME S # {} PROVE FALSE
      OBVIOUS
    <2>0. S \in SUBSET Nat
      OBVIOUS
    <2>1. PICK k \in S : \A y \in S : k <= y
      <3> HIDE DEF S
      <3> QED BY <2>0, LeastNat
    <2>2. k \in 0..n /\ ~LeftOver(b, cap, n, f[k], k)
      BY <2>1
    <2>3. CASE k = 0
      <3>1. f[0] = b
        BY DEF IsGivenBack
      <3>2. n - 0 = n
        OBVIOUS
      <3>3. LeftOver(b, cap, n, b, 0)
        BY <3>2 DEF LeftOver
      <3> QED BY <2>2, <2>3, <3>1, <3>3
    <2>4. CASE k # 0
      <3>1. k - 1 \in 0..n /\ k \in 1..n /\ ~(k <= k - 1) /\ n + 1 - k \in 1..n
        BY <2>2, <2>4
      <3>2. k - 1 \notin S
        <4> HIDE DEF S
        <4> QED BY <2>1, <3>1
      <3>3. LeftOver(b, cap, n, f[k - 1], k - 1)
        BY <3>1, <3>2
      <3>4. f[k] = StackFree(f[k - 1], c[n + 1 - k].off)
        BY <2>2, <2>4 DEF IsGivenBack
      <3>5. c[n + 1 - k].off = b.frames[n + 1 - k].off
        BY <3>1
      <3>6. LeftOver(b, cap, n, StackFree(f[k - 1], c[n + 1 - k].off), k)
        BY <3>1, <3>3, <3>5, GiveBackStep
      <3> QED BY <2>2, <3>4, <3>6
    <2> QED BY <2>3, <2>4
  <1>2. LeftOver(b, cap, n, f[n], n)
    BY <1>1
  <1>3. StackOk(f[n], cap) /\ Len(f[n].frames) = 0
    BY <1>2 DEF LeftOver
  <1> QED BY <1>3, StackEmpty

LEMMA GivenBackAll ==
  ASSUME NEW B, B.scap \in Nat, NEW b, NEW c, BuiltOk(B, b, c)
  PROVE  FreeRegionsReverse(b, c) = NewStack
  <1>1. StackOk(b, B.scap) /\ Len(b.frames) = Len(c) /\ Regions(B, b, c)
    BY DEF BuiltOk
  <1>2. c \in Seq(Class) /\ \A i \in 1..Len(c) : c[i].off = b.frames[i].off
    BY <1>1 DEF Regions
  <1>3. PICK n \in Nat : n = Len(c)
    BY <1>2
  <1>4. PICK f : IsGivenBack(b, c, n, f) /\ FreeRegionsReverse(b, c) = f[n]
    BY <1>2, <1>3, GivenBackIs
  <1>5. f[n] = NewStack
    BY <1>1, <1>2, <1>3, <1>4, GivenBackValues
  <1> QED BY <1>4, <1>5

(* A class as it is built: nothing carved, nothing listed. *)
LEMMA FreshClass ==
  ASSUME NEW B, NEW cl \in Class, cl.head = 0, cl.next = 0, cl.events = 0, NEW m, NEW strays \in Nat
  PROVE  ClassOk(B, cl, m, {}, strays)
  <1>1. PICK fl : fl = [k \in Nat |-> 0]
    OBVIOUS
  <1>2. fl \in [Nat -> Nat] /\ 1..0 = {} /\ 1 \in Nat \ {0} /\ 0 \in Nat /\ 1 <= 0 + 1 /\ ~(1 <= 0)
    BY <1>1
  <1>3. cl.slots \in Nat
    BY DEF Class
  <1>4. ListOk(B.sbase, cl, m, fl, 1, 0, strays)
    BY <1>2, <1>3 DEF ListOk
  <1>5. (0 + 1 - 1) + Cardinality({}) = 0
    <2>1. Cardinality({}) = 0
      BY FS_EmptySet
    <2> QED BY <2>1
  <1>6. SlotsOk(B.sbase, cl, {}, fl, 1, 0, strays)
    BY <1>5 DEF SlotsOk
  <1> QED BY <1>2, <1>4, <1>6 DEF ClassOk

LEMMA BuiltStruct ==
  ASSUME NEW B \in Builds, NEW b, NEW c, BuiltOk(B, b, c),
         NEW m, m = [a \in Cells(B) |-> m[a]],
         NEW h, h.strays = 0, h.pignored = 0, h.bignored = 0
  PROVE  Struct(B, NewStack, b, c, m, {}, h) /\ Contents(m, {})
  <1>1. /\ B.pbase \in Nat /\ B.pcap \in Nat /\ B.sbase \in Nat /\ B.scap \in Nat /\ B.slots \in Nat
    BY RouterAssumption
  <1>2. BuildOk(B)
    BY <1>1, RouterAssumption DEF BuildOk
  <1>3. /\ StackOk(b, B.scap) /\ Len(b.frames) = Len(c) /\ Regions(B, b, c)
        /\ \A i \in 1..Len(c) : c[i].head = 0 /\ c[i].next = 0 /\ c[i].events = 0
    BY DEF BuiltOk
  <1>4. StackOk(NewStack, B.pcap) /\ Len(NewStack.frames) = 0
    BY <1>1, EmptyStack
  <1>5. Ground(B, NewStack, b, c)
    BY <1>2, <1>3, <1>4 DEF Ground
  <1>6. c \in Seq(Class) /\ Len(c) \in Nat
    BY <1>3 DEF Regions
  <1>7. BlocksOk({}) /\ Cardinality({}) = 0
    BY FS_EmptySet DEF BlocksOk
  <1>8. /\ OfHome({}, "primary") = {} /\ OfHome({}, "backing") = {} /\ OfHome({}, "class") = {}
        /\ \A i : OfClass({}, i) = {}
    BY DEF OfHome, OfClass
  <1>9. HistOk(h)
    BY DEF HistOk
  <1>10. StackBlocks(NewStack, B.pbase, 1, {}, h.pignored)
    BY <1>4, <1>7 DEF StackBlocks
  <1>11. StackBlocks(b, B.sbase, Len(c) + 1, {}, Len(c) + h.bignored)
    <2>1. 0 + (Len(c) + 0) = Len(c)
      BY <1>6
    <2> QED BY <1>3, <1>7, <2>1 DEF StackBlocks
  <1>12. ASSUME NEW i \in 1..Len(c) PROVE ClassOk(B, c[i], m, {}, h.strays)
    <2>1. c[i] \in Class /\ h.strays \in Nat
      BY <1>6
    <2> QED BY <1>3, <2>1, FreshClass
  <1>13. Struct(B, NewStack, b, c, m, {}, h)
    BY <1>5, <1>7, <1>8, <1>9, <1>10, <1>11, <1>12 DEF Struct
  <1> QED BY <1>13 DEF Contents

LEMMA ConstructInv ==
  ASSUME RouterInv, Construct
  PROVE  RouterInv'
  <1>1. /\ conf \in Builds /\ hist \in Hist /\ phase = "new" /\ primary = NewStack /\ backing = NewStack
        /\ mem = [a \in Cells(conf) |-> mem[a]] /\ live = {}
        /\ hist = [calls |-> 0, strays |-> 0, pignored |-> 0, bignored |-> 0]
    BY DEF RouterInv, Construct
  <1>2. PICK u : u = BuildClasses(conf.sbase, conf.scap, conf.sizes, conf.slots)
    OBVIOUS
  <1> DEFINE valid == conf.pcap > 0 /\ conf.scap > 0 /\ ValidClasses(conf.sizes, conf.slots)
             complete == Len(u.classes) = Len(conf.sizes) /\ Len(conf.sizes) <= MaxClasses
  <1>3. /\ phase' = IF valid /\ complete THEN "ready" ELSE "refused"
        /\ classes' = IF valid /\ complete THEN u.classes ELSE <<>>
        /\ backing' = IF ~valid THEN backing
                      ELSE IF complete THEN u.backing
                      ELSE FreeRegionsReverse(u.backing, u.classes)
    BY <1>2 DEF Construct
  <1>4. conf' = conf /\ primary' = primary /\ mem' = mem /\ live' = live /\ hist' = hist
    BY DEF Construct
  <1>5. ASSUME ValidClasses(conf.sizes, conf.slots) PROVE BuiltOk(conf, u.backing, u.classes)
    BY <1>1, <1>2, <1>5, BuildClassesOk
  <1>6. CASE valid /\ complete
    <2>1. phase' = "ready" /\ backing' = u.backing /\ classes' = u.classes
      BY <1>3, <1>6
    <2>2. BuiltOk(conf, u.backing, u.classes)
      BY <1>5, <1>6
    <2>3. hist.strays = 0 /\ hist.pignored = 0 /\ hist.bignored = 0
      BY <1>1
    <2>4. /\ Struct(conf, NewStack, u.backing, u.classes, mem, {}, hist)
          /\ Contents(mem, {})
      BY <1>1, <2>2, <2>3, BuiltStruct
    <2>5. Struct(conf, primary', backing', classes', mem', live', hist') /\ Contents(mem', live')
      BY <1>1, <1>4, <2>1, <2>4
    <2> QED BY <1>1, <1>4, <2>1, <2>5, ReadyNext
  <1>7. CASE ~(valid /\ complete)
    <2>1. phase' = "refused"
      BY <1>3, <1>7
    <2>2. backing' = NewStack
      <3>1. CASE valid
        <4>1. backing' = FreeRegionsReverse(u.backing, u.classes)
          BY <1>3, <1>7, <3>1
        <4>2. BuiltOk(conf, u.backing, u.classes) /\ conf.scap \in Nat
          BY <1>1, <1>5, <3>1, RouterAssumption
        <4> QED BY <4>1, <4>2, GivenBackAll
      <3>2. CASE ~valid
        BY <1>1, <1>3, <3>2
      <3> QED BY <3>1, <3>2
    <2> QED BY <1>1, <1>4, <2>1, <2>2 DEF RouterInv
  <1> QED BY <1>6, <1>7

LEMMA DropInv ==
  ASSUME RouterInv, Drop
  PROVE  RouterInv'
BY DEF RouterInv, Drop

LEMMA RouterInitInv ==
  ASSUME RouterInit
  PROVE  RouterInv
  <1>1. Addresses = Cells(conf)
    BY DEF Addresses, Cells
  <1>2. mem = [a \in Cells(conf) |-> mem[a]]
    BY <1>1 DEF RouterInit
  <1>3. hist \in Hist
    BY DEF RouterInit, Hist
  <1> QED BY <1>2, <1>3 DEF RouterInit, RouterInv

LEMMA RouterNextInv ==
  ASSUME RouterInv, [RouterNext]_routerVars
  PROVE  RouterInv'
  <1>1. CASE UNCHANGED routerVars
    BY <1>1 DEF RouterInv, routerVars, Now
  <1>2. CASE Construct
    BY <1>2, ConstructInv
  <1>3. CASE Drop
    BY <1>3, DropInv
  <1>4. ASSUME NEW l \in Layout, AllocateFails(l) PROVE RouterInv'
    BY <1>4, ReadyHolds, AllocateFailsInv DEF AllocateFails, MayCall
  <1>5. ASSUME NEW l \in Layout, NEW zeroed \in BOOLEAN, Allocate(l, zeroed) PROVE RouterInv'
    <2>1. Ready
      BY <1>5, ReadyHolds DEF Allocate, MayCall
    <2> QED BY <1>5, <2>1, AllocateInv
  <1>6. ASSUME NEW align \in Aligns, AllocateZeroSized(align) PROVE RouterInv'
    BY <1>6, ReadyHolds, AllocateZeroSizedInv DEF AllocateZeroSized, MayCall
  <1>7. ASSUME NEW i \in DOMAIN classes, StrayWrite(i) PROVE RouterInv'
    <2>1. Ready
      BY <1>7, ReadyHolds DEF StrayWrite
    <2> QED BY <1>7, <2>1, StrayWriteInv
  <1>8. ASSUME NEW block \in live, Deallocate(block) PROVE RouterInv'
    <2>1. Ready
      BY <1>8, ReadyHolds DEF Deallocate
    <2> QED BY <1>8, <2>1, DeallocateInv
  <1>9. ASSUME NEW block \in live, DeallocateZeroSized(block) PROVE RouterInv'
    <2>1. Ready
      BY <1>9, ReadyHolds DEF DeallocateZeroSized
    <2> QED BY <1>9, <2>1, DeallocateZeroSizedInv
  <1>10. ASSUME NEW block \in live, ShrinkToZero(block) PROVE RouterInv'
    <2>1. Ready
      BY <1>10, ReadyHolds DEF ShrinkToZero
    <2> QED BY <1>10, <2>1, ShrinkToZeroInv
  <1>11. ASSUME NEW block \in live, NEW l \in Layout, Resize(block, l) PROVE RouterInv'
    <2>1. Ready
      BY <1>11, ReadyHolds DEF Resize, MayCall
    <2> QED BY <1>11, <2>1, ResizeInv
  <1>12. ASSUME NEW block \in live, NEW l \in Layout, GrowFromZero(block, l) PROVE RouterInv'
    <2>1. Ready
      BY <1>12, ReadyHolds DEF GrowFromZero, MayCall
    <2> QED BY <1>12, <2>1, GrowFromZeroInv
  <1> QED BY <1>1, <1>2, <1>3, <1>4, <1>5, <1>6, <1>7, <1>8, <1>9, <1>10, <1>11, <1>12 DEF RouterNext

(* The invariant of the routed allocator: every block in use, by whichever *)
(* of the three allocators it was served and moved, has a frame or a slot  *)
(* of its own, and every free list leads through free slots only.          *)
THEOREM RouterInvariant == RouterSpec => []RouterInv
  <1>1. RouterInit => RouterInv
    BY RouterInitInv
  <1>2. RouterInv /\ [RouterNext]_routerVars => RouterInv'
    BY RouterNextInv
  <1> QED BY <1>1, <1>2, PTL DEF RouterSpec

-----------------------------------------------------------------------------
(* The three invariants the run checks. *)
LEMMA ContentsFromInv ==
  ASSUME RouterInv
  PROVE  ContentsKept
  <1>1. CASE phase = "ready"
    <2>1. Ready /\ BlocksOk(live) /\ Contents(mem, live)
      BY <1>1, ReadyHolds, MemCells DEF Ready
    <2>2. ASSUME NEW b \in live, b.size > 0 PROVE b.ptr % b.align = 0
      BY <2>1, <2>2 DEF BlocksOk, BlockOk
    <2>3. ASSUME NEW b \in live, b.size > 0, NEW a \in Span(b.ptr, b.known)
          PROVE  a \in DOMAIN mem /\ mem[a] = b.holds
      BY <2>1, <2>3 DEF Contents
    <2> QED BY <2>2, <2>3 DEF ContentsKept
  <1>2. CASE phase # "ready"
    <2>1. live = {}
      BY <1>2 DEF RouterInv
    <2> QED BY <2>1 DEF ContentsKept
  <1> QED BY <1>1, <1>2

LEMMA RoutedFromInv ==
  ASSUME RouterInv
  PROVE  RoutedHome
  <1> SUFFICES ASSUME phase = "ready", NEW b \in live, b.size > 0
               PROVE  /\ Route(classes, b.ptr) = b.home
                      /\ RouteDealloc(conf.sbase, classes, b.ptr) = b.class \/ b.home = "primary"
    BY DEF RoutedHome
  <1>1. Struct(conf, primary, backing, classes, mem, live, hist)
    BY ReadyHolds DEF Ready, Now
  <1>2. /\ Route(classes, b.ptr) = b.home
        /\ b.home # "primary" => RouteDealloc(conf.sbase, classes, b.ptr) = b.class
    BY <1>1, Routed
  <1> QED BY <1>2

LEMMA FramesFromStack ==
  ASSUME NEW st, NEW cap \in Nat, StackOk(st, cap), NEW at \in Nat, NEW first \in Nat \ {0},
         NEW X, NEW others, StackBlocks(st, at, first, X, others)
  PROVE  FramesMatch(st, at, X, others)
  <1>1. st \in Stack /\ Bound(st, 1) = 0
    BY DEF StackOk
  <1>2. /\ st.frames \in Seq(Frame) /\ Len(st.frames) \in Nat
        /\ \A k \in 1..Len(st.frames) : st.frames[k].off \in Nat
    BY <1>1, StackFields
  <1>3. Len(st.frames) = Cardinality(X) + others
    BY DEF StackBlocks
  <1>4. ASSUME NEW k \in 1..Len(st.frames)
        PROVE  LET end == IF k = Len(st.frames) THEN st.cursor ELSE st.frames[k + 1].prev
               IN /\ st.frames[k].prev <= st.frames[k].off /\ st.frames[k].off < end
                  /\ k = 1 => st.frames[k].prev = 0
    <2>1. st.frames[k].prev <= st.frames[k].off /\ st.frames[k].off < Bound(st, k + 1)
      BY DEF StackOk
    <2>2. Bound(st, k + 1) = IF k = Len(st.frames) THEN st.cursor ELSE st.frames[k + 1].prev
      BY <1>2 DEF Bound
    <2>3. ASSUME k = 1 PROVE st.frames[k].prev = 0
      BY <1>1, <1>2, <2>3 DEF Bound
    <2> QED BY <2>1, <2>2, <2>3
  <1>5. ASSUME NEW x \in X PROVE \E k \in 1..Len(st.frames) : st.frames[k].off = x.ptr - at
    <2>1. PICK k \in first..Len(st.frames) : InFrame(st, at, k, x.ptr, x.size)
      BY DEF StackBlocks
    <2>2. k \in 1..Len(st.frames)
      BY <1>2
    <2>3. PICK off \in Nat : off = st.frames[k].off
      BY <1>2, <2>2
    <2>4. x.ptr = at + off
      BY <2>1, <2>3 DEF InFrame
    <2>5. x.ptr - at = off
      BY <2>4
    <2> QED BY <2>2, <2>3, <2>5
  <1>6. ASSUME st.frames = <<>> PROVE st.cursor = 0
    BY <1>1, <1>6 DEF Bound
  <1> QED BY <1>3, <1>4, <1>5, <1>6 DEF FramesMatch

(* A class: what is listed is not in use, and all of it is counted. *)
LEMMA ClassAccounts ==
  ASSUME Now, NEW i \in DOMAIN classes
  PROVE  /\ \A x \in InClass(i) : \A q \in FreeSlots(classes[i]) :
              SlotAddr(conf.sbase, classes[i], q) # x.ptr
         /\ classes[i].events <= hist.strays
         /\ hist.strays = 0 =>
              Cardinality(FreeSlots(classes[i])) + Cardinality(InClass(i)) = classes[i].next
  <1>1. conf.sbase \in Nat /\ classes \in Seq(Class)
    BY StructFacts, GroundFacts DEF Now
  <1>2. i \in 1..Len(classes) /\ classes[i] \in Class
    BY <1>1
  <1>3. PICK at \in Nat, cl \in Class : at = conf.sbase /\ cl = classes[i]
    BY <1>1, <1>2
  <1>4. PICK X, strays : X = OfClass(live, i) /\ strays = hist.strays
    OBVIOUS
  <1>5. InClass(i) = X
    BY <1>4 DEF InClass, From, OfClass
  <1>6. PICK fl \in [Nat -> Nat], lo \in Nat, hi \in Nat :
          ListOk(at, cl, mem, fl, lo, hi, strays) /\ SlotsOk(at, cl, X, fl, lo, hi, strays)
    <2>1. ClassOk(conf, classes[i], mem, OfClass(live, i), hist.strays)
      BY <1>2, StructFacts DEF Now
    <2> QED BY <1>3, <1>4, <2>1 DEF ClassOk
  <1>7. FreeSlots(cl) = Listed(fl, lo, hi)
    BY <1>1, <1>3, <1>6, FreeSlotsListed
  <1>8. ASSUME NEW x \in X, NEW q \in Listed(fl, lo, hi) PROVE SlotAddr(at, cl, q) # x.ptr
    <2>1. PICK r \in 0..(cl.next - 1) : x.ptr = SlotAddr(at, cl, r) /\ \A k \in lo..hi : fl[k] # r
      BY <1>6 DEF SlotsOk
    <2>2. PICK k \in lo..hi : q = fl[k]
      BY DEF Listed
    <2>3. q # r /\ q \in Nat /\ r \in Nat
      <3>1. cl.next \in Nat /\ k \in Nat
        BY DEF Class
      <3> QED BY <2>1, <2>2, <3>1
    <2> QED BY <2>1, <2>3, SlotsDiffer
  <1>9. cl.events <= strays
    BY <1>6 DEF ListOk
  <1>10. ASSUME strays = 0 PROVE Cardinality(FreeSlots(cl)) + Cardinality(X) = cl.next
    <2>1. (hi + 1 - lo) + Cardinality(X) = cl.next
      BY <1>6, <1>10 DEF SlotsOk
    <2>2. Cardinality(Listed(fl, lo, hi)) = hi + 1 - lo
      <3>1. PICK m : m = mem
        OBVIOUS
      <3>2. ListOk(at, cl, m, fl, lo, hi, strays)
        BY <1>6, <3>1
      <3> QED BY <3>2, ListedCount
    <2> QED BY <1>7, <2>1, <2>2
  <1> QED BY <1>3, <1>4, <1>5, <1>7, <1>8, <1>9, <1>10

LEMMA NothingLostFromInv ==
  ASSUME RouterInv
  PROVE  NothingLost
  <1>1. ASSUME phase = "ready"
        PROVE  /\ FramesMatch(primary, conf.pbase, From("primary"), hist.pignored)
               /\ FramesMatch(backing, conf.sbase, From("backing"), Len(classes) + hist.bignored)
    <2>1. Struct(conf, primary, backing, classes, mem, live, hist)
      BY <1>1, ReadyHolds DEF Ready, Now
    <2>2. /\ conf.pbase \in Nat /\ conf.pcap \in Nat /\ conf.sbase \in Nat /\ conf.scap \in Nat
          /\ StackOk(primary, conf.pcap) /\ StackOk(backing, conf.scap) /\ Len(classes) \in Nat
      BY <2>1, StructFacts, GroundFacts
    <2>3. From("primary") = OfHome(live, "primary") /\ From("backing") = OfHome(live, "backing")
      BY DEF From, OfHome
    <2>4. /\ StackBlocks(primary, conf.pbase, 1, From("primary"), hist.pignored)
          /\ StackBlocks(backing, conf.sbase, Len(classes) + 1, From("backing"),
                         Len(classes) + hist.bignored)
      BY <2>1, <2>3, StructFacts
    <2>5. 1 \in Nat \ {0} /\ Len(classes) + 1 \in Nat \ {0}
      BY <2>2
    <2>6. FramesMatch(primary, conf.pbase, From("primary"), hist.pignored)
      BY <2>2, <2>4, <2>5, FramesFromStack
    <2>7. FramesMatch(backing, conf.sbase, From("backing"), Len(classes) + hist.bignored)
      <3>1. PICK first \in Nat \ {0} : first = Len(classes) + 1
        BY <2>5
      <3>2. StackBlocks(backing, conf.sbase, first, From("backing"), Len(classes) + hist.bignored)
        BY <2>4, <3>1
      <3> QED BY <2>2, <3>2, FramesFromStack
    <2> QED BY <2>6, <2>7
  <1>2. ASSUME phase = "ready", NEW i \in DOMAIN classes
        PROVE  /\ \A x \in InClass(i) : \A q \in FreeSlots(classes[i]) :
                    SlotAddr(conf.sbase, classes[i], q) # x.ptr
               /\ classes[i].events <= hist.strays
               /\ hist.strays = 0 =>
                    Cardinality(FreeSlots(classes[i])) + Cardinality(InClass(i)) = classes[i].next
    <2>1. Now
      BY <1>2, ReadyHolds DEF Ready
    <2> QED BY <2>1, ClassAccounts
  <1>3. phase = "refused" => backing = NewStack
    BY DEF RouterInv
  <1> QED BY <1>1, <1>2, <1>3 DEF NothingLost

(* Blocks of three allocators, moved between them and freed in any order,  *)
(* are aligned and keep their contents: no two of them overlap and no free *)
(* list is threaded through one in use.                                    *)
THEOREM RouterContents == RouterSpec => []ContentsKept
  <1>1. RouterInv => ContentsKept
    BY ContentsFromInv
  <1> QED BY <1>1, RouterInvariant, PTL

(* WithFallback::deallocate and SizeClassed::deallocate send every block,  *)
(* by its address alone, to the allocator and the class that served it.    *)
THEOREM RouterRoutes == RouterSpec => []RoutedHome
  <1>1. RouterInv => RoutedHome
    BY RoutedFromInv
  <1> QED BY <1>1, RouterInvariant, PTL

(* A stack loses no more than the frees it ignored, a class no more than   *)
(* an overwritten link cut off, a failed construction nothing.             *)
THEOREM RouterLosesNothing == RouterSpec => []NothingLost
  <1>1. RouterInv => NothingLost
    BY NothingLostFromInv
  <1> QED BY <1>1, RouterInvariant, PTL
=============================================================================
