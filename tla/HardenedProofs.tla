---------------------------- MODULE HardenedProofs ----------------------------
(***************************************************************************)
(* Proofs about Hardened, for every stack of wrappers in any order, every  *)
(* number of slots, every layout and every width of the counter.           *)
(***************************************************************************)
EXTENDS Hardened, FiniteSetTheorems, SequenceTheorems, WellFoundedInduction, TLAPS

AllSlots == 0..(Slots - 1)

Scrubs(st) == HasLayer(st, "poison") \/ HasLayer(st, "zeroize")

(* A block the stack st can serve in slot s. *)
Served(st, R, s, l, d) ==
  s \in AllSlots /\ l \in R /\ Room(st, l) /\ d \in Displacements(st, l)

(* The guard words of layers k and below are as they were written, or one  *)
(* was struck and the slot is known to be hit; a hit is still visible, and *)
(* no other cell looks like a canary.                                      *)
Guarded(st, m, hit, k, s, l, d) ==
  /\ \A i \in k..Len(st) : \A g \in GuardsOf(st, i, s, l, d) :
       m[g[1]] = g[2] \/ (m[g[1]] = Junk /\ s \in hit)
  /\ s \in hit => \E i \in k..Len(st) : \E g \in GuardsOf(st, i, s, l, d) : m[g[1]] = Junk
  /\ \A c \in SlotCells(s) :
       m[c] = Canary => \E i \in k..Len(st) : <<c, Canary>> \in GuardsOf(st, i, s, l, d)

(* The cells a caller may write. *)
DataSpan(st, s, l, d) == Span(PointersFor(st, s, l, d)[1], UsableOr(st, 1, l.size))

Secret(m, c) == m[c][1] = "data"

(* With a scrubbing layer, data is found nowhere else in the slot. *)
Confined(st, m, s, l, d) ==
  Scrubs(st) => \A c \in SlotCells(s) : Secret(m, c) => c \in DataSpan(st, s, l, d)

Clean(m, s) == \A c \in SlotCells(s) : ~Secret(m, c)

(* x is the block of slot s as layer k sees it. *)
Seen(st, x, k, s, l, d) ==
  /\ x.ptr = PointersFor(st, s, l, d)[k]
  /\ x.size = LayoutsFor(st, l)[k].size /\ x.align = LayoutsFor(st, l)[k].align

(* x is a block on its way down, about to be seen by layer k. *)
Returning(st, R, m, hit, x, k) ==
  \E s \in AllSlots, l \in R : \E d \in Displacements(st, l) :
    /\ Served(st, R, s, l, d) /\ Seen(st, x, k, s, l, d)
    /\ Guarded(st, m, hit, k, s, l, d) /\ Confined(st, m, s, l, d)

LayoutOf(b) == [size |-> b.size, align |-> b.align]

(* A block in use, with what its caller relies on. *)
Intact(st, R, m, hit, b) ==
  /\ Served(st, R, b.slot, LayoutOf(b), b.disp)
  /\ b.ptr = PointersFor(st, b.slot, LayoutOf(b), b.disp)[1]
  /\ b.known \in 0..b.size
  /\ Guarded(st, m, hit, 1, b.slot, LayoutOf(b), b.disp)
  /\ Confined(st, m, b.slot, LayoutOf(b), b.disp)
  /\ Scrubs(st) => \A c \in SlotCells(b.slot) : Secret(m, c) => m[c] = Data(b.id)
  /\ \A c \in Span(b.ptr, b.known) : m[c] = Data(b.id)
  /\ b.zeroed => \A c \in Span(b.ptr, b.size) : m[c] = Zero

ScrubAt(st) == CHOOSE i \in 1..Len(st) : st[i] \in {"poison", "zeroize"}

(* The block x waits for layer k; past the scrubbing layer it is clean. *)
Waits(st, R, m, hit, x, k) ==
  /\ Returning(st, R, m, hit, x, k)
  /\ Scrubs(st) /\ k > ScrubAt(st) => Clean(m, SlotOf(x.ptr))

(* A free slot: nothing of its last block is left to be found. *)
Blank(st, m, hit, s) ==
  /\ Scrubs(st) => Clean(m, s)
  /\ s \notin hit
  /\ \A c \in SlotCells(s) : m[c] # Canary

CallSlots == IF call.at = 0 THEN {} ELSE {SlotOf(call.ptr)}

Calls(depth, epochs) ==
  [at : 0..(depth + 1), ptr : Int, size : Int, align : Int, drain : -1..epochs]

Entry == [ptr : Int, size : Int, align : Int, born : Int]

Hists == [frees : Nat, strays : Nat, taken : Nat, hit : SUBSET AllSlots,
          delay : Int, dropped : BOOLEAN]

Shapes ==
  /\ conf \in Stacks
  /\ mem = [c \in Cells |-> mem[c]]
  /\ free \in Seq(AllSlots)
  /\ ring \in [0..(Epochs - 1) -> Entry]
  /\ count \in 0..(CountMod - 1)
  /\ call \in Calls(Depth, Epochs)
  /\ hist \in Hists

Parts(L, R, C, F, X) ==
  /\ L \cup R \cup C \cup F \cup X = AllSlots
  /\ L \cap R = {} /\ L \cap C = {} /\ L \cap F = {} /\ L \cap X = {}
  /\ R \cap C = {} /\ R \cap F = {} /\ R \cap X = {}
  /\ C \cap F = {} /\ C \cap X = {} /\ F \cap X = {}

(* Every slot is in one place: with a caller, in the ring, in the call in  *)
(* progress, free, or lost.                                                *)
OnePlace ==
  /\ Parts(LiveSlots, RingSlots, CallSlots, FreeSlots, lost)
  /\ \A b, c \in live : b.slot = c.slot => b = c
  /\ \A i, j \in Waiting : SlotOf(ring[i].ptr) = SlotOf(ring[j].ptr) => i = j
  /\ \A i, j \in DOMAIN free : free[i] = free[j] => i = j

(* What drop has done, and has still to do: the ring is empty below the    *)
(* index it has reached, and its calls start below Quarantine.             *)
Draining ==
  /\ call.at = 0 /\ call.drain = -1 => call = Idle
  /\ call.at > 0 /\ call.drain = -1 => ~hist.dropped
  /\ call = Idle /\ hist.dropped => Waiting = {}
  /\ call.drain >= 0 => /\ hist.dropped /\ HasLayer(stack, "quarantine")
                        /\ \A i \in Waiting : i >= call.drain
                        /\ call.at > 0 => call.at > LayerAt(stack, "quarantine")
  /\ Waiting # {} => HasLayer(stack, "quarantine")

LiveIntact == \A b \in live : Intact(stack, conf.requests, mem, hist.hit, b)

RingKept ==
  \A i \in Waiting :
    Waits(stack, conf.requests, mem, hist.hit, ring[i], LayerAt(stack, "quarantine"))

CallKept ==
  call.at > 0 => Waits(stack, conf.requests, mem, hist.hit, call, call.at)

FreeClean == \A i \in DOMAIN free : Blank(stack, mem, hist.hit, free[i])

(* A panic gave up only slots that were hit, unless drop gave up the rest  *)
(* of the ring with them.                                                  *)
LostHit ==
  /\ ~hist.dropped => lost \subseteq hist.hit
  /\ lost # {} => lost \cap hist.hit # {}

(* The entry at index i was put there at count p, in this turn of the      *)
(* counter or in the one before its wrap, and its age says so.             *)
Ages ==
  /\ \A i \in Waiting : \E p \in 0..(CountMod - 1) :
       /\ p % Epochs = i
       /\ LET age == hist.taken - ring[i].born
          IN \/ p < count /\ count <= p + Epochs /\ age = count - p
             \/ i >= count /\ CountMod <= p + Epochs /\ age = count + CountMod - p
  /\ LET short == CountMod % Epochs
     IN hist.delay \in (IF short = 0 THEN {Epochs} ELSE {Epochs, short, Epochs + short})

IndInv == /\ Shapes /\ OnePlace /\ Draining /\ LiveIntact /\ RingKept /\ CallKept
          /\ FreeClean /\ LostHit /\ Ages

-----------------------------------------------------------------------------
(* Numbers.                                                                *)

(* Every set of numbers has a least one: how facts about all layers of a   *)
(* stack are proved below, by looking at the first counterexample.         *)
LEMMA LeastNat ==
  ASSUME NEW S \in SUBSET Nat, S # {}
  PROVE  \E x \in S : \A y \in S : x <= y
  <1> DEFINE R == OpToRel(<, Nat)
  <1>1. PICK x \in S : \A y \in S : ~(<<y, x>> \in R)
    BY NatLessThanWellFounded, WFMin
  <1>2. \A y \in Nat : y < x => <<y, x>> \in R
    BY DEF OpToRel
  <1> HIDE DEF R
  <1>3. ASSUME NEW y \in S PROVE ~(y < x)
    BY <1>1, <1>2
  <1>4. \A y \in S : x <= y
    BY <1>3
  <1> QED BY <1>4

LEMMA Constants ==
  /\ Slots \in Nat /\ Slots > 0 /\ Stride \in Nat /\ Stride > 0
  /\ Line \in Nat /\ Line > 0 /\ Ways \in Nat /\ Ways > 0
BY WrapperAssumption

LEMMA TimesNat ==
  ASSUME NEW a \in Nat, NEW b \in Nat
  PROVE  a * b \in Nat
OBVIOUS

LEMMA TimesMonotone ==
  ASSUME NEW a \in Nat, NEW b \in Nat, NEW n \in Nat, a <= b
  PROVE  a * n <= b * n
OBVIOUS

LEMMA TimesSucc ==
  ASSUME NEW a \in Nat, NEW n \in Nat
  PROVE  (a + 1) * n = a * n + n
OBVIOUS

(* Quotient and remainder are determined by their equation. *)
LEMMA DivUnique ==
  ASSUME NEW a \in Nat, NEW q \in Nat, NEW r \in Nat, NEW n \in Nat,
         n > 0, r < n, a = q * n + r
  PROVE  a \div n = q /\ a % n = r
  <1> DEFINE k == a \div n
             m == a % n
  <1>1. k \in Nat /\ m \in Nat /\ m < n /\ a = k * n + m
    OBVIOUS
  <1> HIDE DEF k, m
  <1>2. ~(k < q)
    <2> SUFFICES ASSUME k < q PROVE FALSE
      OBVIOUS
    <2>1. (k + 1) * n <= q * n
      BY <1>1, TimesMonotone
    <2>2. (k + 1) * n = k * n + n
      BY <1>1, TimesSucc
    <2>3. k * n \in Nat /\ q * n \in Nat
      BY <1>1, TimesNat
    <2> QED BY <1>1, <2>1, <2>2, <2>3
  <1>3. ~(q < k)
    <2> SUFFICES ASSUME q < k PROVE FALSE
      OBVIOUS
    <2>1. (q + 1) * n <= k * n
      BY <1>1, TimesMonotone
    <2>2. (q + 1) * n = q * n + n
      BY <1>1, TimesSucc
    <2>3. k * n \in Nat /\ q * n \in Nat
      BY <1>1, TimesNat
    <2> QED BY <1>1, <2>1, <2>2, <2>3
  <1>4. k = q
    BY <1>1, <1>2, <1>3
  <1>5. k * n \in Nat
    BY <1>1, TimesNat
  <1>6. m = r
    BY <1>1, <1>4, <1>5
  <1> QED BY <1>4, <1>6 DEF k, m

LEMMA DivEquation ==
  ASSUME NEW a \in Nat, NEW n \in Nat, n > 0
  PROVE  \E q \in Nat, r \in Nat : r < n /\ a = q * n + r /\ a \div n = q /\ a % n = r
  <1>1. a \div n \in Nat /\ a % n \in Nat /\ a % n < n /\ a = (a \div n) * n + (a % n)
    OBVIOUS
  <1> QED BY <1>1

(* The cells of memory are those of the slots, each in one. *)
LEMMA CellsOfSlots ==
  /\ \A s \in AllSlots : \A c : c \in SlotCells(s) <=> c \in Cells /\ SlotOf(c) = s
  /\ \A c \in Cells : SlotOf(c) \in AllSlots
  <1>1. ASSUME NEW s \in AllSlots, NEW c \in SlotCells(s)
        PROVE  c \in Cells /\ SlotOf(c) = s
    <2>1. s \in Nat /\ s + 1 <= Slots
      BY Constants DEF AllSlots
    <2>2. s * Stride \in Nat /\ Slots * Stride \in Nat
      BY <2>1, TimesNat, Constants
    <2>3. s * Stride + Stride <= Slots * Stride
      <3>1. (s + 1) * Stride <= Slots * Stride
        BY <2>1, TimesMonotone, Constants
      <3>2. (s + 1) * Stride = s * Stride + Stride
        BY <2>1, TimesSucc, Constants
      <3> QED BY <3>1, <3>2
    <2> DEFINE base == s * Stride
               top == Slots * Stride
    <2>4. base \in Nat /\ top \in Nat /\ base + Stride <= top
      BY <2>2, <2>3
    <2>5. c \in base..(base + Stride - 1)
      BY DEF SlotCells, Span
    <2>6. ASSUME c \in 0..(top - 1) PROVE c \in Cells
      BY <2>6 DEF Cells
    <2> HIDE DEF base, top
    <2>7. /\ c \in Nat /\ c - base \in Nat /\ c - base < Stride
          /\ c <= top - 1 /\ c = base + (c - base)
      BY <2>4, <2>5, Constants
    <2>8. c \in Cells
      BY <2>4, <2>6, <2>7
    <2>9. PICK r \in Nat : r < Stride /\ c = base + r
      BY <2>7
    <2>10. c = s * Stride + r
      BY <2>9 DEF base
    <2>11. c \div Stride = s
      BY <2>1, <2>7, <2>9, <2>10, DivUnique, Constants
    <2> QED BY <2>8, <2>11 DEF SlotOf
  <1>2. ASSUME NEW c \in Cells
        PROVE  SlotOf(c) \in AllSlots /\ c \in SlotCells(SlotOf(c))
    <2>1. Slots * Stride \in Nat
      BY TimesNat, Constants
    <2>2. c \in Nat /\ c < Slots * Stride
      BY <2>1 DEF Cells
    <2>3. PICK q \in Nat, r \in Nat : r < Stride /\ c = q * Stride + r /\ c \div Stride = q
      BY <2>2, DivEquation, Constants
    <2>4. q * Stride \in Nat
      BY <2>3, TimesNat, Constants
    <2>5. q < Slots
      <3> SUFFICES ASSUME Slots <= q PROVE FALSE
        BY <2>3, Constants
      <3>1. Slots * Stride <= q * Stride
        BY TimesMonotone, Constants
      <3> QED BY <3>1, <2>1, <2>2, <2>3, <2>4
    <2>6. q \in AllSlots
      BY <2>5, Constants DEF AllSlots
    <2>7. c \in SlotCells(q)
      BY <2>3, <2>4, Constants DEF SlotCells, Span
    <2> QED BY <2>3, <2>6, <2>7 DEF SlotOf
  <1> QED BY <1>1, <1>2

-----------------------------------------------------------------------------
(* The stack: what each layer is asked for and what it returns.            *)

Lay == [size : Nat \ {0}, align : Nat \ {0}]

LEMMA LayoutsDefined ==
  ASSUME NEW st \in Seq(Layers), NEW l
  PROVE  /\ LayoutsFor(st, l) = [i \in 1..(Len(st) + 1) |-> LayoutsFor(st, l)[i]]
         /\ LayoutsFor(st, l)[1] = l
         /\ \A i \in 1..Len(st) :
              LayoutsFor(st, l)[i + 1] = InnerLayout(st[i], LayoutsFor(st, l)[i])
  <1> DEFINE Good(n, f) ==
               f = [i \in 1..(n + 1) |-> IF i = 1 THEN l ELSE InnerLayout(st[i - 1], f[i - 1])]
             S == {n \in Nat : ~ \E f : Good(n, f)}
  <1>1. S = {}
    <2> SUFFICES ASSUME S # {} PROVE FALSE
      OBVIOUS
    <2>1. PICK n \in S : \A y \in S : n <= y
      BY LeastNat
    <2>2. CASE n = 0
      <3> DEFINE f == [i \in 1..1 |-> l]
      <3>1. Good(0, f)
        OBVIOUS
      <3> QED BY <3>1, <2>1, <2>2
    <2>3. CASE n > 0
      <3>1. n \in Nat /\ n - 1 \in Nat /\ n - 1 \notin S
        <4>1. S \in SUBSET Nat
          OBVIOUS
        <4> HIDE DEF S
        <4> QED BY <4>1, <2>1, <2>3
      <3>2. PICK f : Good(n - 1, f)
        BY <3>1
      <3> DEFINE g == [i \in 1..(n + 1) |->
                        IF i = n + 1 THEN InnerLayout(st[n], f[n]) ELSE f[i]]
                 h == [i \in 1..(n + 1) |-> IF i = 1 THEN l ELSE InnerLayout(st[i - 1], g[i - 1])]
      <3>3. ASSUME NEW i \in 1..(n + 1) PROVE g[i] = h[i]
        <4>1. CASE i = n + 1
          BY <4>1, <3>1, <2>3
        <4>2. CASE i = 1
          BY <4>2, <3>1, <3>2, <2>3
        <4>3. CASE i # 1 /\ i # n + 1
          <5>1. i \in 1..n /\ i - 1 \in 1..n /\ i - 1 # n + 1 /\ i - 1 \in 1..(n + 1)
            BY <3>1, <4>3
          <5>2. f[i] = InnerLayout(st[i - 1], f[i - 1])
            BY <3>1, <3>2, <4>3, <5>1
          <5>3. g[i] = f[i] /\ g[i - 1] = f[i - 1]
            BY <4>3, <5>1
          <5> QED BY <5>1, <5>2, <5>3, <4>3
        <4> QED BY <4>1, <4>2, <4>3
      <3>4. g = h
        BY <3>3
      <3>5. Good(n, g)
        BY <3>4
      <3> QED BY <3>5, <2>1
    <2> QED BY <2>1, <2>2, <2>3
  <1>2. Len(st) \in Nat
    OBVIOUS
  <1>3. \E f : Good(Len(st), f)
    BY <1>1, <1>2
  <1>4. Good(Len(st), LayoutsFor(st, l))
    BY <1>3, Zenon DEF LayoutsFor
  <1> DEFINE f == LayoutsFor(st, l)
  <1> HIDE DEF f
  <1>5. f = [i \in 1..(Len(st) + 1) |-> IF i = 1 THEN l ELSE InnerLayout(st[i - 1], f[i - 1])]
    BY <1>4 DEF f
  <1>6. f = [i \in 1..(Len(st) + 1) |-> f[i]]
    BY <1>5
  <1>7. f[1] = l
    BY <1>2, <1>5
  <1>8. ASSUME NEW i \in 1..Len(st) PROVE f[i + 1] = InnerLayout(st[i], f[i])
    <2>1. i + 1 \in 1..(Len(st) + 1) /\ i + 1 # 1 /\ (i + 1) - 1 = i
      BY <1>2
    <2> QED BY <1>5, <2>1
  <1> QED BY <1>6, <1>7, <1>8 DEF f

LEMMA PointersDefined ==
  ASSUME NEW st \in Seq(Layers), NEW s, NEW l, NEW d
  PROVE  /\ PointersFor(st, s, l, d)[Len(st) + 1] = s * Stride
         /\ \A i \in 1..Len(st) :
              PointersFor(st, s, l, d)[i] =
                PointersFor(st, s, l, d)[i + 1] + Offset(st[i], LayoutsFor(st, l)[i], d)
  <1> DEFINE N == Len(st)
             Off(i) == Offset(st[i], LayoutsFor(st, l)[i], d)
             Good(n, f) ==
               f = [i \in (N + 1 - n)..(N + 1) |->
                     IF i = N + 1 THEN s * Stride ELSE f[i + 1] + Off(i)]
             S == {n \in Nat : ~ \E f : Good(n, f)}
  <1>0. N \in Nat
    OBVIOUS
  <1> HIDE DEF N, Off
  <1>1. S = {}
    <2> SUFFICES ASSUME S # {} PROVE FALSE
      OBVIOUS
    <2>1. PICK n \in S : \A y \in S : n <= y
      BY LeastNat
    <2>2. CASE n = 0
      <3> DEFINE f == [i \in (N + 1)..(N + 1) |-> s * Stride]
      <3>1. f = [i \in (N + 1 - 0)..(N + 1) |->
                  IF i = N + 1 THEN s * Stride ELSE f[i + 1] + Off(i)]
        BY <1>0
      <3> QED BY <3>1, <2>1, <2>2
    <2>3. CASE n > 0
      <3>1. n \in Nat /\ n - 1 \in Nat /\ n - 1 \notin S
        BY <2>1, <2>3
      <3>2. PICK f : Good(n - 1, f)
        BY <3>1
      <3> DEFINE k == N + 1 - n
                 g == [i \in k..(N + 1) |-> IF i = k THEN f[k + 1] + Off(k) ELSE f[i]]
                 h == [i \in k..(N + 1) |->
                        IF i = N + 1 THEN s * Stride ELSE g[i + 1] + Off(i)]
      <3>3. k \in Int /\ k < N + 1 /\ N + 1 - (n - 1) = k + 1
        BY <1>0, <3>1, <2>3
      <3>4. f = [i \in (k + 1)..(N + 1) |->
                  IF i = N + 1 THEN s * Stride ELSE f[i + 1] + Off(i)]
        BY <3>2, <3>3
      <3> HIDE DEF k
      <3>5. ASSUME NEW i \in k..(N + 1) PROVE g[i] = h[i]
        <4>1. CASE i = k
          <5>1. i # N + 1 /\ k + 1 \in k..(N + 1) /\ k + 1 # k
            BY <4>1, <3>3, <1>0
          <5>2. g[k + 1] = f[k + 1]
            BY <5>1
          <5> QED BY <4>1, <5>1, <5>2
        <4>2. CASE i = N + 1
          <5>1. i # k /\ i \in (k + 1)..(N + 1)
            BY <4>2, <3>3, <1>0
          <5>2. g[i] = f[i] /\ f[i] = s * Stride
            BY <3>4, <4>2, <5>1
          <5> QED BY <4>2, <5>2
        <4>3. CASE i # k /\ i # N + 1
          <5>1. i \in (k + 1)..(N + 1) /\ i + 1 \in k..(N + 1) /\ i + 1 # k
            BY <4>3, <3>3, <1>0
          <5>2. f[i] = f[i + 1] + Off(i)
            BY <3>4, <4>3, <5>1
          <5>3. g[i] = f[i] /\ g[i + 1] = f[i + 1]
            BY <4>3, <5>1
          <5> QED BY <5>1, <5>2, <5>3, <4>3
        <4> QED BY <4>1, <4>2, <4>3
      <3>6. g = h
        BY <3>5
      <3>7. Good(n, g)
        BY <3>6 DEF k
      <3> QED BY <3>7, <2>1
    <2> QED BY <2>1, <2>2, <2>3
  <1>2. \E f : Good(N, f)
    BY <1>0, <1>1
  <1>3. N + 1 - N = 1
    BY <1>0
  <1>4. PICK f : f = [i \in 1..(N + 1) |-> IF i = N + 1 THEN s * Stride ELSE f[i + 1] + Off(i)]
    BY <1>2, <1>3
  <1>5. \E g : g = [i \in 1..(Len(st) + 1) |->
                     IF i = Len(st) + 1 THEN s * Stride
                     ELSE g[i + 1] + Offset(st[i], LayoutsFor(st, l)[i], d)]
    BY <1>4, Zenon DEF N, Off
  <1>6. PointersFor(st, s, l, d) =
           [i \in 1..(Len(st) + 1) |->
              IF i = Len(st) + 1 THEN s * Stride
              ELSE PointersFor(st, s, l, d)[i + 1] + Offset(st[i], LayoutsFor(st, l)[i], d)]
    BY <1>5, Zenon DEF PointersFor
  <1> DEFINE p == PointersFor(st, s, l, d)
  <1> HIDE DEF p
  <1>7. p = [i \in 1..(N + 1) |-> IF i = N + 1 THEN s * Stride ELSE p[i + 1] + Off(i)]
    BY <1>6 DEF p, N, Off
  <1>8. p[N + 1] = s * Stride
    BY <1>0, <1>7
  <1>9. ASSUME NEW i \in 1..N PROVE p[i] = p[i + 1] + Off(i)
    BY <1>0, <1>7
  <1> QED BY <1>8, <1>9 DEF p, N, Off

(* One layer: the layout it passes on has room for what it adds. *)
LEMMA OneLayer ==
  ASSUME NEW layer \in Layers, NEW x \in Lay, NEW d \in Nat, d <= (Ways - 1) * Line
  PROVE  /\ InnerLayout(layer, x) \in Lay
         /\ Offset(layer, x, d) \in Nat
         /\ Offset(layer, x, d) + x.size <= InnerLayout(layer, x).size
         /\ layer = "canary" =>
              /\ Offset(layer, x, d) >= 1
              /\ Offset(layer, x, d) + x.size + 1 <= InnerLayout(layer, x).size
         /\ layer = "jitter" /\ Jittered(x) => Offset(layer, x, d) = Line + d
         /\ ~(layer = "canary" \/ (layer = "jitter" /\ Jittered(x))) =>
              InnerLayout(layer, x) = x /\ Offset(layer, x, d) = 0
  <1>1. x.size \in Nat /\ x.size > 0 /\ x.align \in Nat /\ x.align > 0
    BY DEF Lay
  <1>2. CASE layer = "canary"
    <2>1. InnerLayout(layer, x) =
            [size |-> PrePad(x.align) + x.size + 1, align |-> Bigger(1, x.align)]
      BY <1>2 DEF InnerLayout, CanaryLayout
    <2>2. Offset(layer, x, d) = PrePad(x.align)
      BY <1>2 DEF Offset
    <2>3. PrePad(x.align) \in Nat /\ PrePad(x.align) >= 1 /\ Bigger(1, x.align) \in Nat \ {0}
      BY <1>1 DEF PrePad, Bigger
    <2> QED BY <1>1, <1>2, <2>1, <2>2, <2>3 DEF Lay
  <1>3. CASE layer = "jitter" /\ Jittered(x)
    <2> DEFINE w == (Ways - 1) * Line
    <2>1. w \in Nat
      BY Constants, TimesNat
    <2>2. InnerLayout(layer, x) = [size |-> x.size + (Line + w), align |-> Line]
      BY <1>3 DEF InnerLayout, JitterLayout, JitterPrefix
    <2>3. Offset(layer, x, d) = Line + d
      BY <1>3 DEF Offset
    <2>4. d <= w
      OBVIOUS
    <2> HIDE DEF w
    <2> QED BY <1>1, <1>3, <2>1, <2>2, <2>3, <2>4, Constants DEF Lay
  <1>4. CASE ~(layer = "canary" \/ (layer = "jitter" /\ Jittered(x)))
    <2>1. InnerLayout(layer, x) = x
      BY <1>4 DEF InnerLayout, JitterLayout
    <2>2. Offset(layer, x, d) = 0
      BY <1>4 DEF Offset
    <2> QED BY <1>1, <1>4, <2>1, <2>2
  <1> QED BY <1>2, <1>3, <1>4

LEMMA LayoutsTyped ==
  ASSUME NEW st \in Seq(Layers), NEW l \in Lay
  PROVE  \A i \in 1..(Len(st) + 1) : LayoutsFor(st, l)[i] \in Lay
  <1> DEFINE f == LayoutsFor(st, l)
             N == Len(st)
             S == {i \in 1..(N + 1) : f[i] \notin Lay}
  <1>1. f[1] = l /\ \A i \in 1..N : f[i + 1] = InnerLayout(st[i], f[i])
    BY LayoutsDefined
  <1>2. N \in Nat /\ \A i \in 1..N : st[i] \in Layers
    OBVIOUS
  <1> HIDE DEF f, N
  <1> SUFFICES ASSUME S # {} PROVE FALSE
    BY DEF f, N
  <1>3. PICK n \in S : \A y \in S : n <= y
    <2>1. S \in SUBSET Nat
      BY <1>2
    <2> HIDE DEF S
    <2> QED BY <2>1, LeastNat
  <1>4. n # 1
    BY <1>1, <1>3
  <1>5. n - 1 \in 1..N /\ n - 1 \in 1..(N + 1) /\ (n - 1) + 1 = n /\ n - 1 \notin S
    BY <1>2, <1>3, <1>4
  <1>6. f[n - 1] \in Lay
    BY <1>5
  <1>7. f[n] = InnerLayout(st[n - 1], f[n - 1])
    BY <1>1, <1>5
  <1>8. 0 \in Nat /\ 0 <= (Ways - 1) * Line
    BY Constants, TimesNat
  <1>9. f[n] \in Lay
    BY <1>2, <1>5, <1>6, <1>7, <1>8, OneLayer
  <1> QED BY <1>3, <1>9

LEMMA DisplacementBounded ==
  ASSUME NEW st, NEW l, NEW d \in Displacements(st, l)
  PROVE  d \in Nat /\ d <= (Ways - 1) * Line /\ \E k \in Nat : d = k * Line
  <1>1. (Ways - 1) \in Nat /\ (Ways - 1) * Line \in Nat /\ 0 * Line = 0
    BY Constants, TimesNat
  <1>2. CASE d = 0
    BY <1>1, <1>2
  <1>3. CASE \E k \in 0..(Ways - 1) : d = k * Line
    <2>1. PICK k \in 0..(Ways - 1) : d = k * Line
      BY <1>3
    <2>2. k \in Nat /\ k <= Ways - 1
      BY Constants
    <2> QED BY <1>1, <2>1, <2>2, TimesNat, TimesMonotone, Constants
  <1> QED BY <1>2, <1>3 DEF Displacements

(* Layer i of a block: what it returns begins where the next layer's       *)
(* pointer and its own offset say, and lies inside what that layer gave it;*)
(* Canary and CacheJitter leave room for their words, the others pass the  *)
(* block on as it is.                                                      *)
Marks(st, l, i) ==
  st[i] = "canary" \/ (st[i] = "jitter" /\ Jittered(LayoutsFor(st, l)[i]))

LayerStep(st, s, l, d, i) ==
  LET p == PointersFor(st, s, l, d)
      y == LayoutsFor(st, l)
      o == Offset(st[i], y[i], d)
  IN /\ p[i] = p[i + 1] + o /\ o \in Nat
     /\ y[i] \in Lay /\ y[i + 1] \in Lay
     /\ y[i + 1] = InnerLayout(st[i], y[i])
     /\ o + y[i].size <= y[i + 1].size
     /\ st[i] = "canary" => o >= 1 /\ o + y[i].size + 1 <= y[i + 1].size
     /\ st[i] = "jitter" /\ Jittered(y[i]) => o = Line + d
     /\ ~Marks(st, l, i) => y[i + 1] = y[i] /\ o = 0

LEMMA LayerSteps ==
  ASSUME NEW st \in Seq(Layers), NEW R \in SUBSET Lay, NEW s, NEW l, NEW d,
         Served(st, R, s, l, d)
  PROVE  \A i \in 1..Len(st) : LayerStep(st, s, l, d, i)
  <1> SUFFICES ASSUME NEW i \in 1..Len(st) PROVE LayerStep(st, s, l, d, i)
    OBVIOUS
  <1> DEFINE p == PointersFor(st, s, l, d)
             y == LayoutsFor(st, l)
  <1>1. l \in Lay /\ d \in Displacements(st, l)
    BY DEF Served
  <1>2. d \in Nat /\ d <= (Ways - 1) * Line
    BY <1>1, DisplacementBounded
  <1>3. i + 1 \in 1..(Len(st) + 1) /\ i \in 1..(Len(st) + 1) /\ st[i] \in Layers
    OBVIOUS
  <1>4. y[i] \in Lay /\ y[i + 1] \in Lay
    BY <1>1, <1>3, LayoutsTyped
  <1>5. y[i + 1] = InnerLayout(st[i], y[i])
    BY LayoutsDefined
  <1>6. p[i] = p[i + 1] + Offset(st[i], y[i], d)
    BY PointersDefined
  <1>7. PICK layer \in Layers, x \in Lay, z \in Lay :
          layer = st[i] /\ x = y[i] /\ z = y[i + 1] /\ z = InnerLayout(layer, x)
    BY <1>3, <1>4, <1>5
  <1>8. /\ Offset(layer, x, d) \in Nat
        /\ Offset(layer, x, d) + x.size <= z.size
        /\ layer = "canary" =>
             /\ Offset(layer, x, d) >= 1
             /\ Offset(layer, x, d) + x.size + 1 <= z.size
        /\ layer = "jitter" /\ Jittered(x) => Offset(layer, x, d) = Line + d
        /\ ~(layer = "canary" \/ (layer = "jitter" /\ Jittered(x))) =>
             z = x /\ Offset(layer, x, d) = 0
    BY <1>2, <1>7, OneLayer
  <1> QED BY <1>4, <1>5, <1>6, <1>7, <1>8, Zenon DEF LayerStep, Marks

LEMMA PointersTyped ==
  ASSUME NEW st \in Seq(Layers), NEW R \in SUBSET Lay, NEW s, NEW l, NEW d,
         Served(st, R, s, l, d)
  PROVE  \A i \in 1..(Len(st) + 1) : PointersFor(st, s, l, d)[i] \in Nat
  <1> DEFINE N == Len(st)
             p == PointersFor(st, s, l, d)
             S == {n \in 0..N : p[N + 1 - n] \notin Nat}
  <1>1. N \in Nat
    OBVIOUS
  <1>2. p[N + 1] \in Nat
    BY PointersDefined, TimesNat, Constants DEF Served, AllSlots
  <1>3. ASSUME NEW i \in 1..N, p[i + 1] \in Nat PROVE p[i] \in Nat
    <2> DEFINE o == Offset(st[i], LayoutsFor(st, l)[i], d)
    <2>1. LayerStep(st, s, l, d, i)
      BY LayerSteps
    <2>2. p[i] = p[i + 1] + o /\ o \in Nat
      BY <2>1, Zenon DEF LayerStep
    <2> HIDE DEF p, o
    <2> QED BY <1>3, <2>2
  <1> HIDE DEF N, p
  <1>4. S = {}
    <2> SUFFICES ASSUME S # {} PROVE FALSE
      OBVIOUS
    <2>1. S \in SUBSET Nat
      BY <1>1
    <2>2. PICK n \in S : \A k \in S : n <= k
      <3> HIDE DEF S
      <3> QED BY <2>1, LeastNat
    <2>3. n # 0
      BY <1>1, <1>2, <2>2
    <2>4. n \in 0..N /\ n - 1 \in 0..N /\ n - 1 \notin S /\ N + 1 - (n - 1) = (N + 1 - n) + 1
      BY <1>1, <2>2, <2>3
    <2>5. p[(N + 1 - n) + 1] \in Nat
      BY <2>4
    <2>6. N + 1 - n \in 1..N
      BY <1>1, <2>3, <2>4
    <2> QED BY <1>3, <2>2, <2>5, <2>6
  <1>5. ASSUME NEW i \in 1..(N + 1) PROVE p[i] \in Nat
    <2>1. N + 1 - i \in 0..N /\ N + 1 - (N + 1 - i) = i
      BY <1>1
    <2> QED BY <1>4, <2>1
  <1> QED BY <1>5 DEF N, p

LEMMA Ascending ==
  ASSUME NEW N \in Nat, NEW e, \A i \in 1..(N + 1) : e[i] \in Nat,
         \A i \in 1..N : e[i] <= e[i + 1]
  PROVE  \A i, j \in 1..(N + 1) : i <= j => e[i] <= e[j]
  <1> SUFFICES ASSUME NEW i \in 1..(N + 1),
                      ~ \A j \in 1..(N + 1) : i <= j => e[i] <= e[j]
               PROVE  FALSE
    OBVIOUS
  <1> DEFINE S == {j \in 1..(N + 1) : i <= j /\ ~(e[i] <= e[j])}
  <1>1. S \in SUBSET Nat /\ S # {}
    OBVIOUS
  <1>2. PICK j \in S : \A k \in S : j <= k
    <2> HIDE DEF S
    <2> QED BY <1>1, LeastNat
  <1>3. j \in 1..(N + 1) /\ i <= j /\ ~(e[i] <= e[j])
    BY <1>2
  <1>4. j - 1 \notin S
    <2>1. j \in Nat /\ ~(j <= j - 1)
      BY <1>3
    <2> HIDE DEF S
    <2> QED BY <1>2, <2>1
  <1>5. i < j
    BY <1>3
  <1>6. j - 1 \in 1..(N + 1) /\ i <= j - 1 /\ j - 1 \in 1..N /\ (j - 1) + 1 = j
    BY <1>3, <1>5
  <1>7. e[i] <= e[j - 1] /\ e[j - 1] <= e[j]
    BY <1>4, <1>6
  <1> QED BY <1>3, <1>6, <1>7

LEMMA Nested ==
  ASSUME NEW st \in Seq(Layers), NEW R \in SUBSET Lay, NEW s, NEW l, NEW d,
         Served(st, R, s, l, d)
  PROVE  LET p == PointersFor(st, s, l, d)
             y == LayoutsFor(st, l)
         IN \A i, j \in 1..(Len(st) + 1) :
              i <= j => p[j] <= p[i] /\ p[i] + y[i].size <= p[j] + y[j].size
  <1> DEFINE N == Len(st)
             p == PointersFor(st, s, l, d)
             y == LayoutsFor(st, l)
             e == [i \in 1..(N + 1) |-> p[i] + y[i].size]
  <1>1. N \in Nat
    OBVIOUS
  <1>2. \A i \in 1..(N + 1) : p[i] \in Nat
    BY PointersTyped
  <1>3. \A i \in 1..(N + 1) : y[i] \in Lay
    BY LayoutsTyped DEF Served
  <1>4. \A i \in 1..(N + 1) : y[i].size \in Nat
    BY <1>3 DEF Lay
  <1>5. ASSUME NEW i \in 1..N
        PROVE  p[i + 1] <= p[i] /\ p[i] + y[i].size <= p[i + 1] + y[i + 1].size
    <2>1. i \in 1..(N + 1) /\ i + 1 \in 1..(N + 1)
      BY <1>1
    <2>2. LayerStep(st, s, l, d, i)
      BY LayerSteps
    <2>3. PICK o \in Nat : p[i] = p[i + 1] + o /\ o + y[i].size <= y[i + 1].size
      BY <2>2, Zenon DEF LayerStep
    <2>4. PICK a \in Nat, a1 \in Nat, n \in Nat, n1 \in Nat :
            a = p[i] /\ a1 = p[i + 1] /\ n = y[i].size /\ n1 = y[i + 1].size
      BY <1>2, <1>4, <2>1
    <2>5. a = a1 + o /\ o + n <= n1
      BY <2>3, <2>4
    <2>6. a1 <= a /\ a + n <= a1 + n1
      BY <2>5
    <2> QED BY <2>4, <2>6
  <1> HIDE DEF N, p, y
  <1>6. \A i \in 1..(N + 1) : e[i] \in Nat
    BY <1>2, <1>4
  <1>7. \A i \in 1..N : e[i] <= e[i + 1]
    BY <1>1, <1>5
  <1>8. \A i, j \in 1..(N + 1) : i <= j => e[i] <= e[j]
    <2> HIDE DEF e
    <2> QED BY <1>1, <1>6, <1>7, Ascending
  <1>9. \A i, j \in 1..(N + 1) : i <= j => p[j] <= p[i]
    <2> DEFINE f == [i \in 1..(N + 1) |-> p[(N + 2) - i]]
    <2>1. \A i \in 1..(N + 1) : f[i] \in Nat
      BY <1>1, <1>2
    <2>2. ASSUME NEW i \in 1..N PROVE f[i] <= f[i + 1]
      <3>1. (N + 2) - (i + 1) \in 1..N /\ ((N + 2) - (i + 1)) + 1 = (N + 2) - i
        BY <1>1
      <3>2. p[(N + 2) - i] <= p[(N + 2) - (i + 1)]
        BY <1>5, <3>1
      <3> QED BY <1>1, <3>2
    <2>3. \A i, j \in 1..(N + 1) : i <= j => f[i] <= f[j]
      <3> HIDE DEF f
      <3> QED BY <1>1, <2>1, <2>2, Ascending
    <2>4. ASSUME NEW i \in 1..(N + 1), NEW j \in 1..(N + 1), i <= j PROVE p[j] <= p[i]
      <3>1. /\ (N + 2) - j \in 1..(N + 1) /\ (N + 2) - i \in 1..(N + 1)
            /\ (N + 2) - j <= (N + 2) - i
            /\ (N + 2) - ((N + 2) - j) = j /\ (N + 2) - ((N + 2) - i) = i
        BY <1>1, <2>4
      <3>2. f[(N + 2) - j] <= f[(N + 2) - i]
        BY <2>3, <3>1
      <3> QED BY <3>1, <3>2
    <2> QED BY <2>4
  <1>10. ASSUME NEW i \in 1..(N + 1), NEW j \in 1..(N + 1), i <= j
         PROVE  p[j] <= p[i] /\ p[i] + y[i].size <= p[j] + y[j].size
    <2>1. e[i] <= e[j]
      BY <1>8, <1>10
    <2> QED BY <1>9, <1>10, <2>1
  <1> QED BY <1>10 DEF N, p, y

(* Every layer sees a part of the block's slot. *)
LEMMA InSlot ==
  ASSUME NEW st \in Seq(Layers), NEW R \in SUBSET Lay, NEW s, NEW l, NEW d,
         Served(st, R, s, l, d), NEW i \in 1..(Len(st) + 1)
  PROVE  LET p == PointersFor(st, s, l, d)[i]
             n == LayoutsFor(st, l)[i].size
         IN /\ p \in Nat /\ n \in Nat /\ n > 0 /\ s * Stride \in Nat
            /\ s * Stride <= p /\ p + n <= s * Stride + Stride
            /\ i = Len(st) + 1 => p = s * Stride
            /\ p \in SlotCells(s) /\ SlotOf(p) = s
  <1> DEFINE N == Len(st)
             p == PointersFor(st, s, l, d)
             y == LayoutsFor(st, l)
             b == s * Stride
  <1>1. N \in Nat /\ N + 1 \in 1..(N + 1) /\ i <= N + 1
    OBVIOUS
  <1>2. p[i] \in Nat /\ p[N + 1] = b /\ b \in Nat
    <2>1. p[i] \in Nat /\ p[N + 1] \in Nat
      BY <1>1, PointersTyped
    <2>2. p[N + 1] = b
      BY PointersDefined
    <2> QED BY <2>1, <2>2
  <1>3. y[i] \in Lay /\ y[N + 1] \in Lay
    BY <1>1, LayoutsTyped DEF Served
  <1>4. y[i].size \in Nat /\ y[i].size > 0 /\ y[N + 1].size \in Nat
    BY <1>3 DEF Lay
  <1>5. p[N + 1] <= p[i] /\ p[i] + y[i].size <= p[N + 1] + y[N + 1].size
    BY <1>1, Nested
  <1>6. y[N + 1].size <= Stride
    BY DEF Served, Room
  <1>7. \A c : c \in SlotCells(s) <=> c \in b..(b + Stride - 1)
    BY DEF SlotCells, Span
  <1> HIDE DEF N, p, y, b
  <1>8. b <= p[i] /\ p[i] + y[i].size <= b + Stride
    BY <1>2, <1>4, <1>5, <1>6, Constants
  <1>9. p[i] \in b..(b + Stride - 1)
    BY <1>2, <1>4, <1>8, Constants
  <1>10. p[i] \in SlotCells(s)
    BY <1>7, <1>9
  <1>11. SlotOf(p[i]) = s
    BY <1>10, CellsOfSlots DEF Served
  <1>12. i = N + 1 => p[i] = b
    BY <1>2
  <1> QED BY <1>2, <1>4, <1>8, <1>10, <1>11, <1>12 DEF N, p, y, b

(* Multiples, the form in which alignment is carried up the stack. *)
Multiple(a, n) == \E q \in Nat : a = q * n

LEMMA MultipleMod ==
  ASSUME NEW a \in Nat, NEW n \in Nat, n > 0
  PROVE  Multiple(a, n) <=> a % n = 0
  <1>1. ASSUME Multiple(a, n) PROVE a % n = 0
    <2>1. PICK q \in Nat : a = q * n
      BY <1>1 DEF Multiple
    <2>2. a = q * n + 0
      BY <2>1
    <2>3. 0 \in Nat /\ 0 < n
      OBVIOUS
    <2> QED BY <2>2, <2>3, DivUnique
  <1>2. ASSUME a % n = 0 PROVE Multiple(a, n)
    <2>1. PICK q \in Nat, m \in Nat : a = q * n + m /\ a % n = m
      BY DivEquation
    <2>2. q * n \in Nat
      BY TimesNat
    <2>3. a = q * n
      BY <1>2, <2>1, <2>2
    <2> QED BY <2>3 DEF Multiple
  <1> QED BY <1>1, <1>2

LEMMA SumMultiple ==
  ASSUME NEW a, NEW b, NEW n \in Nat, Multiple(a, n), Multiple(b, n)
  PROVE  Multiple(a + b, n)
  <1>1. PICK q \in Nat : a = q * n
    BY DEF Multiple
  <1>2. PICK r \in Nat : b = r * n
    BY DEF Multiple
  <1>3. a + b = (q + r) * n /\ q + r \in Nat
    BY <1>1, <1>2
  <1> QED BY <1>3 DEF Multiple

LEMMA TimesMultiple ==
  ASSUME NEW a, NEW k \in Nat, NEW n \in Nat, Multiple(a, n)
  PROVE  Multiple(k * a, n)
  <1>1. PICK q \in Nat : a = q * n
    BY DEF Multiple
  <1>2. k * a = (k * q) * n
    BY <1>1
  <1>3. k * q \in Nat
    BY TimesNat
  <1> QED BY <1>2, <1>3 DEF Multiple

LEMMA MultipleOfMultiple ==
  ASSUME NEW a, NEW k \in Nat, NEW n \in Nat, Multiple(a, k), Multiple(k, n)
  PROVE  Multiple(a, n)
  <1>1. PICK q \in Nat : a = q * k
    BY DEF Multiple
  <1>2. Multiple(q * k, n)
    BY TimesMultiple
  <1> QED BY <1>1, <1>2

LEMMA SelfMultiple ==
  ASSUME NEW n \in Nat
  PROVE  Multiple(n, n)
  <1>1. n = 1 * n
    OBVIOUS
  <1> QED BY <1>1 DEF Multiple

(* The requests of a stack: sizes, and alignments that divide the line and *)
(* the stride unless they exceed them.                                     *)
Divides(a) == \A n \in {Line, Stride} : a <= n => Multiple(n, a)

Requests(R) == R \in SUBSET Lay /\ \A l \in R : Divides(l.align)

LEMMA LineDivides == Divides(Line)
  <1>1. Multiple(Line, Line)
    BY SelfMultiple, Constants
  <1>2. Line <= Stride => Multiple(Stride, Line)
    BY MultipleMod, Constants, WrapperAssumption
  <1> QED BY <1>1, <1>2 DEF Divides

LEMMA AlignmentsDivide ==
  ASSUME NEW st \in Seq(Layers), NEW R, Requests(R), NEW s, NEW l, NEW d,
         Served(st, R, s, l, d)
  PROVE  \A i \in 1..(Len(st) + 1) : Divides(LayoutsFor(st, l)[i].align)
  <1> DEFINE N == Len(st)
             y == LayoutsFor(st, l)
             S == {i \in 1..(N + 1) : ~Divides(y[i].align)}
  <1>1. N \in Nat /\ R \in SUBSET Lay
    BY DEF Requests
  <1>2. y[1] = l /\ Divides(l.align)
    BY LayoutsDefined DEF Served, Requests
  <1>3. ASSUME NEW i \in 1..N
        PROVE  y[i + 1].align = y[i].align \/ y[i + 1].align = Line
    <2>1. LayerStep(st, s, l, d, i)
      BY <1>1, LayerSteps
    <2>2. y[i] \in Lay /\ y[i + 1] = InnerLayout(st[i], y[i])
      BY <2>1, Zenon DEF LayerStep
    <2>3. y[i].align \in Nat /\ y[i].align > 0
      BY <2>2 DEF Lay
    <2> HIDE DEF y
    <2>4. CASE st[i] = "canary"
      <3>1. y[i + 1].align = Bigger(1, y[i].align)
        BY <2>2, <2>4 DEF InnerLayout, CanaryLayout
      <3> QED BY <2>3, <3>1 DEF Bigger
    <2>5. CASE st[i] = "jitter"
      BY <2>2, <2>5 DEF InnerLayout, JitterLayout
    <2>6. CASE st[i] # "canary" /\ st[i] # "jitter"
      BY <2>2, <2>6 DEF InnerLayout
    <2> QED BY <2>4, <2>5, <2>6
  <1> HIDE DEF y, N
  <1> SUFFICES ASSUME S # {} PROVE FALSE
    BY DEF y, N
  <1>4. PICK n \in S : \A k \in S : n <= k
    <2>1. S \in SUBSET Nat
      BY <1>1
    <2> HIDE DEF S
    <2> QED BY <2>1, LeastNat
  <1>5. n # 1
    BY <1>2, <1>4
  <1>6. n - 1 \in 1..N /\ n - 1 \in 1..(N + 1) /\ (n - 1) + 1 = n /\ n - 1 \notin S
    BY <1>1, <1>4, <1>5
  <1>7. Divides(y[n - 1].align)
    BY <1>6
  <1>8. y[n].align = y[n - 1].align \/ y[n].align = Line
    BY <1>3, <1>6
  <1> QED BY <1>4, <1>7, <1>8, LineDivides

(* Every pointer is aligned as the layout of its layer asks. *)
LEMMA PointersAligned ==
  ASSUME NEW st \in Seq(Layers), NEW R, Requests(R), NEW s, NEW l, NEW d,
         Served(st, R, s, l, d)
  PROVE  \A i \in 1..(Len(st) + 1) :
           Multiple(PointersFor(st, s, l, d)[i], LayoutsFor(st, l)[i].align)
  <1> DEFINE N == Len(st)
             p == PointersFor(st, s, l, d)
             y == LayoutsFor(st, l)
             S == {n \in 0..N : ~Multiple(p[N + 1 - n], y[N + 1 - n].align)}
  <1>1. N \in Nat /\ R \in SUBSET Lay
    BY DEF Requests
  <1>2. \A i \in 1..(N + 1) : p[i] \in Nat
    BY <1>1, PointersTyped
  <1>3. \A i \in 1..(N + 1) : y[i] \in Lay
    BY <1>1, LayoutsTyped DEF Served
  <1>4. \A i \in 1..(N + 1) : y[i].align \in Nat /\ y[i].align > 0
    BY <1>3 DEF Lay
  <1>5. \A i \in 1..(N + 1) : Divides(y[i].align)
    BY AlignmentsDivide
  <1>6. Multiple(p[N + 1], y[N + 1].align)
    <2>1. p[N + 1] = s * Stride
      BY PointersDefined
    <2>2. s \in Nat
      BY DEF Served, AllSlots
    <2>3. N + 1 \in 1..(N + 1)
      BY <1>1
    <2>4. y[N + 1].align <= Stride
      BY DEF Served, Room
    <2>5. PICK a \in Nat : a = y[N + 1].align /\ a > 0
      BY <1>4, <2>3
    <2>6. Multiple(Stride, a)
      <3>1. Divides(a)
        BY <1>5, <2>3, <2>5
      <3> HIDE DEF y, N
      <3> QED BY <2>4, <2>5, <3>1 DEF Divides
    <2>7. Multiple(s * Stride, a)
      BY <2>2, <2>5, <2>6, TimesMultiple, Constants
    <2> QED BY <2>1, <2>5, <2>7
  <1>7. ASSUME NEW i \in 1..N, Multiple(p[i + 1], y[i + 1].align)
        PROVE  Multiple(p[i], y[i].align)
    <2>1. i \in 1..(N + 1) /\ i + 1 \in 1..(N + 1)
      BY <1>1
    <2>2. LayerStep(st, s, l, d, i)
      BY <1>1, LayerSteps
    <2> DEFINE o == Offset(st[i], y[i], d)
    <2>3. PICK a \in Nat, a1 \in Nat, q \in Nat, q1 \in Nat, x \in Lay, x1 \in Lay :
            /\ q = p[i] /\ q1 = p[i + 1] /\ x = y[i] /\ x1 = y[i + 1]
            /\ a = x.align /\ a > 0 /\ a1 = x1.align /\ a1 > 0
      BY <1>2, <1>3, <1>4, <2>1
    <2>4. /\ q = q1 + o /\ o \in Nat /\ Multiple(q1, a1)
          /\ st[i] = "jitter" /\ Jittered(x) => o = Line + d
          /\ ~Marks(st, l, i) => x1 = x /\ o = 0
          /\ x1 = InnerLayout(st[i], x)
          /\ Marks(st, l, i) <=> st[i] = "canary" \/ (st[i] = "jitter" /\ Jittered(x))
      BY <1>7, <2>2, <2>3, Zenon DEF LayerStep, Marks
    <2>5. st[i] = "canary" => o = PrePad(a)
      BY <2>3 DEF Offset
    <2> HIDE DEF o, p, y, N
    <2>6. CASE ~Marks(st, l, i)
      <3>1. x1 = x /\ o = 0
        BY <2>4, <2>6
      <3>2. q = q1 /\ a = a1
        BY <2>3, <2>4, <3>1
      <3> QED BY <2>3, <2>4, <3>2
    <2>7. CASE st[i] = "canary"
      <3>1. PrePad(a) = a
        BY <2>3 DEF PrePad, Bigger
      <3>2. a1 = a
        BY <2>3, <2>4, <2>7 DEF InnerLayout, CanaryLayout, Bigger
      <3>3. Multiple(a, a)
        BY SelfMultiple
      <3>4. Multiple(q1 + a, a)
        BY <2>3, <2>4, <3>2, <3>3, SumMultiple
      <3> QED BY <2>3, <2>4, <2>5, <2>7, <3>1, <3>4
    <2>8. CASE st[i] = "jitter" /\ Jittered(x)
      <3>1. a1 = Line
        BY <2>3, <2>4, <2>8 DEF InnerLayout, JitterLayout
      <3>2. a <= Line
        BY <2>3, <2>8 DEF Jittered
      <3>3. Multiple(Line, a)
        <4>1. Divides(a)
          BY <1>5, <2>1, <2>3
        <4> QED BY <3>2, <4>1 DEF Divides
      <3>4. PICK k \in Nat : d = k * Line /\ d \in Nat
        BY DisplacementBounded DEF Served
      <3>5. Multiple(Line, Line)
        BY LineDivides, Constants DEF Divides
      <3>6. Multiple(d, Line)
        BY <3>4, <3>5, TimesMultiple, Constants
      <3>7. Multiple(Line + d, Line)
        BY <3>4, <3>5, <3>6, SumMultiple, Constants
      <3>8. Multiple(q1 + (Line + d), Line)
        <4>1. Line + d \in Nat
          BY <3>4, Constants
        <4> QED BY <2>3, <2>4, <3>1, <3>7, <4>1, SumMultiple, Constants
      <3>9. q = q1 + (Line + d)
        BY <2>4, <2>8
      <3>10. Multiple(q, a)
        BY <2>3, <3>3, <3>8, <3>9, MultipleOfMultiple, Constants
      <3> QED BY <2>3, <3>10
    <2> QED BY <2>4, <2>6, <2>7, <2>8
  <1> HIDE DEF N, p, y
  <1>8. S = {}
    <2> SUFFICES ASSUME S # {} PROVE FALSE
      OBVIOUS
    <2>1. S \in SUBSET Nat
      BY <1>1
    <2>2. PICK n \in S : \A k \in S : n <= k
      <3> HIDE DEF S
      <3> QED BY <2>1, LeastNat
    <2>3. n # 0
      BY <1>1, <1>6, <2>2
    <2>4. n \in 0..N /\ n - 1 \in 0..N /\ n - 1 \notin S /\ N + 1 - (n - 1) = (N + 1 - n) + 1
      <3>1. n \in 0..N
        BY <2>2
      <3> HIDE DEF S
      <3> QED BY <1>1, <2>2, <2>3, <3>1
    <2>5. Multiple(p[(N + 1 - n) + 1], y[(N + 1 - n) + 1].align)
      BY <2>4
    <2>6. N + 1 - n \in 1..N
      BY <1>1, <2>3, <2>4
    <2>7. Multiple(p[N + 1 - n], y[N + 1 - n].align)
      BY <1>7, <2>5, <2>6
    <2> QED BY <2>2, <2>7
  <1>9. ASSUME NEW i \in 1..(N + 1) PROVE Multiple(p[i], y[i].align)
    <2>1. N + 1 - i \in 0..N /\ N + 1 - (N + 1 - i) = i
      BY <1>1
    <2>2. N + 1 - i \notin S
      BY <1>8
    <2>3. Multiple(p[N + 1 - (N + 1 - i)], y[N + 1 - (N + 1 - i)].align)
      BY <2>1, <2>2
    <2> QED BY <2>1, <2>3
  <1> QED BY <1>9 DEF N, p, y

-----------------------------------------------------------------------------
(* What the layers write around a block.                                   *)

LEMMA SpanMember ==
  ASSUME NEW a \in Nat, NEW n \in Nat, NEW c
  PROVE  c \in Span(a, n) <=> c \in Nat /\ a <= c /\ c < a + n
BY DEF Span

(* Below the last Canary and CacheJitter every layer sees the slot.        *)
LEMMA PlainBelow ==
  ASSUME NEW st \in Seq(Layers), NEW R \in SUBSET Lay, NEW s, NEW l, NEW d,
         Served(st, R, s, l, d), NEW k \in 1..(Len(st) + 1),
         \A j \in k..Len(st) : ~Withholds(st[j])
  PROVE  /\ PointersFor(st, s, l, d)[k] = s * Stride
         /\ LayoutsFor(st, l)[k] = LayoutsFor(st, l)[Len(st) + 1]
  <1> DEFINE N == Len(st)
             p == PointersFor(st, s, l, d)
             y == LayoutsFor(st, l)
             S == {j \in k..(N + 1) : ~(p[j] = p[k] /\ y[j] = y[k])}
  <1>1. N \in Nat /\ k \in 1..(N + 1)
    OBVIOUS
  <1>2. p[N + 1] = s * Stride
    BY PointersDefined
  <1>3. ASSUME NEW j \in 1..N, j >= k PROVE p[j] = p[j + 1] /\ y[j] = y[j + 1]
    <2>1. LayerStep(st, s, l, d, j)
      BY LayerSteps
    <2>2. ~Withholds(st[j])
      BY <1>3
    <2>3. ~Marks(st, l, j)
      BY <2>2 DEF Withholds, Marks
    <2>4. \A i \in 1..(N + 1) : p[i] \in Nat
      BY PointersTyped
    <2>5. y[j] = y[j + 1] /\ p[j] = p[j + 1] + 0
      BY <2>1, <2>3, Zenon DEF LayerStep
    <2>6. p[j + 1] \in Nat
      BY <1>1, <2>4
    <2> HIDE DEF p, y
    <2> QED BY <2>5, <2>6
  <1> HIDE DEF N, p, y
  <1>4. S = {}
    <2> SUFFICES ASSUME S # {} PROVE FALSE
      OBVIOUS
    <2>1. S \in SUBSET Nat
      BY <1>1
    <2>2. PICK n \in S : \A j \in S : n <= j
      <3> HIDE DEF S
      <3> QED BY <2>1, LeastNat
    <2>3. n \in k..(N + 1) /\ n # k
      BY <2>2
    <2>4. n - 1 \in k..(N + 1) /\ n - 1 \in 1..N /\ n - 1 >= k /\ (n - 1) + 1 = n
      BY <1>1, <2>3
    <2>5. n - 1 \notin S
      <3> HIDE DEF S
      <3> QED BY <1>1, <2>2, <2>3
    <2>6. p[n - 1] = p[k] /\ y[n - 1] = y[k]
      BY <2>4, <2>5
    <2>7. p[n - 1] = p[n] /\ y[n - 1] = y[n]
      BY <1>3, <2>4
    <2> QED BY <2>2, <2>6, <2>7
  <1>5. N + 1 \in k..(N + 1)
    BY <1>1
  <1>6. p[N + 1] = p[k] /\ y[N + 1] = y[k]
    BY <1>4, <1>5
  <1> QED BY <1>2, <1>6 DEF N, p, y

IsGuard(st, j, s, l, d, g) ==
  LET p == PointersFor(st, s, l, d)[j]
      y == LayoutsFor(st, l)[j]
  IN /\ g = <<g[1], g[2]>>
     /\ \/ st[j] = "canary" /\ g[2] = Canary /\ (g[1] = p - 1 \/ g[1] = p + y.size)
        \/ st[j] = "jitter" /\ Jittered(y) /\ g[2] = Header(p, d) /\ g[1] = p - 1

LEMMA GuardsAre ==
  ASSUME NEW st, NEW j, NEW s, NEW l, NEW d, NEW g \in GuardsOf(st, j, s, l, d)
  PROVE  IsGuard(st, j, s, l, d, g)
  <1> DEFINE p == PointersFor(st, s, l, d)[j]
             y == LayoutsFor(st, l)[j]
  <1>1. GuardsOf(st, j, s, l, d) =
          CASE st[j] = "canary" -> {<<p - 1, Canary>>, <<p + y.size, Canary>>}
            [] st[j] = "jitter" /\ Jittered(y) -> {<<p - 1, Header(p, d)>>}
            [] OTHER -> {}
    BY DEF GuardsOf
  <1> HIDE DEF p, y
  <1>2. CASE st[j] = "canary"
    <2>1. GuardsOf(st, j, s, l, d) = {<<p - 1, Canary>>, <<p + y.size, Canary>>}
      BY <1>1, <1>2
    <2>2. g = <<p - 1, Canary>> \/ g = <<p + y.size, Canary>>
      BY <2>1
    <2> QED BY <1>2, <2>2 DEF p, y, IsGuard
  <1>3. CASE st[j] = "jitter" /\ Jittered(y)
    <2>1. GuardsOf(st, j, s, l, d) = {<<p - 1, Header(p, d)>>}
      BY <1>1, <1>3
    <2>2. g = <<p - 1, Header(p, d)>>
      BY <2>1
    <2> QED BY <1>3, <2>2 DEF p, y, IsGuard
  <1>4. CASE ~(st[j] = "canary" \/ (st[j] = "jitter" /\ Jittered(y)))
    <2>1. GuardsOf(st, j, s, l, d) = {}
      BY <1>1, <1>4
    <2> QED BY <2>1
  <1> QED BY <1>2, <1>3, <1>4

(* A guard of layer j is outside what the layers down to j see, and inside *)
(* what the layers below see.                                              *)
LEMMA GuardPlace ==
  ASSUME NEW st \in Seq(Layers), NEW R \in SUBSET Lay, NEW s, NEW l, NEW d,
         Served(st, R, s, l, d), NEW j \in 1..Len(st),
         NEW g \in GuardsOf(st, j, s, l, d)
  PROVE  LET Area(k) == Span(PointersFor(st, s, l, d)[k], LayoutsFor(st, l)[k].size)
         IN /\ \A k \in 1..j : g[1] \notin Area(k)
            /\ \A k \in (j + 1)..(Len(st) + 1) : g[1] \in Area(k)
            /\ g[1] \in SlotCells(s)
  <1> DEFINE N == Len(st)
             p == PointersFor(st, s, l, d)
             y == LayoutsFor(st, l)
  <1>1. N \in Nat /\ j \in 1..(N + 1) /\ j + 1 \in 1..(N + 1) /\ N + 1 \in 1..(N + 1)
    OBVIOUS
  <1>2. \A i \in 1..(N + 1) : p[i] \in Nat
    BY PointersTyped
  <1>3. \A i \in 1..(N + 1) : y[i] \in Lay
    BY LayoutsTyped DEF Served
  <1>4. \A i \in 1..(N + 1) : y[i].size \in Nat /\ y[i].size > 0
    BY <1>3 DEF Lay
  <1>5. \A i, k \in 1..(N + 1) :
          i <= k => p[k] <= p[i] /\ p[i] + y[i].size <= p[k] + y[k].size
    BY Nested
  <1>6. /\ p[j + 1] <= g[1] /\ g[1] < p[j + 1] + y[j + 1].size /\ g[1] \in Nat
        /\ g[1] < p[j] \/ g[1] >= p[j] + y[j].size
    <2>1. LayerStep(st, s, l, d, j)
      BY LayerSteps
    <2>2. PICK o \in Nat :
            /\ p[j] = p[j + 1] + o
            /\ o + y[j].size <= y[j + 1].size
            /\ st[j] = "canary" => o >= 1 /\ o + y[j].size + 1 <= y[j + 1].size
            /\ st[j] = "jitter" /\ Jittered(y[j]) => o = Line + d
      BY <2>1, Zenon DEF LayerStep
    <2>3. \/ st[j] = "canary" /\ (g[1] = p[j] - 1 \/ g[1] = p[j] + y[j].size)
          \/ st[j] = "jitter" /\ Jittered(y[j]) /\ g[1] = p[j] - 1
      <3>1. IsGuard(st, j, s, l, d, g)
        BY GuardsAre
      <3> QED BY <3>1, Zenon DEF IsGuard
    <2>4. d \in Nat
      BY DisplacementBounded DEF Served
    <2>5. PICK a \in Nat, a1 \in Nat, n \in Nat, n1 \in Nat :
            a = p[j] /\ a1 = p[j + 1] /\ n = y[j].size /\ n1 = y[j + 1].size /\ n > 0
      BY <1>1, <1>2, <1>4
    <2>6. a = a1 + o /\ o + n <= n1
      BY <2>2, <2>5
    <2>7. st[j] = "canary" => o >= 1 /\ o + n + 1 <= n1
      BY <2>2, <2>5
    <2>8. st[j] = "jitter" /\ Jittered(y[j]) => o >= 1
      BY <2>2, <2>4, Constants
    <2>9. \/ st[j] = "canary" /\ (g[1] = a - 1 \/ g[1] = a + n)
          \/ st[j] = "jitter" /\ Jittered(y[j]) /\ g[1] = a - 1
      BY <2>3, <2>5
    <2> HIDE DEF p, y, N
    <2>10. n > 0
      BY <2>5
    <2>11. CASE g[1] = a - 1 /\ o >= 1
      <3>1. PICK c \in Nat : c = a - 1
        BY <2>6, <2>11
      <3>2. a1 <= c /\ c < a1 + n1 /\ c < a
        BY <2>6, <2>11, <2>10, <3>1
      <3> QED BY <2>5, <2>11, <3>1, <3>2
    <2>12. CASE g[1] = a + n /\ o + n + 1 <= n1
      <3>1. PICK c \in Nat : c = a + n
        OBVIOUS
      <3>2. a1 <= c /\ c < a1 + n1 /\ c >= a + n
        BY <2>6, <2>12, <2>10, <3>1
      <3> QED BY <2>5, <2>12, <3>1, <3>2
    <2> QED BY <2>7, <2>8, <2>9, <2>11, <2>12
  <1> HIDE DEF p, y, N
  <1>7. ASSUME NEW k \in 1..j PROVE g[1] \notin Span(p[k], y[k].size)
    <2>1. k \in 1..(N + 1) /\ k <= j
      BY <1>1
    <2>2. PICK a \in Nat, b \in Nat, n \in Nat, m \in Nat :
            a = p[j] /\ n = y[j].size /\ b = p[k] /\ m = y[k].size
      BY <1>1, <1>2, <1>4, <2>1
    <2>3. a <= b /\ b + m <= a + n
      BY <1>1, <1>5, <2>1, <2>2
    <2>4. g[1] < a \/ g[1] >= a + n
      BY <1>6, <2>2
    <2>5. g[1] \notin Span(b, m)
      BY <1>6, <2>3, <2>4, SpanMember
    <2> QED BY <2>2, <2>5
  <1>8. ASSUME NEW k \in (j + 1)..(N + 1) PROVE g[1] \in Span(p[k], y[k].size)
    <2>1. k \in 1..(N + 1) /\ j + 1 <= k
      BY <1>1
    <2>2. PICK a \in Nat, b \in Nat, n \in Nat, m \in Nat :
            a = p[j + 1] /\ n = y[j + 1].size /\ b = p[k] /\ m = y[k].size
      BY <1>1, <1>2, <1>4, <2>1
    <2>3. b <= a /\ a + n <= b + m
      BY <1>1, <1>5, <2>1, <2>2
    <2>4. a <= g[1] /\ g[1] < a + n /\ g[1] \in Nat
      BY <1>6, <2>2
    <2>5. g[1] \in Span(b, m)
      BY <2>3, <2>4, SpanMember
    <2> QED BY <2>2, <2>5
  <1>9. g[1] \in SlotCells(s)
    <2>1. N + 1 \in (j + 1)..(N + 1)
      BY <1>1
    <2>2. g[1] \in Span(p[N + 1], y[N + 1].size)
      BY <1>8, <2>1
    <2>3. PICK a \in Nat, n \in Nat : a = p[N + 1] /\ n = y[N + 1].size
      BY <1>1, <1>2, <1>4
    <2>4. a = s * Stride
      BY <2>3, PointersDefined DEF p, N
    <2>5. n <= Stride
      BY <2>3 DEF Served, Room, y, N
    <2>6. g[1] \in Span(a, n)
      BY <2>2, <2>3
    <2>7. g[1] \in Span(a, Stride)
      BY <2>5, <2>6, SpanMember, Constants
    <2> QED BY <2>4, <2>7 DEF SlotCells
  <1> QED BY <1>7, <1>8, <1>9 DEF p, y, N

LEMMA GuardsDistinct ==
  ASSUME NEW st \in Seq(Layers), NEW R \in SUBSET Lay, NEW s, NEW l, NEW d,
         Served(st, R, s, l, d), NEW i \in 1..Len(st), NEW j \in 1..Len(st),
         NEW g \in GuardsOf(st, i, s, l, d), NEW h \in GuardsOf(st, j, s, l, d),
         g[1] = h[1]
  PROVE  i = j /\ g = h
  <1> DEFINE Sees(k) == Span(PointersFor(st, s, l, d)[k], LayoutsFor(st, l)[k].size)
  <1>1. /\ \A k \in 1..i : g[1] \notin Sees(k)
        /\ \A k \in (i + 1)..(Len(st) + 1) : g[1] \in Sees(k)
    BY GuardPlace
  <1>2. /\ \A k \in 1..j : h[1] \notin Sees(k)
        /\ \A k \in (j + 1)..(Len(st) + 1) : h[1] \in Sees(k)
    BY GuardPlace
  <1>3. Len(st) \in Nat
    OBVIOUS
  <1> HIDE DEF Sees
  <1>4. ~(i < j)
    <2> SUFFICES ASSUME i < j PROVE FALSE
      OBVIOUS
    <2>1. j \in 1..j /\ j \in (i + 1)..(Len(st) + 1)
      BY <1>3
    <2> QED BY <1>1, <1>2, <2>1
  <1>5. ~(j < i)
    <2> SUFFICES ASSUME j < i PROVE FALSE
      OBVIOUS
    <2>1. i \in 1..i /\ i \in (j + 1)..(Len(st) + 1)
      BY <1>3
    <2> QED BY <1>1, <1>2, <2>1
  <1>6. i = j
    BY <1>3, <1>4, <1>5
  <1>7. IsGuard(st, i, s, l, d, g) /\ IsGuard(st, i, s, l, d, h)
    BY <1>6, GuardsAre
  <1>8. g[2] = h[2]
    BY <1>7 DEF IsGuard
  <1>9. g = <<g[1], g[2]>> /\ h = <<h[1], h[2]>>
    BY <1>7 DEF IsGuard
  <1> QED BY <1>6, <1>8, <1>9

(* WithGuards writes exactly the guards. *)
LEMMA WithGuardsAt ==
  ASSUME NEW st \in Seq(Layers), NEW R \in SUBSET Lay, NEW s, NEW l, NEW d,
         Served(st, R, s, l, d), NEW m, NEW c \in Cells
  PROVE  /\ \A i \in 1..Len(st) : \A g \in GuardsOf(st, i, s, l, d) :
              g[1] = c => WithGuards(m, Guards(st, s, l, d))[c] = g[2]
         /\ (\A i \in 1..Len(st) : \A g \in GuardsOf(st, i, s, l, d) : g[1] # c) =>
              WithGuards(m, Guards(st, s, l, d))[c] = m[c]
  <1> DEFINE G == Guards(st, s, l, d)
  <1>1. WithGuards(m, G)[c] = IF \E g \in G : g[1] = c
                              THEN (CHOOSE g \in G : g[1] = c)[2] ELSE m[c]
    BY DEF WithGuards
  <1>2. \A g : g \in G <=> \E i \in 1..Len(st) : g \in GuardsOf(st, i, s, l, d)
    BY DEF Guards
  <1> HIDE DEF G
  <1>3. ASSUME NEW i \in 1..Len(st), NEW g \in GuardsOf(st, i, s, l, d), g[1] = c
        PROVE  WithGuards(m, G)[c] = g[2]
    <2>1. g \in G
      BY <1>2
    <2>2. PICK h \in G : h[1] = c /\ h = CHOOSE f \in G : f[1] = c
      BY <2>1, <1>3
    <2>3. PICK j \in 1..Len(st) : h \in GuardsOf(st, j, s, l, d)
      BY <1>2
    <2>4. g = h
      BY <1>3, <2>2, <2>3, GuardsDistinct
    <2> QED BY <1>1, <1>3, <2>1, <2>2, <2>4
  <1>4. ASSUME \A i \in 1..Len(st) : \A g \in GuardsOf(st, i, s, l, d) : g[1] # c
        PROVE  WithGuards(m, G)[c] = m[c]
    <2>1. ~ \E g \in G : g[1] = c
      BY <1>2, <1>4
    <2> QED BY <1>1, <2>1
  <1> QED BY <1>3, <1>4 DEF G

(* The cells layer k lets its caller use. *)
Usable(st, s, l, d, k) ==
  Span(PointersFor(st, s, l, d)[k], UsableOr(st, k, LayoutsFor(st, l)[k].size))

LEMMA UsableIs ==
  ASSUME NEW st \in Seq(Layers), NEW R \in SUBSET Lay, NEW s, NEW l, NEW d,
         Served(st, R, s, l, d), NEW k \in 1..(Len(st) + 1)
  PROVE  \/ /\ \E j \in k..Len(st) : Withholds(st[j])
            /\ Usable(st, s, l, d, k) =
                 Span(PointersFor(st, s, l, d)[k], LayoutsFor(st, l)[k].size)
         \/ /\ \A j \in k..Len(st) : ~Withholds(st[j])
            /\ Usable(st, s, l, d, k) = SlotCells(s)
  <1>1. CASE \E j \in k..Len(st) : Withholds(st[j])
    <2>1. UsableSize(st, k) = 0
      BY <1>1 DEF UsableSize
    <2> QED BY <1>1, <2>1 DEF Usable, UsableOr
  <1>2. CASE \A j \in k..Len(st) : ~Withholds(st[j])
    <2>1. UsableSize(st, k) = Stride
      BY <1>2 DEF UsableSize
    <2>2. PointersFor(st, s, l, d)[k] = s * Stride
      BY <1>2, PlainBelow
    <2>3. Stride # 0
      BY Constants
    <2> QED BY <1>2, <2>1, <2>2, <2>3 DEF Usable, UsableOr, SlotCells
  <1> QED BY <1>1, <1>2

LEMMA SpanNested ==
  ASSUME NEW a \in Nat, NEW n \in Nat, NEW b \in Nat, NEW m \in Nat,
         b <= a, a + n <= b + m
  PROVE  Span(a, n) \subseteq Span(b, m)
BY SpanMember

LEMMA SeenInSlot ==
  ASSUME NEW st \in Seq(Layers), NEW R \in SUBSET Lay, NEW s, NEW l, NEW d,
         Served(st, R, s, l, d), NEW k \in 1..(Len(st) + 1)
  PROVE  Span(PointersFor(st, s, l, d)[k], LayoutsFor(st, l)[k].size) \subseteq SlotCells(s)
  <1>1. PICK p \in Nat, n \in Nat, b \in Nat :
          /\ p = PointersFor(st, s, l, d)[k] /\ n = LayoutsFor(st, l)[k].size
          /\ b = s * Stride /\ b <= p /\ p + n <= b + Stride
    <2> DEFINE q == PointersFor(st, s, l, d)[k]
               z == LayoutsFor(st, l)[k].size
               c == s * Stride
    <2>1. q \in Nat /\ z \in Nat /\ c \in Nat /\ c <= q /\ q + z <= c + Stride
      BY InSlot
    <2> HIDE DEF q, z, c
    <2>2. \E p \in Nat, n \in Nat, b \in Nat :
             p = q /\ n = z /\ b = c /\ b <= p /\ p + n <= b + Stride
      BY <2>1
    <2> QED BY <2>2 DEF q, z, c
  <1>2. Span(p, n) \subseteq Span(b, Stride)
    <2>1. b <= p /\ p + n <= b + Stride
      BY <1>1
    <2> QED BY <2>1, SpanNested, Constants
  <1> QED BY <1>1, <1>2 DEF SlotCells

LEMMA UsableCells ==
  ASSUME NEW st \in Seq(Layers), NEW R \in SUBSET Lay, NEW s, NEW l, NEW d,
         Served(st, R, s, l, d), NEW k \in 1..(Len(st) + 1)
  PROVE  /\ Usable(st, s, l, d, k) \subseteq SlotCells(s)
         /\ Span(PointersFor(st, s, l, d)[k], LayoutsFor(st, l)[k].size)
              \subseteq Usable(st, s, l, d, k)
         /\ \A j \in k..Len(st) : \A g \in GuardsOf(st, j, s, l, d) :
              g[1] \notin Usable(st, s, l, d, k)
         /\ \A i \in 1..k : Usable(st, s, l, d, i) \subseteq Usable(st, s, l, d, k)
  <1> DEFINE Sees(i) == Span(PointersFor(st, s, l, d)[i], LayoutsFor(st, l)[i].size)
             U(i) == Usable(st, s, l, d, i)
             N == Len(st)
             W(i) == \E j \in i..N : Withholds(st[j])
  <1>1. N \in Nat
    OBVIOUS
  <1>2. \A i \in 1..(N + 1) : Sees(i) \subseteq SlotCells(s)
    BY SeenInSlot
  <1>3. ASSUME NEW i \in 1..(N + 1)
        PROVE  (W(i) /\ U(i) = Sees(i)) \/ (~W(i) /\ U(i) = SlotCells(s))
    BY UsableIs
  <1>4. ASSUME NEW i \in 1..k PROVE Sees(i) \subseteq Sees(k)
    <2>1. i \in 1..(N + 1) /\ i <= k
      BY <1>1
    <2>2. PICK a \in Nat, n \in Nat, b \in Nat, m \in Nat :
            /\ a = PointersFor(st, s, l, d)[i] /\ n = LayoutsFor(st, l)[i].size
            /\ b = PointersFor(st, s, l, d)[k] /\ m = LayoutsFor(st, l)[k].size
      <3>1. PointersFor(st, s, l, d)[i] \in Nat /\ LayoutsFor(st, l)[i].size \in Nat
        BY <2>1, InSlot
      <3>2. PointersFor(st, s, l, d)[k] \in Nat /\ LayoutsFor(st, l)[k].size \in Nat
        BY InSlot
      <3> QED BY <3>1, <3>2
    <2>3. b <= a /\ a + n <= b + m
      BY <2>1, <2>2, Nested
    <2>4. Span(a, n) \subseteq Span(b, m)
      BY <2>3, SpanNested
    <2> QED BY <2>2, <2>4
  <1>5. ASSUME NEW j \in k..N, NEW g \in GuardsOf(st, j, s, l, d) PROVE g[1] \notin U(k)
    <2>1. j \in 1..N /\ k \in 1..j
      BY <1>1
    <2>2. g[1] \notin Sees(k)
      BY <2>1, GuardPlace
    <2>3. IsGuard(st, j, s, l, d, g)
      BY GuardsAre
    <2>4. Withholds(st[j])
      BY <2>3 DEF IsGuard, Withholds
    <2>5. W(k)
      BY <2>4
    <2> HIDE DEF W, U, Sees
    <2> QED BY <1>3, <2>2, <2>5
  <1>6. ASSUME NEW i \in 1..k PROVE U(i) \subseteq U(k)
    <2>1. i \in 1..(N + 1) /\ (W(k) => W(i))
      BY <1>1
    <2> HIDE DEF W, U, Sees
    <2> QED BY <1>2, <1>3, <1>4, <2>1
  <1>7. U(k) \subseteq SlotCells(s) /\ Sees(k) \subseteq U(k)
    <2> HIDE DEF W, U, Sees
    <2> QED BY <1>2, <1>3
  <1> QED BY <1>5, <1>6, <1>7

(* A scrubbing layer clears every cell its caller may have used, and none  *)
(* of the guards below it.                                                 *)
LEMMA ScrubReaches ==
  ASSUME NEW st \in Seq(Layers), NEW R \in SUBSET Lay, NEW s, NEW l, NEW d,
         Served(st, R, s, l, d), NEW i \in 1..Len(st), ~Withholds(st[i])
  PROVE  LET cells == Span(PointersFor(st, s, l, d)[i],
                           UsableOr(st, i + 1, LayoutsFor(st, l)[i].size))
         IN /\ cells \subseteq SlotCells(s)
            /\ DataSpan(st, s, l, d) \subseteq cells
            /\ \A j \in (i + 1)..Len(st) : \A g \in GuardsOf(st, j, s, l, d) :
                 g[1] \notin cells
  <1>1. i + 1 \in 1..(Len(st) + 1) /\ 1 \in 1..(i + 1)
    OBVIOUS
  <1>2. LayerStep(st, s, l, d, i)
    BY LayerSteps
  <1>3. ~Marks(st, l, i)
    BY DEF Withholds, Marks
  <1>4. /\ PointersFor(st, s, l, d)[i] = PointersFor(st, s, l, d)[i + 1] + 0
        /\ LayoutsFor(st, l)[i] = LayoutsFor(st, l)[i + 1]
    BY <1>2, <1>3, Zenon DEF LayerStep
  <1>5. PointersFor(st, s, l, d)[i + 1] \in Nat
    BY <1>1, PointersTyped
  <1>6. Span(PointersFor(st, s, l, d)[i], UsableOr(st, i + 1, LayoutsFor(st, l)[i].size))
          = Usable(st, s, l, d, i + 1)
    BY <1>4, <1>5 DEF Usable
  <1>7. DataSpan(st, s, l, d) = Usable(st, s, l, d, 1)
    BY LayoutsDefined DEF DataSpan, Usable
  <1>8. /\ Usable(st, s, l, d, i + 1) \subseteq SlotCells(s)
        /\ \A j \in (i + 1)..Len(st) : \A g \in GuardsOf(st, j, s, l, d) :
             g[1] \notin Usable(st, s, l, d, i + 1)
        /\ \A k \in 1..(i + 1) : Usable(st, s, l, d, k) \subseteq Usable(st, s, l, d, i + 1)
    BY <1>1, UsableCells
  <1> QED BY <1>1, <1>6, <1>7, <1>8

(* What the caller may use is in its slot and holds no guard. *)
LEMMA DataSpanFree ==
  ASSUME NEW st \in Seq(Layers), NEW R \in SUBSET Lay, NEW s, NEW l, NEW d,
         Served(st, R, s, l, d)
  PROVE  /\ DataSpan(st, s, l, d) \subseteq SlotCells(s)
         /\ Span(PointersFor(st, s, l, d)[1], l.size) \subseteq DataSpan(st, s, l, d)
         /\ \A j \in 1..Len(st) : \A g \in GuardsOf(st, j, s, l, d) :
              g[1] \notin DataSpan(st, s, l, d)
  <1>1. DataSpan(st, s, l, d) = Usable(st, s, l, d, 1) /\ LayoutsFor(st, l)[1] = l
    BY LayoutsDefined DEF DataSpan, Usable
  <1>2. 1 \in 1..(Len(st) + 1)
    OBVIOUS
  <1> QED BY <1>1, <1>2, UsableCells

-----------------------------------------------------------------------------
(* How a write to memory changes what is known of a block.                 *)

LEMMA Values ==
  /\ Zero # Canary /\ Poison # Canary /\ Link # Canary /\ Junk # Canary
  /\ \A x : Data(x) # Canary
  /\ \A x, y : Header(x, y) # Canary /\ Header(x, y) # Junk
  /\ Canary # Junk
  /\ Zero[1] # "data" /\ Poison[1] # "data" /\ Link[1] # "data" /\ Junk[1] # "data"
  /\ Canary[1] # "data" /\ \A x, y : Header(x, y)[1] # "data"
  /\ Junk[1] # "header"
BY DEF Zero, Poison, Link, Junk, Canary, Data, Header

LEMMA FillAt ==
  ASSUME NEW m, NEW C, NEW v, NEW c \in Cells
  PROVE  /\ c \in C => Fill(m, C, v)[c] = v
         /\ c \notin C => Fill(m, C, v)[c] = m[c]
BY DEF Fill

LEMMA SlotIn ==
  ASSUME NEW s \in AllSlots, NEW c \in SlotCells(s)
  PROVE  c \in Cells /\ SlotOf(c) = s
BY CellsOfSlots

LEMMA GuardCellsIn ==
  ASSUME NEW st \in Seq(Layers), NEW R \in SUBSET Lay, NEW s, NEW l, NEW d,
         Served(st, R, s, l, d)
  PROVE  \A j \in 1..Len(st) : \A g \in GuardsOf(st, j, s, l, d) :
           g[1] \in SlotCells(s) /\ g[1] \in Cells
  <1> SUFFICES ASSUME NEW j \in 1..Len(st), NEW g \in GuardsOf(st, j, s, l, d)
               PROVE  g[1] \in SlotCells(s) /\ g[1] \in Cells
    OBVIOUS
  <1>1. g[1] \in SlotCells(s)
    BY GuardPlace
  <1> QED BY <1>1, SlotIn DEF Served

(* A block depends on the cells of its slot only. *)
LEMMA GuardedFrame ==
  ASSUME NEW st \in Seq(Layers), NEW R \in SUBSET Lay, NEW s, NEW l, NEW d,
         Served(st, R, s, l, d), NEW k \in 1..(Len(st) + 1),
         NEW m, NEW n, NEW hit, NEW hit2,
         Guarded(st, m, hit, k, s, l, d),
         \A c \in SlotCells(s) : n[c] = m[c], s \in hit2 <=> s \in hit
  PROVE  Guarded(st, n, hit2, k, s, l, d)
  <1>1. \A j \in k..Len(st) : j \in 1..Len(st)
    OBVIOUS
  <1>2. \A j \in k..Len(st) : \A g \in GuardsOf(st, j, s, l, d) : n[g[1]] = m[g[1]]
    BY <1>1, GuardCellsIn
  <1>3. \A i \in k..Len(st) : \A g \in GuardsOf(st, i, s, l, d) :
          n[g[1]] = g[2] \/ (n[g[1]] = Junk /\ s \in hit2)
    BY <1>2 DEF Guarded
  <1>4. s \in hit2 => \E i \in k..Len(st) : \E g \in GuardsOf(st, i, s, l, d) : n[g[1]] = Junk
    BY <1>2 DEF Guarded
  <1>5. \A c \in SlotCells(s) :
          n[c] = Canary => \E i \in k..Len(st) : <<c, Canary>> \in GuardsOf(st, i, s, l, d)
    BY DEF Guarded
  <1> QED BY <1>3, <1>4, <1>5 DEF Guarded

LEMMA SeenSlot ==
  ASSUME NEW st \in Seq(Layers), NEW R \in SUBSET Lay, NEW s, NEW l, NEW d,
         Served(st, R, s, l, d), NEW k \in 1..(Len(st) + 1), NEW x, Seen(st, x, k, s, l, d)
  PROVE  s \in AllSlots /\ SlotOf(x.ptr) = s /\ x.ptr \in Nat /\ x.ptr \in SlotCells(s)
  <1>1. x.ptr = PointersFor(st, s, l, d)[k] /\ s \in AllSlots
    BY DEF Seen, Served
  <1>2. /\ PointersFor(st, s, l, d)[k] \in Nat
        /\ PointersFor(st, s, l, d)[k] \in SlotCells(s)
        /\ SlotOf(PointersFor(st, s, l, d)[k]) = s
    BY InSlot
  <1> QED BY <1>1, <1>2

(* The block a call or an entry of the ring is about. *)
Backed(st, R, m, hit, x, k, s, l, d) ==
  /\ Served(st, R, s, l, d) /\ Seen(st, x, k, s, l, d)
  /\ Guarded(st, m, hit, k, s, l, d) /\ Confined(st, m, s, l, d)

LEMMA ReturningIs ==
  ASSUME NEW st \in Seq(Layers), NEW R \in SUBSET Lay, NEW k \in 1..(Len(st) + 1),
         NEW m, NEW hit, NEW x
  PROVE  /\ Returning(st, R, m, hit, x, k) <=>
              \E s, l, d : Backed(st, R, m, hit, x, k, s, l, d)
         /\ \A s, l, d : Backed(st, R, m, hit, x, k, s, l, d) =>
              s \in AllSlots /\ SlotOf(x.ptr) = s /\ x.ptr \in Nat
  <1>1. ASSUME NEW s, NEW l, NEW d, Backed(st, R, m, hit, x, k, s, l, d)
        PROVE  s \in AllSlots /\ SlotOf(x.ptr) = s /\ x.ptr \in Nat
    <2>1. Served(st, R, s, l, d) /\ Seen(st, x, k, s, l, d)
      BY <1>1 DEF Backed
    <2> QED BY <2>1, SeenSlot
  <1>2. ASSUME NEW s, NEW l, NEW d, Backed(st, R, m, hit, x, k, s, l, d)
        PROVE  s \in AllSlots /\ l \in R /\ d \in Displacements(st, l)
    BY <1>2 DEF Backed, Served
  <1>3. Returning(st, R, m, hit, x, k) <=> \E s, l, d : Backed(st, R, m, hit, x, k, s, l, d)
    BY <1>2 DEF Returning, Backed
  <1> QED BY <1>1, <1>3

LEMMA ReturningFrame ==
  ASSUME NEW st \in Seq(Layers), NEW R \in SUBSET Lay, NEW k \in 1..(Len(st) + 1),
         NEW m, NEW n, NEW hit, NEW hit2, NEW x, Returning(st, R, m, hit, x, k),
         \A c \in SlotCells(SlotOf(x.ptr)) : n[c] = m[c],
         SlotOf(x.ptr) \in hit2 <=> SlotOf(x.ptr) \in hit
  PROVE  Returning(st, R, n, hit2, x, k)
  <1>1. PICK s, l, d : Backed(st, R, m, hit, x, k, s, l, d)
    BY ReturningIs
  <1>2. SlotOf(x.ptr) = s
    BY <1>1, ReturningIs
  <1>3. Served(st, R, s, l, d) /\ Guarded(st, m, hit, k, s, l, d) /\ Confined(st, m, s, l, d)
    BY <1>1 DEF Backed
  <1>4. Guarded(st, n, hit2, k, s, l, d)
    BY <1>2, <1>3, GuardedFrame
  <1>5. Confined(st, n, s, l, d)
    BY <1>2, <1>3 DEF Confined, Secret
  <1>6. Backed(st, R, n, hit2, x, k, s, l, d)
    BY <1>1, <1>4, <1>5 DEF Backed
  <1> QED BY <1>6, ReturningIs

LEMMA IntactFrame ==
  ASSUME NEW st \in Seq(Layers), NEW R \in SUBSET Lay,
         NEW m, NEW n, NEW hit, NEW hit2, NEW b, Intact(st, R, m, hit, b),
         \A c \in SlotCells(b.slot) : n[c] = m[c], b.slot \in hit2 <=> b.slot \in hit
  PROVE  Intact(st, R, n, hit2, b)
  <1> DEFINE l == LayoutOf(b)
  <1>1. Served(st, R, b.slot, l, b.disp)
    BY DEF Intact
  <1>2. 1 \in 1..(Len(st) + 1)
    OBVIOUS
  <1>3. Guarded(st, n, hit2, 1, b.slot, l, b.disp)
    <2>1. Guarded(st, m, hit, 1, b.slot, l, b.disp)
      BY DEF Intact
    <2> HIDE DEF l
    <2> QED BY <1>1, <1>2, <2>1, GuardedFrame
  <1>4. Span(b.ptr, b.size) \subseteq SlotCells(b.slot) /\ b.size \in Nat
    <2>1. Span(PointersFor(st, b.slot, l, b.disp)[1], l.size) \subseteq SlotCells(b.slot)
      BY <1>1, DataSpanFree
    <2>2. b.ptr = PointersFor(st, b.slot, l, b.disp)[1] /\ l.size = b.size
      BY DEF Intact, LayoutOf
    <2>3. l \in Lay
      BY <1>1 DEF Served
    <2> QED BY <2>1, <2>2, <2>3 DEF Lay
  <1>5. Span(b.ptr, b.known) \subseteq Span(b.ptr, b.size)
    <2>1. b.known \in 0..b.size
      BY DEF Intact
    <2>2. b.ptr \in Nat
      <3>1. PointersFor(st, b.slot, l, b.disp)[1] \in Nat
        BY <1>1, <1>2, PointersTyped
      <3> QED BY <3>1 DEF Intact
    <2> QED BY <1>4, <2>1, <2>2, SpanMember
  <1>6. Confined(st, n, b.slot, l, b.disp)
    BY DEF Intact, Confined, Secret
  <1>7. Scrubs(st) => \A c \in SlotCells(b.slot) : Secret(n, c) => n[c] = Data(b.id)
    BY DEF Intact, Secret
  <1>8. \A c \in Span(b.ptr, b.known) : n[c] = Data(b.id)
    BY <1>4, <1>5 DEF Intact
  <1>9. b.zeroed => \A c \in Span(b.ptr, b.size) : n[c] = Zero
    BY <1>4 DEF Intact
  <1>10. /\ b.ptr = PointersFor(st, b.slot, LayoutOf(b), b.disp)[1]
         /\ b.known \in 0..b.size
    BY DEF Intact
  <1> QED BY <1>1, <1>3, <1>6, <1>7, <1>8, <1>9, <1>10 DEF Intact

-----------------------------------------------------------------------------
(* One layer of a deallocate: what it does to the block it was given.      *)

Passes(z, x) == z.ptr = x.ptr /\ z.size = x.size /\ z.align = x.align

(* Layer i hands the block x on as z, and memory goes from m to n. *)
Handed(st, R, m, n, hit, x, z, i) ==
  /\ Returning(st, R, n, hit, z, i + 1) /\ SlotOf(z.ptr) = SlotOf(x.ptr)
  /\ \A c \in Cells : SlotOf(c) # SlotOf(x.ptr) => n[c] = m[c]
  /\ \A c \in Cells : Secret(n, c) => n[c] = m[c]

LEMMA NoGuards ==
  ASSUME NEW st, NEW i, NEW s, NEW l, NEW d, ~Marks(st, l, i)
  PROVE  GuardsOf(st, i, s, l, d) = {}
BY GuardsAre DEF IsGuard, Marks

(* The guards of the layers below i, when those of layer i are whole or it *)
(* has none.                                                               *)
LEMMA OnlyBelow ==
  ASSUME NEW st \in Seq(Layers), NEW i \in 1..Len(st), NEW s, NEW l, NEW d, NEW m, NEW hit,
         Guarded(st, m, hit, i, s, l, d),
         \A g \in GuardsOf(st, i, s, l, d) : m[g[1]] # Junk
  PROVE  /\ \A j \in (i + 1)..Len(st) : \A g \in GuardsOf(st, j, s, l, d) :
              m[g[1]] = g[2] \/ (m[g[1]] = Junk /\ s \in hit)
         /\ s \in hit => \E j \in (i + 1)..Len(st) : \E g \in GuardsOf(st, j, s, l, d) :
                            m[g[1]] = Junk
  <1>1. \A j : j \in i..Len(st) <=> j = i \/ j \in (i + 1)..Len(st)
    OBVIOUS
  <1>2. \A j \in (i + 1)..Len(st) : \A g \in GuardsOf(st, j, s, l, d) :
          m[g[1]] = g[2] \/ (m[g[1]] = Junk /\ s \in hit)
    BY <1>1 DEF Guarded
  <1>3. ASSUME s \in hit
        PROVE  \E j \in (i + 1)..Len(st) : \E g \in GuardsOf(st, j, s, l, d) : m[g[1]] = Junk
    <2>1. PICK j \in i..Len(st) : \E g \in GuardsOf(st, j, s, l, d) : m[g[1]] = Junk
      BY <1>3 DEF Guarded
    <2>2. j # i
      BY <2>1
    <2> QED BY <1>1, <2>1, <2>2
  <1> QED BY <1>2, <1>3

LEMMA SeenBelow ==
  ASSUME NEW st \in Seq(Layers), NEW R \in SUBSET Lay, NEW s, NEW l, NEW d,
         Served(st, R, s, l, d), NEW i \in 1..Len(st), NEW x, NEW z,
         Seen(st, x, i, s, l, d), Passes(z, x), ~Marks(st, l, i)
  PROVE  Seen(st, z, i + 1, s, l, d)
  <1>1. LayerStep(st, s, l, d, i)
    BY LayerSteps
  <1>2. /\ PointersFor(st, s, l, d)[i] = PointersFor(st, s, l, d)[i + 1] + 0
        /\ LayoutsFor(st, l)[i + 1] = LayoutsFor(st, l)[i]
    BY <1>1, Zenon DEF LayerStep
  <1>3. PointersFor(st, s, l, d)[i + 1] \in Nat
    <2>1. i + 1 \in 1..(Len(st) + 1)
      OBVIOUS
    <2> QED BY <2>1, PointersTyped
  <1>4. PointersFor(st, s, l, d)[i] = PointersFor(st, s, l, d)[i + 1]
    BY <1>2, <1>3
  <1> QED BY <1>2, <1>4 DEF Seen, Passes

(* Quarantine, and CacheJitter for a layout it passes through. *)
LEMMA PassedOn ==
  ASSUME NEW st \in Seq(Layers), NEW R \in SUBSET Lay, NEW i \in 1..Len(st),
         NEW m, NEW hit, NEW x, NEW z, Returning(st, R, m, hit, x, i), Passes(z, x),
         st[i] # "canary", st[i] = "jitter" => ~Jittered([size |-> x.size, align |-> x.align])
  PROVE  Handed(st, R, m, m, hit, x, z, i)
  <1>1. i \in 1..(Len(st) + 1) /\ i + 1 \in 1..(Len(st) + 1)
    OBVIOUS
  <1>2. PICK s, l, d : Backed(st, R, m, hit, x, i, s, l, d)
    BY <1>1, ReturningIs
  <1>3. /\ Served(st, R, s, l, d) /\ Seen(st, x, i, s, l, d)
        /\ Guarded(st, m, hit, i, s, l, d) /\ Confined(st, m, s, l, d)
    BY <1>2 DEF Backed
  <1>4. ~Marks(st, l, i)
    <2>1. x.align = LayoutsFor(st, l)[i].align
      BY <1>3 DEF Seen
    <2> QED BY <2>1 DEF Marks, Jittered
  <1>5. GuardsOf(st, i, s, l, d) = {}
    BY <1>4, NoGuards
  <1>6. Guarded(st, m, hit, i + 1, s, l, d)
    <2>1. \A g \in GuardsOf(st, i, s, l, d) : m[g[1]] # Junk
      BY <1>5
    <2>2. \A j : j \in i..Len(st) <=> j = i \/ j \in (i + 1)..Len(st)
      OBVIOUS
    <2>3. \A c \in SlotCells(s) : m[c] = Canary =>
            \E j \in (i + 1)..Len(st) : <<c, Canary>> \in GuardsOf(st, j, s, l, d)
      BY <1>3, <1>5, <2>2 DEF Guarded
    <2> QED BY <1>3, <2>1, <2>3, OnlyBelow DEF Guarded
  <1>7. Seen(st, z, i + 1, s, l, d)
    BY <1>3, <1>4, SeenBelow
  <1>8. Backed(st, R, m, hit, z, i + 1, s, l, d)
    BY <1>3, <1>6, <1>7 DEF Backed
  <1>9. Returning(st, R, m, hit, z, i + 1)
    BY <1>1, <1>8, ReturningIs
  <1> QED BY <1>9 DEF Handed, Passes

(* PoisonOnFree and ZeroizeOnFree. *)
LEMMA ScrubbedOn ==
  ASSUME NEW st \in Seq(Layers), NEW R \in SUBSET Lay, NEW i \in 1..Len(st),
         NEW m, NEW n, NEW hit, NEW x, NEW z, NEW v \in {Zero, Poison},
         Returning(st, R, m, hit, x, i), Passes(z, x), st[i] \in {"poison", "zeroize"},
         n = Fill(m, Span(x.ptr, UsableOr(st, i + 1, x.size)), v)
  PROVE  Handed(st, R, m, n, hit, x, z, i) /\ Clean(n, SlotOf(x.ptr))
  <1>1. i \in 1..(Len(st) + 1) /\ i + 1 \in 1..(Len(st) + 1)
    OBVIOUS
  <1>2. PICK s, l, d : Backed(st, R, m, hit, x, i, s, l, d)
    BY <1>1, ReturningIs
  <1>3. /\ Served(st, R, s, l, d) /\ Seen(st, x, i, s, l, d)
        /\ Guarded(st, m, hit, i, s, l, d) /\ Confined(st, m, s, l, d)
    BY <1>2 DEF Backed
  <1>4. SlotOf(x.ptr) = s /\ s \in AllSlots
    BY <1>1, <1>2, ReturningIs
  <1>5. ~Marks(st, l, i) /\ ~Withholds(st[i]) /\ Scrubs(st)
    <2>1. i \in DOMAIN st
      OBVIOUS
    <2> QED BY <2>1 DEF Marks, Withholds, Scrubs, HasLayer
  <1>6. GuardsOf(st, i, s, l, d) = {}
    BY <1>5, NoGuards
  <1> DEFINE C == Span(x.ptr, UsableOr(st, i + 1, x.size))
  <1>7. /\ C \subseteq SlotCells(s)
        /\ DataSpan(st, s, l, d) \subseteq C
        /\ \A j \in (i + 1)..Len(st) : \A g \in GuardsOf(st, j, s, l, d) : g[1] \notin C
    <2>1. C = Span(PointersFor(st, s, l, d)[i], UsableOr(st, i + 1, LayoutsFor(st, l)[i].size))
      BY <1>3 DEF Seen
    <2> DEFINE D == Span(PointersFor(st, s, l, d)[i],
                         UsableOr(st, i + 1, LayoutsFor(st, l)[i].size))
    <2>2. /\ D \subseteq SlotCells(s)
          /\ DataSpan(st, s, l, d) \subseteq D
          /\ \A j \in (i + 1)..Len(st) : \A g \in GuardsOf(st, j, s, l, d) : g[1] \notin D
      BY <1>3, <1>5, ScrubReaches
    <2>3. C = D
      BY <2>1
    <2> HIDE DEF C, D
    <2> QED BY <2>2, <2>3
  <1> HIDE DEF C
  <1>8. \A c \in Cells : (c \in C => n[c] = v) /\ (c \notin C => n[c] = m[c])
    BY FillAt DEF C
  <1>9. v # Canary /\ v[1] # "data"
    BY Values
  <1>10. \A c \in SlotCells(s) : c \in Cells /\ SlotOf(c) = s
    BY <1>4, SlotIn
  <1>11. \A j \in (i + 1)..Len(st) : \A g \in GuardsOf(st, j, s, l, d) : n[g[1]] = m[g[1]]
    <2>1. \A j \in (i + 1)..Len(st) : j \in 1..Len(st)
      OBVIOUS
    <2> QED BY <1>3, <1>7, <1>8, <2>1, GuardCellsIn
  <1>12. Guarded(st, n, hit, i + 1, s, l, d)
    <2>1. \A g \in GuardsOf(st, i, s, l, d) : m[g[1]] # Junk
      BY <1>6
    <2>2. /\ \A j \in (i + 1)..Len(st) : \A g \in GuardsOf(st, j, s, l, d) :
               m[g[1]] = g[2] \/ (m[g[1]] = Junk /\ s \in hit)
          /\ s \in hit => \E j \in (i + 1)..Len(st) : \E g \in GuardsOf(st, j, s, l, d) :
                             m[g[1]] = Junk
      BY <1>3, <2>1, OnlyBelow
    <2>3. \A j : j \in i..Len(st) <=> j = i \/ j \in (i + 1)..Len(st)
      OBVIOUS
    <2>4. \A c \in SlotCells(s) : n[c] = Canary =>
            \E j \in (i + 1)..Len(st) : <<c, Canary>> \in GuardsOf(st, j, s, l, d)
      <3> SUFFICES ASSUME NEW c \in SlotCells(s), n[c] = Canary
                   PROVE  \E j \in (i + 1)..Len(st) : <<c, Canary>> \in GuardsOf(st, j, s, l, d)
        OBVIOUS
      <3>1. m[c] = Canary
        BY <1>8, <1>9, <1>10
      <3>2. PICK j \in i..Len(st) : <<c, Canary>> \in GuardsOf(st, j, s, l, d)
        BY <1>3, <3>1 DEF Guarded
      <3> QED BY <1>6, <2>3, <3>2
    <2>5. \A j \in (i + 1)..Len(st) : \A g \in GuardsOf(st, j, s, l, d) :
            n[g[1]] = g[2] \/ (n[g[1]] = Junk /\ s \in hit)
      BY <1>11, <2>2
    <2>6. s \in hit => \E j \in (i + 1)..Len(st) : \E g \in GuardsOf(st, j, s, l, d) :
                          n[g[1]] = Junk
      BY <1>11, <2>2
    <2> QED BY <2>4, <2>5, <2>6 DEF Guarded
  <1>13. \A c \in SlotCells(s) : ~Secret(n, c)
    <2> SUFFICES ASSUME NEW c \in SlotCells(s), Secret(n, c) PROVE FALSE
      OBVIOUS
    <2>1. c \in Cells
      BY <1>10
    <2>2. c \notin C /\ n[c] = m[c]
      BY <1>8, <1>9, <2>1 DEF Secret
    <2>3. c \in DataSpan(st, s, l, d)
      BY <1>3, <1>5, <2>2 DEF Confined, Secret
    <2> QED BY <1>7, <2>2, <2>3
  <1>14. Confined(st, n, s, l, d)
    BY <1>13 DEF Confined
  <1>15. Seen(st, z, i + 1, s, l, d)
    BY <1>3, <1>5, SeenBelow
  <1>16. Returning(st, R, n, hit, z, i + 1)
    <2>1. Backed(st, R, n, hit, z, i + 1, s, l, d)
      BY <1>3, <1>12, <1>14, <1>15 DEF Backed
    <2> QED BY <1>1, <2>1, ReturningIs
  <1>17. ASSUME NEW c \in Cells, SlotOf(c) # SlotOf(x.ptr) PROVE n[c] = m[c]
    BY <1>4, <1>7, <1>8, <1>10, <1>17
  <1>18. ASSUME NEW c \in Cells, Secret(n, c) PROVE n[c] = m[c]
    BY <1>8, <1>9, <1>18 DEF Secret
  <1>19. SlotOf(z.ptr) = SlotOf(x.ptr)
    BY DEF Passes
  <1>20. Handed(st, R, m, n, hit, x, z, i)
    BY <1>16, <1>17, <1>18, <1>19 DEF Handed
  <1> QED BY <1>4, <1>13, <1>20 DEF Clean

LEMMA CanaryWords ==
  ASSUME NEW st, NEW i, NEW s, NEW l, NEW d, st[i] = "canary"
  PROVE  LET p == PointersFor(st, s, l, d)[i]
             n == LayoutsFor(st, l)[i].size
         IN GuardsOf(st, i, s, l, d) = {<<p - 1, Canary>>, <<p + n, Canary>>}
BY DEF GuardsOf

LEMMA JitterWord ==
  ASSUME NEW st, NEW i, NEW s, NEW l, NEW d, st[i] = "jitter", Jittered(LayoutsFor(st, l)[i])
  PROVE  LET p == PointersFor(st, s, l, d)[i]
         IN GuardsOf(st, i, s, l, d) = {<<p - 1, Header(p, d)>>}
BY DEF GuardsOf

(* Canary: both words verified and cleared. *)
LEMMA CanaryOn ==
  ASSUME NEW st \in Seq(Layers), NEW R \in SUBSET Lay, NEW i \in 1..Len(st),
         NEW m, NEW n, NEW hit, NEW x, NEW z,
         Returning(st, R, m, hit, x, i), st[i] = "canary",
         m[x.ptr - 1] = Canary, m[x.ptr + x.size] = Canary,
         n = Fill(m, {x.ptr - 1, x.ptr + x.size}, Zero),
         z.ptr = x.ptr - PrePad(x.align),
         z.size = PrePad(x.align) + x.size + 1, z.align = Bigger(1, x.align)
  PROVE  Handed(st, R, m, n, hit, x, z, i)
  <1>1. i \in 1..(Len(st) + 1) /\ i + 1 \in 1..(Len(st) + 1)
    OBVIOUS
  <1>2. PICK s, l, d : Backed(st, R, m, hit, x, i, s, l, d)
    BY <1>1, ReturningIs
  <1>3. /\ Served(st, R, s, l, d) /\ Seen(st, x, i, s, l, d)
        /\ Guarded(st, m, hit, i, s, l, d) /\ Confined(st, m, s, l, d)
    BY <1>2 DEF Backed
  <1>4. SlotOf(x.ptr) = s /\ s \in AllSlots
    BY <1>1, <1>2, ReturningIs
  <1> DEFINE C == {x.ptr - 1, x.ptr + x.size}
             G == GuardsOf(st, i, s, l, d)
  <1>5. \A g : g \in G <=> g = <<x.ptr - 1, Canary>> \/ g = <<x.ptr + x.size, Canary>>
    <2>1. /\ x.ptr = PointersFor(st, s, l, d)[i]
          /\ x.size = LayoutsFor(st, l)[i].size
      BY <1>3 DEF Seen
    <2> QED BY <2>1, CanaryWords
  <1> HIDE DEF G
  <1>6. /\ \A g \in G : g[1] \in C /\ m[g[1]] = Canary
        /\ \A c \in C : <<c, Canary>> \in G
    BY <1>5
  <1>7. \A c \in C : c \in SlotCells(s) /\ c \in Cells
    <2> SUFFICES ASSUME NEW c \in C PROVE c \in SlotCells(s) /\ c \in Cells
      OBVIOUS
    <2>1. PICK g \in G : g[1] = c
      <3>1. <<c, Canary>> \in G /\ <<c, Canary>>[1] = c
        BY <1>6
      <3> QED BY <3>1
    <2>2. g \in GuardsOf(st, i, s, l, d)
      BY DEF G
    <2> HIDE DEF C
    <2> QED BY <1>3, <2>1, <2>2, GuardCellsIn
  <1>8. \A c \in Cells : (c \in C => n[c] = Zero) /\ (c \notin C => n[c] = m[c])
    BY FillAt
  <1> HIDE DEF C
  <1>9. \A j \in (i + 1)..Len(st) : \A g \in GuardsOf(st, j, s, l, d) :
           g[1] \notin C /\ n[g[1]] = m[g[1]]
    <2> SUFFICES ASSUME NEW j \in (i + 1)..Len(st), NEW g \in GuardsOf(st, j, s, l, d)
                 PROVE  g[1] \notin C /\ n[g[1]] = m[g[1]]
      OBVIOUS
    <2>1. j \in 1..Len(st) /\ j # i
      OBVIOUS
    <2>2. g[1] \in Cells
      BY <1>3, <2>1, GuardCellsIn
    <2>3. g[1] \notin C
      <3> SUFFICES ASSUME g[1] \in C PROVE FALSE
        OBVIOUS
      <3>1. PICK h \in G : h[1] = g[1]
        <4>1. <<g[1], Canary>> \in G /\ <<g[1], Canary>>[1] = g[1]
          BY <1>6
        <4> QED BY <4>1
      <3>2. h \in GuardsOf(st, i, s, l, d)
        BY DEF G
      <3>3. i = j
        BY <1>3, <2>1, <3>1, <3>2, GuardsDistinct
      <3> QED BY <2>1, <3>3
    <2> QED BY <1>8, <2>2, <2>3
  <1>10. Guarded(st, n, hit, i + 1, s, l, d)
    <2>1. \A g \in GuardsOf(st, i, s, l, d) : m[g[1]] # Junk
      BY <1>6, Values DEF G
    <2>2. /\ \A j \in (i + 1)..Len(st) : \A g \in GuardsOf(st, j, s, l, d) :
               m[g[1]] = g[2] \/ (m[g[1]] = Junk /\ s \in hit)
          /\ s \in hit => \E j \in (i + 1)..Len(st) : \E g \in GuardsOf(st, j, s, l, d) :
                             m[g[1]] = Junk
      BY <1>3, <2>1, OnlyBelow
    <2>3. \A j : j \in i..Len(st) <=> j = i \/ j \in (i + 1)..Len(st)
      OBVIOUS
    <2>4. \A c \in SlotCells(s) : n[c] = Canary =>
            \E j \in (i + 1)..Len(st) : <<c, Canary>> \in GuardsOf(st, j, s, l, d)
      <3> SUFFICES ASSUME NEW c \in SlotCells(s), n[c] = Canary
                   PROVE  \E j \in (i + 1)..Len(st) : <<c, Canary>> \in GuardsOf(st, j, s, l, d)
        OBVIOUS
      <3>1. c \in Cells
        BY <1>4, SlotIn
      <3>2. c \notin C /\ m[c] = Canary
        BY <1>8, <3>1, Values
      <3>3. PICK j \in i..Len(st) : <<c, Canary>> \in GuardsOf(st, j, s, l, d)
        BY <1>3, <3>2 DEF Guarded
      <3>4. j # i
        <4> SUFFICES ASSUME j = i PROVE FALSE
          OBVIOUS
        <4>1. <<c, Canary>> \in G /\ <<c, Canary>>[1] = c
          BY <3>3 DEF G
        <4> QED BY <1>6, <3>2, <4>1
      <3> QED BY <2>3, <3>3, <3>4
    <2>5. \A j \in (i + 1)..Len(st) : \A g \in GuardsOf(st, j, s, l, d) :
            n[g[1]] = g[2] \/ (n[g[1]] = Junk /\ s \in hit)
      BY <1>9, <2>2
    <2>6. s \in hit => \E j \in (i + 1)..Len(st) : \E g \in GuardsOf(st, j, s, l, d) :
                          n[g[1]] = Junk
      BY <1>9, <2>2
    <2> QED BY <2>4, <2>5, <2>6 DEF Guarded
  <1>11. \A c \in Cells : Secret(n, c) => n[c] = m[c]
    BY <1>8, Values DEF Secret
  <1>12. Confined(st, n, s, l, d)
    <2>1. \A c \in SlotCells(s) : c \in Cells
      BY <1>4, SlotIn
    <2> QED BY <1>3, <1>11, <2>1 DEF Confined, Secret
  <1>13. Seen(st, z, i + 1, s, l, d)
    <2>1. LayerStep(st, s, l, d, i)
      BY LayerSteps, <1>3
    <2> DEFINE p == PointersFor(st, s, l, d)
               y == LayoutsFor(st, l)
               o == Offset(st[i], y[i], d)
    <2>2. p[i] = p[i + 1] + o /\ o \in Nat /\ y[i + 1] = InnerLayout(st[i], y[i])
      BY <2>1, Zenon DEF LayerStep
    <2>3. p[i + 1] \in Nat
      BY <1>1, <1>3, PointersTyped
    <2>4. x.ptr = p[i] /\ x.size = y[i].size /\ x.align = y[i].align
      BY <1>3 DEF Seen
    <2>5. o = PrePad(x.align)
      BY <2>4 DEF Offset
    <2>6. /\ y[i + 1].size = PrePad(x.align) + x.size + 1
          /\ y[i + 1].align = Bigger(1, x.align)
      <3>1. y[i + 1] = CanaryLayout(y[i])
        BY <2>2 DEF InnerLayout
      <3> HIDE DEF y
      <3> QED BY <2>4, <3>1 DEF CanaryLayout
    <2> HIDE DEF p, y, o
    <2>7. z.ptr = p[i + 1]
      BY <2>2, <2>3, <2>4, <2>5
    <2> QED BY <2>6, <2>7 DEF Seen, p, y
  <1>14. Backed(st, R, n, hit, z, i + 1, s, l, d)
    BY <1>3, <1>10, <1>12, <1>13 DEF Backed
  <1>15. Returning(st, R, n, hit, z, i + 1) /\ SlotOf(z.ptr) = s
    BY <1>1, <1>14, ReturningIs
  <1>16. ASSUME NEW c \in Cells, SlotOf(c) # SlotOf(x.ptr) PROVE n[c] = m[c]
    <2>1. \A e \in SlotCells(s) : SlotOf(e) = s
      BY <1>4, SlotIn
    <2> QED BY <1>4, <1>7, <1>8, <1>16, <2>1
  <1> QED BY <1>4, <1>11, <1>15, <1>16 DEF Handed

(* A canary that fails was overwritten. *)
LEMMA CanaryAlarm ==
  ASSUME NEW st \in Seq(Layers), NEW R \in SUBSET Lay, NEW i \in 1..Len(st),
         NEW m, NEW hit, NEW x, Returning(st, R, m, hit, x, i), st[i] = "canary",
         ~(m[x.ptr - 1] = Canary /\ m[x.ptr + x.size] = Canary)
  PROVE  SlotOf(x.ptr) \in hit
  <1>1. i \in 1..(Len(st) + 1) /\ i \in i..Len(st)
    OBVIOUS
  <1>2. PICK s, l, d : Backed(st, R, m, hit, x, i, s, l, d)
    BY <1>1, ReturningIs
  <1>3. SlotOf(x.ptr) = s
    BY <1>1, <1>2, ReturningIs
  <1>4. Seen(st, x, i, s, l, d) /\ Guarded(st, m, hit, i, s, l, d)
    BY <1>2 DEF Backed
  <1> DEFINE G == GuardsOf(st, i, s, l, d)
  <1>5. <<x.ptr - 1, Canary>> \in G /\ <<x.ptr + x.size, Canary>> \in G
    BY <1>4, CanaryWords DEF Seen
  <1>6. \A g \in G : m[g[1]] = g[2] \/ s \in hit
    BY <1>1, <1>4 DEF Guarded
  <1> HIDE DEF G
  <1>7. (m[x.ptr - 1] = Canary \/ s \in hit) /\ (m[x.ptr + x.size] = Canary \/ s \in hit)
    BY <1>5, <1>6
  <1> QED BY <1>3, <1>7

(* CacheJitter: the header gives the displacement the block was made with, *)
(* or was overwritten.                                                     *)
HeaderOf(st, m, hit, x, i, s, l, d) ==
  /\ Jittered(LayoutsFor(st, l)[i])
  /\ GuardsOf(st, i, s, l, d) = {<<x.ptr - 1, Header(x.ptr, d)>>}
  /\ m[x.ptr - 1] = Header(x.ptr, d) \/ (m[x.ptr - 1] = Junk /\ s \in hit)

LEMMA JitterHeader ==
  ASSUME NEW st \in Seq(Layers), NEW R, NEW i \in 1..Len(st),
         NEW m, NEW hit, NEW x, NEW s, NEW l, NEW d,
         Backed(st, R, m, hit, x, i, s, l, d), st[i] = "jitter", x.align <= Line
  PROVE  HeaderOf(st, m, hit, x, i, s, l, d)
  <1>1. i \in i..Len(st)
    OBVIOUS
  <1>2. Seen(st, x, i, s, l, d) /\ Guarded(st, m, hit, i, s, l, d)
    BY DEF Backed
  <1>3. x.ptr = PointersFor(st, s, l, d)[i] /\ x.align = LayoutsFor(st, l)[i].align
    BY <1>2 DEF Seen
  <1>4. Jittered(LayoutsFor(st, l)[i])
    BY <1>3 DEF Jittered
  <1> DEFINE G == GuardsOf(st, i, s, l, d)
  <1>5. G = {<<x.ptr - 1, Header(x.ptr, d)>>}
    BY <1>3, <1>4, JitterWord
  <1>6. \A g \in G : m[g[1]] = g[2] \/ (m[g[1]] = Junk /\ s \in hit)
    BY <1>1, <1>2 DEF Guarded
  <1> HIDE DEF G
  <1>7. m[x.ptr - 1] = Header(x.ptr, d) \/ (m[x.ptr - 1] = Junk /\ s \in hit)
    BY <1>5, <1>6
  <1> QED BY <1>4, <1>5, <1>7 DEF G, HeaderOf

LEMMA JitterOn ==
  ASSUME NEW st \in Seq(Layers), NEW R \in SUBSET Lay, NEW i \in 1..Len(st),
         NEW m, NEW hit, NEW x, NEW z,
         Returning(st, R, m, hit, x, i), st[i] = "jitter",
         Jittered([size |-> x.size, align |-> x.align]), m[x.ptr - 1][1] = "header",
         z.ptr = x.ptr - (Line + m[x.ptr - 1][3]),
         z.size = x.size + JitterPrefix, z.align = Line
  PROVE  Handed(st, R, m, m, hit, x, z, i)
  <1>1. i \in 1..(Len(st) + 1) /\ i + 1 \in 1..(Len(st) + 1)
    OBVIOUS
  <1>2. PICK s, l, d : Backed(st, R, m, hit, x, i, s, l, d)
    BY <1>1, ReturningIs
  <1>3. /\ Served(st, R, s, l, d) /\ Seen(st, x, i, s, l, d)
        /\ Guarded(st, m, hit, i, s, l, d) /\ Confined(st, m, s, l, d)
    BY <1>2 DEF Backed
  <1>4. SlotOf(x.ptr) = s
    BY <1>1, <1>2, ReturningIs
  <1>5. /\ Jittered(LayoutsFor(st, l)[i])
        /\ GuardsOf(st, i, s, l, d) = {<<x.ptr - 1, Header(x.ptr, d)>>}
        /\ m[x.ptr - 1] = Header(x.ptr, d)
    <2>1. HeaderOf(st, m, hit, x, i, s, l, d)
      BY <1>2, JitterHeader DEF Jittered
    <2>2. m[x.ptr - 1] # Junk
      BY Values
    <2> QED BY <2>1, <2>2 DEF HeaderOf
  <1>6. Guarded(st, m, hit, i + 1, s, l, d)
    <2>1. \A g \in GuardsOf(st, i, s, l, d) : m[g[1]] # Junk
      BY <1>5, Values
    <2>2. \A j : j \in i..Len(st) <=> j = i \/ j \in (i + 1)..Len(st)
      OBVIOUS
    <2>3. \A c : <<c, Canary>> \notin GuardsOf(st, i, s, l, d)
      BY <1>5, Values
    <2>4. \A c \in SlotCells(s) : m[c] = Canary =>
            \E j \in (i + 1)..Len(st) : <<c, Canary>> \in GuardsOf(st, j, s, l, d)
      BY <1>3, <2>2, <2>3 DEF Guarded
    <2> QED BY <1>3, <2>1, <2>4, OnlyBelow DEF Guarded
  <1>7. Seen(st, z, i + 1, s, l, d)
    <2>1. LayerStep(st, s, l, d, i)
      BY LayerSteps, <1>3
    <2> DEFINE p == PointersFor(st, s, l, d)
               y == LayoutsFor(st, l)
               o == Offset(st[i], y[i], d)
    <2>2. p[i] = p[i + 1] + o /\ o = Line + d /\ y[i + 1] = InnerLayout(st[i], y[i])
      BY <1>5, <2>1, Zenon DEF LayerStep
    <2>3. p[i + 1] \in Nat
      BY <1>1, <1>3, PointersTyped
    <2>4. x.ptr = p[i] /\ x.size = y[i].size
      BY <1>3 DEF Seen
    <2>5. m[x.ptr - 1][3] = d /\ d \in Nat
      <3>1. d \in Nat
        BY <1>3, DisplacementBounded DEF Served
      <3> QED BY <1>5, <3>1 DEF Header
    <2>6. y[i + 1].size = x.size + JitterPrefix /\ y[i + 1].align = Line
      <3>1. y[i + 1] = JitterLayout(y[i])
        BY <2>2 DEF InnerLayout
      <3>2. Jittered(y[i])
        BY <1>5
      <3> HIDE DEF y
      <3> QED BY <2>4, <3>1, <3>2 DEF JitterLayout
    <2> HIDE DEF p, y, o
    <2>7. z.ptr = p[i + 1]
      BY <2>2, <2>3, <2>4, <2>5, Constants
    <2> QED BY <2>6, <2>7 DEF Seen, p, y
  <1>8. Backed(st, R, m, hit, z, i + 1, s, l, d)
    BY <1>3, <1>6, <1>7 DEF Backed
  <1>9. Returning(st, R, m, hit, z, i + 1) /\ SlotOf(z.ptr) = SlotOf(x.ptr)
    BY <1>1, <1>4, <1>8, ReturningIs
  <1> QED BY <1>9 DEF Handed

(* A header that is not valid was overwritten. *)
LEMMA JitterAlarm ==
  ASSUME NEW st \in Seq(Layers), NEW R \in SUBSET Lay, NEW i \in 1..Len(st),
         NEW m, NEW hit, NEW x, Returning(st, R, m, hit, x, i), st[i] = "jitter",
         Jittered([size |-> x.size, align |-> x.align]),
         ~(/\ m[x.ptr - 1][1] = "header" /\ m[x.ptr - 1][2] = x.ptr
           /\ m[x.ptr - 1][3] <= (Ways - 1) * Line)
  PROVE  SlotOf(x.ptr) \in hit
  <1>1. i \in 1..(Len(st) + 1)
    OBVIOUS
  <1>2. PICK s, l, d : Backed(st, R, m, hit, x, i, s, l, d)
    BY <1>1, ReturningIs
  <1>3. SlotOf(x.ptr) = s
    BY <1>1, <1>2, ReturningIs
  <1>4. HeaderOf(st, m, hit, x, i, s, l, d)
    BY <1>2, JitterHeader DEF Jittered
  <1>5. d <= (Ways - 1) * Line
    BY <1>2, DisplacementBounded DEF Backed, Served
  <1>6. /\ Header(x.ptr, d)[1] = "header" /\ Header(x.ptr, d)[2] = x.ptr
        /\ Header(x.ptr, d)[3] = d
    BY DEF Header
  <1> QED BY <1>3, <1>4, <1>5, <1>6 DEF HeaderOf

(* What reaches the bottom is a whole slot, with no guard left in it. *)
AtBottom(m, hit, x, s) ==
  /\ s = SlotOf(x.ptr) /\ x.ptr = s * Stride /\ s \in AllSlots /\ s \notin hit
  /\ \A c \in SlotCells(s) : m[c] # Canary
  /\ x.ptr \in SlotCells(s)

LEMMA BottomIs ==
  ASSUME NEW st \in Seq(Layers), NEW R \in SUBSET Lay, NEW m, NEW hit, NEW x,
         Returning(st, R, m, hit, x, Len(st) + 1)
  PROVE  AtBottom(m, hit, x, SlotOf(x.ptr))
  <1>1. Len(st) + 1 \in 1..(Len(st) + 1) /\ (Len(st) + 1)..Len(st) = {}
    OBVIOUS
  <1>2. PICK s, l, d : Backed(st, R, m, hit, x, Len(st) + 1, s, l, d)
    BY <1>1, ReturningIs
  <1>3. Served(st, R, s, l, d) /\ Seen(st, x, Len(st) + 1, s, l, d)
    BY <1>2 DEF Backed
  <1>4. SlotOf(x.ptr) = s /\ s \in AllSlots /\ x.ptr \in SlotCells(s)
    BY <1>1, <1>3, SeenSlot
  <1>5. x.ptr = s * Stride
    BY <1>3, PointersDefined DEF Seen
  <1>6. s \notin hit /\ \A c \in SlotCells(s) : m[c] # Canary
    BY <1>1, <1>2 DEF Backed, Guarded
  <1> QED BY <1>4, <1>5, <1>6 DEF AtBottom

-----------------------------------------------------------------------------
(* A write over a guard, and a block that is made or given up.             *)

LEMMA Struck ==
  ASSUME NEW st \in Seq(Layers), NEW R \in SUBSET Lay, NEW s, NEW l, NEW d,
         Served(st, R, s, l, d), NEW k \in 1..(Len(st) + 1),
         NEW m, NEW n, NEW hit, NEW hit2, Guarded(st, m, hit, k, s, l, d), s \in hit2,
         NEW j \in k..Len(st), NEW g \in GuardsOf(st, j, s, l, d),
         n = Fill(m, {g[1]}, Junk)
  PROVE  Guarded(st, n, hit2, k, s, l, d)
  <1>1. \A i \in k..Len(st) : i \in 1..Len(st)
    OBVIOUS
  <1>2. \A c \in Cells : (c = g[1] => n[c] = Junk) /\ (c # g[1] => n[c] = m[c])
    BY FillAt
  <1>3. \A i \in k..Len(st) : \A h \in GuardsOf(st, i, s, l, d) : h[1] \in Cells
    BY <1>1, GuardCellsIn
  <1>4. \A i \in k..Len(st) : \A h \in GuardsOf(st, i, s, l, d) :
          n[h[1]] = h[2] \/ (n[h[1]] = Junk /\ s \in hit2)
    BY <1>2, <1>3 DEF Guarded
  <1>5. n[g[1]] = Junk
    BY <1>2, <1>3
  <1>6. \A c \in SlotCells(s) :
          n[c] = Canary => \E i \in k..Len(st) : <<c, Canary>> \in GuardsOf(st, i, s, l, d)
    <2> SUFFICES ASSUME NEW c \in SlotCells(s), n[c] = Canary
                 PROVE  \E i \in k..Len(st) : <<c, Canary>> \in GuardsOf(st, i, s, l, d)
      OBVIOUS
    <2>1. c \in Cells
      BY SlotIn DEF Served
    <2>2. m[c] = Canary
      BY <1>2, <2>1, Values
    <2> QED BY <2>2 DEF Guarded
  <1> QED BY <1>4, <1>5, <1>6 DEF Guarded

(* A write of junk over one cell of slot s. *)
LEMMA StruckCell ==
  ASSUME NEW s \in AllSlots, NEW c \in SlotCells(s), NEW m
  PROVE  LET n == Fill(m, {c}, Junk)
         IN /\ \A e \in Cells : SlotOf(e) # s => n[e] = m[e]
            /\ \A e \in Cells : Secret(n, e) => n[e] = m[e]
            /\ \A e \in Cells : e # c => n[e] = m[e]
  <1> DEFINE n == Fill(m, {c}, Junk)
  <1>1. c \in Cells /\ SlotOf(c) = s
    BY SlotIn
  <1>2. \A e \in Cells : (e = c => n[e] = Junk) /\ (e # c => n[e] = m[e])
    BY FillAt
  <1> HIDE DEF n
  <1>3. \A e \in Cells : Secret(n, e) => n[e] = m[e]
    BY <1>2, Values DEF Secret
  <1>4. \A e \in Cells : SlotOf(e) # s => n[e] = m[e]
    BY <1>1, <1>2
  <1> QED BY <1>2, <1>3, <1>4 DEF n

LEMMA StruckWhileReturning ==
  ASSUME NEW st \in Seq(Layers), NEW R \in SUBSET Lay, NEW k \in 1..(Len(st) + 1),
         NEW m, NEW n, NEW hit, NEW hit2, NEW x, Returning(st, R, m, hit, x, k),
         NEW c \in SlotCells(SlotOf(x.ptr)), m[c] = Canary, n = Fill(m, {c}, Junk),
         SlotOf(x.ptr) \in hit2
  PROVE  Returning(st, R, n, hit2, x, k) /\ SlotOf(x.ptr) \in AllSlots
  <1>1. PICK s, l, d : Backed(st, R, m, hit, x, k, s, l, d)
    BY ReturningIs
  <1>2. SlotOf(x.ptr) = s /\ s \in AllSlots
    BY <1>1, ReturningIs
  <1>3. Served(st, R, s, l, d) /\ Guarded(st, m, hit, k, s, l, d) /\ Confined(st, m, s, l, d)
    BY <1>1 DEF Backed
  <1>4. PICK j \in k..Len(st) : <<c, Canary>> \in GuardsOf(st, j, s, l, d)
    BY <1>2, <1>3 DEF Guarded
  <1>5. PICK g \in GuardsOf(st, j, s, l, d) : g[1] = c
    <2>1. <<c, Canary>>[1] = c
      OBVIOUS
    <2> QED BY <1>4, <2>1
  <1>6. Guarded(st, n, hit2, k, s, l, d)
    BY <1>2, <1>3, <1>5, Struck
  <1>7. Confined(st, n, s, l, d)
    <2>1. \A e \in Cells : Secret(n, e) => n[e] = m[e]
      BY <1>2, StruckCell
    <2>2. \A e \in SlotCells(s) : e \in Cells
      BY <1>2, SlotIn
    <2> QED BY <1>3, <2>1, <2>2 DEF Confined, Secret
  <1>8. Backed(st, R, n, hit2, x, k, s, l, d)
    BY <1>1, <1>6, <1>7 DEF Backed
  <1> QED BY <1>2, <1>8, ReturningIs

LEMMA StruckWhileLive ==
  ASSUME NEW st \in Seq(Layers), NEW R \in SUBSET Lay,
         NEW m, NEW n, NEW hit, NEW hit2, NEW b, Intact(st, R, m, hit, b),
         NEW c \in GuardCells(st, b.slot, LayoutOf(b), b.disp), n = Fill(m, {c}, Junk),
         b.slot \in hit2
  PROVE  Intact(st, R, n, hit2, b) /\ b.slot \in AllSlots /\ c \in SlotCells(b.slot)
  <1>1. PICK s, l, d : s = b.slot /\ l = LayoutOf(b) /\ d = b.disp
    OBVIOUS
  <1>2. /\ Served(st, R, s, l, d) /\ Guarded(st, m, hit, 1, s, l, d)
        /\ Confined(st, m, s, l, d) /\ b.ptr = PointersFor(st, s, l, d)[1]
        /\ b.known \in 0..b.size
    BY <1>1 DEF Intact
  <1>3. s \in AllSlots /\ l \in Lay
    BY <1>2 DEF Served
  <1>4. l.size = b.size
    BY <1>1 DEF LayoutOf
  <1>5. PICK j \in DOMAIN st : \E g \in GuardsOf(st, j, s, l, d) : g[1] = c
    BY <1>1 DEF GuardCells, Guards
  <1>6. PICK g \in GuardsOf(st, j, s, l, d) : g[1] = c
    BY <1>5
  <1>7. j \in 1..Len(st) /\ 1 \in 1..(Len(st) + 1)
    BY <1>5
  <1>8. Guarded(st, n, hit2, 1, s, l, d)
    BY <1>1, <1>2, <1>6, <1>7, Struck
  <1>9. c \in SlotCells(s)
    BY <1>2, <1>6, <1>7, GuardCellsIn
  <1>10. /\ \A e \in Cells : Secret(n, e) => n[e] = m[e]
         /\ \A e \in Cells : e # c => n[e] = m[e]
    BY <1>3, <1>9, StruckCell
  <1>11. \A e \in SlotCells(s) : e \in Cells
    BY <1>3, SlotIn
  <1>12. /\ DataSpan(st, s, l, d) \subseteq SlotCells(s)
         /\ Span(b.ptr, b.size) \subseteq DataSpan(st, s, l, d)
         /\ c \notin DataSpan(st, s, l, d)
    BY <1>2, <1>4, <1>6, <1>7, DataSpanFree
  <1>13. \A e \in Span(b.ptr, b.size) : n[e] = m[e]
    BY <1>10, <1>11, <1>12
  <1>14. Span(b.ptr, b.known) \subseteq Span(b.ptr, b.size)
    <2>1. b.size \in Nat
      BY <1>3, <1>4 DEF Lay
    <2>2. b.ptr \in Nat
      BY <1>2, <1>7, PointersTyped
    <2> QED BY <1>2, <2>1, <2>2, SpanMember
  <1>15. Confined(st, n, s, l, d)
    BY <1>2, <1>10, <1>11 DEF Confined, Secret
  <1>16. Scrubs(st) => \A e \in SlotCells(s) : Secret(n, e) => n[e] = Data(b.id)
    BY <1>1, <1>10, <1>11 DEF Intact, Secret
  <1>17. \A e \in Span(b.ptr, b.known) : n[e] = Data(b.id)
    BY <1>13, <1>14 DEF Intact
  <1>18. b.zeroed => \A e \in Span(b.ptr, b.size) : n[e] = Zero
    BY <1>13 DEF Intact
  <1>19. Intact(st, R, n, hit2, b)
    BY <1>1, <1>2, <1>8, <1>15, <1>16, <1>17, <1>18 DEF Intact
  <1> QED BY <1>1, <1>3, <1>9, <1>19

(* What a caller gives back is its block as the outermost layer sees it. *)
LEMMA GivenBack ==
  ASSUME NEW st \in Seq(Layers), NEW R \in SUBSET Lay,
         NEW m, NEW hit, NEW b, Intact(st, R, m, hit, b), NEW x, Passes(x, b)
  PROVE  Returning(st, R, m, hit, x, 1) /\ SlotOf(x.ptr) = b.slot
  <1>1. PICK s, l, d : s = b.slot /\ l = LayoutOf(b) /\ d = b.disp
    OBVIOUS
  <1>2. /\ Served(st, R, s, l, d) /\ Guarded(st, m, hit, 1, s, l, d)
        /\ Confined(st, m, s, l, d) /\ b.ptr = PointersFor(st, s, l, d)[1]
    BY <1>1 DEF Intact
  <1>3. l.size = b.size /\ l.align = b.align
    BY <1>1 DEF LayoutOf
  <1>4. LayoutsFor(st, l)[1] = l /\ 1 \in 1..(Len(st) + 1)
    BY LayoutsDefined
  <1>5. Seen(st, x, 1, s, l, d)
    BY <1>2, <1>3, <1>4 DEF Seen, Passes
  <1>6. Backed(st, R, m, hit, x, 1, s, l, d)
    BY <1>2, <1>5 DEF Backed
  <1> QED BY <1>1, <1>4, <1>6, ReturningIs

Fresh(st, m, n, hit, s, l, d) ==
  /\ Guarded(st, n, hit, 1, s, l, d)
  /\ \A c \in Cells : SlotOf(c) # s => n[c] = m[c]
  /\ \A c \in DataSpan(st, s, l, d) : n[c] = m[c]
  /\ \A c \in Cells : Secret(n, c) => n[c] = m[c]

LEMMA FreshGuards ==
  ASSUME NEW st \in Seq(Layers), NEW R \in SUBSET Lay, NEW s, NEW l, NEW d,
         Served(st, R, s, l, d), NEW m, NEW n, NEW hit, s \notin hit,
         \A c \in SlotCells(s) : m[c] # Canary, n = WithGuards(m, Guards(st, s, l, d))
  PROVE  Fresh(st, m, n, hit, s, l, d)
  <1>1. s \in AllSlots
    BY DEF Served
  <1>2. \A i \in 1..Len(st) : \A g \in GuardsOf(st, i, s, l, d) :
          g[1] \in SlotCells(s) /\ g[1] \in Cells
    BY GuardCellsIn
  <1>3. \A i \in 1..Len(st) : \A g \in GuardsOf(st, i, s, l, d) : n[g[1]] = g[2]
    <2> SUFFICES ASSUME NEW i \in 1..Len(st), NEW g \in GuardsOf(st, i, s, l, d)
                 PROVE  n[g[1]] = g[2]
      OBVIOUS
    <2>1. PICK c \in Cells : g[1] = c
      BY <1>2
    <2>2. \A j \in 1..Len(st) : \A h \in GuardsOf(st, j, s, l, d) : h[1] = c => n[c] = h[2]
      BY WithGuardsAt
    <2> QED BY <2>1, <2>2
  <1>4. \A c \in Cells :
          \/ n[c] = m[c]
          \/ \E i \in 1..Len(st) : \E g \in GuardsOf(st, i, s, l, d) : g[1] = c /\ n[c] = g[2]
    BY <1>3, WithGuardsAt
  <1>5. \A i \in 1..Len(st) : \A g \in GuardsOf(st, i, s, l, d) :
          g = <<g[1], g[2]>> /\ (g[2] = Canary \/ \E x : g[2] = Header(x, d))
    BY GuardsAre DEF IsGuard
  <1>6. \A c \in SlotCells(s) :
          n[c] = Canary => \E i \in 1..Len(st) : <<c, Canary>> \in GuardsOf(st, i, s, l, d)
    <2> SUFFICES ASSUME NEW c \in SlotCells(s), n[c] = Canary
                 PROVE  \E i \in 1..Len(st) : <<c, Canary>> \in GuardsOf(st, i, s, l, d)
      OBVIOUS
    <2>1. c \in Cells
      BY <1>1, SlotIn
    <2>2. PICK i \in 1..Len(st) : \E g \in GuardsOf(st, i, s, l, d) : g[1] = c /\ n[c] = g[2]
      BY <1>4, <2>1
    <2> QED BY <1>5, <2>2
  <1>7. Guarded(st, n, hit, 1, s, l, d)
    BY <1>3, <1>6 DEF Guarded
  <1>8. \A c \in Cells : Secret(n, c) => n[c] = m[c]
    <2> SUFFICES ASSUME NEW c \in Cells, Secret(n, c), n[c] # m[c] PROVE FALSE
      OBVIOUS
    <2>1. PICK i \in 1..Len(st) : \E g \in GuardsOf(st, i, s, l, d) : g[1] = c /\ n[c] = g[2]
      BY <1>4
    <2>2. n[c] = Canary \/ \E x : n[c] = Header(x, d)
      BY <1>5, <2>1
    <2> QED BY <2>2, Values DEF Secret
  <1>9. ASSUME NEW c \in Cells, SlotOf(c) # s PROVE n[c] = m[c]
    <2>1. \A e \in SlotCells(s) : SlotOf(e) = s
      BY <1>1, SlotIn
    <2> QED BY <1>2, <1>4, <1>9, <2>1
  <1>10. ASSUME NEW c \in DataSpan(st, s, l, d) PROVE n[c] = m[c]
    <2>1. /\ DataSpan(st, s, l, d) \subseteq SlotCells(s)
          /\ \A j \in 1..Len(st) : \A g \in GuardsOf(st, j, s, l, d) :
               g[1] \notin DataSpan(st, s, l, d)
      BY DataSpanFree
    <2>2. c \in Cells
      BY <1>1, <1>10, <2>1, SlotIn
    <2> QED BY <1>4, <1>10, <2>1, <2>2
  <1> QED BY <1>7, <1>8, <1>9, <1>10 DEF Fresh

(* A new block b in a slot that was free: v is what the caller, or the     *)
(* zeroed allocate, put in the cells S of it.                              *)
Opened(st, R, m, n, hit, b, S, v) ==
  /\ v \in {Zero, Data(b.id)}
  /\ Served(st, R, b.slot, LayoutOf(b), b.disp)
  /\ b.ptr = PointersFor(st, b.slot, LayoutOf(b), b.disp)[1] /\ b.known \in 0..b.size
  /\ b.slot \notin hit /\ \A c \in SlotCells(b.slot) : m[c] # Canary
  /\ Scrubs(st) => Clean(m, b.slot)
  /\ S \subseteq DataSpan(st, b.slot, LayoutOf(b), b.disp)
  /\ \/ b.known = 0
     \/ v = Data(b.id) /\ Span(b.ptr, b.known) \subseteq S
  /\ b.zeroed => v = Zero /\ Span(b.ptr, b.size) \subseteq S
  /\ n = WithGuards(Fill(m, S, v), Guards(st, b.slot, LayoutOf(b), b.disp))

LEMMA FreshIntact ==
  ASSUME NEW st \in Seq(Layers), NEW R \in SUBSET Lay, NEW b,
         NEW m, NEW n, NEW hit, NEW S, NEW v, Opened(st, R, m, n, hit, b, S, v)
  PROVE  /\ Intact(st, R, n, hit, b)
         /\ \A c \in Cells : SlotOf(c) # b.slot => n[c] = m[c]
  <1> USE DEF Opened
  <1>1. PICK s, l, d : s = b.slot /\ l = LayoutOf(b) /\ d = b.disp
    OBVIOUS
  <1>2. PICK f : f = Fill(m, S, v)
    OBVIOUS
  <1>3. Served(st, R, s, l, d) /\ s \in AllSlots /\ l \in Lay
    BY <1>1 DEF Served
  <1>4. l.size = b.size /\ b.ptr = PointersFor(st, s, l, d)[1]
    BY <1>1 DEF LayoutOf
  <1>5. /\ DataSpan(st, s, l, d) \subseteq SlotCells(s)
        /\ Span(b.ptr, b.size) \subseteq DataSpan(st, s, l, d)
    BY <1>3, <1>4, DataSpanFree
  <1>6. \A c \in SlotCells(s) : c \in Cells /\ SlotOf(c) = s
    BY <1>3, SlotIn
  <1>7. \A c \in Cells : (c \in S => f[c] = v) /\ (c \notin S => f[c] = m[c])
    BY <1>2, FillAt
  <1>8. S \subseteq DataSpan(st, s, l, d)
    BY <1>1
  <1>9. v # Canary /\ (v[1] = "data" => v = Data(b.id))
    BY Values
  <1>10. \A c \in SlotCells(s) : f[c] # Canary
    BY <1>1, <1>6, <1>7, <1>9
  <1>11. /\ Guarded(st, n, hit, 1, s, l, d)
         /\ \A c \in Cells : SlotOf(c) # s => n[c] = f[c]
         /\ \A c \in DataSpan(st, s, l, d) : n[c] = f[c]
         /\ \A c \in Cells : Secret(n, c) => n[c] = f[c]
    <2>1. n = WithGuards(f, Guards(st, s, l, d)) /\ s \notin hit
      BY <1>1, <1>2
    <2>2. Fresh(st, f, n, hit, s, l, d)
      BY <1>3, <1>10, <2>1, FreshGuards
    <2> QED BY <2>2 DEF Fresh
  <1>12. ASSUME Scrubs(st), NEW c \in SlotCells(s), Secret(n, c)
         PROVE  c \in DataSpan(st, s, l, d) /\ n[c] = Data(b.id)
    <2>1. c \in Cells /\ n[c] = f[c] /\ f[c][1] = "data"
      BY <1>6, <1>11, <1>12 DEF Secret
    <2>2. m[c][1] # "data"
      BY <1>1, <1>12 DEF Clean, Secret
    <2>3. c \in S /\ f[c] = v
      BY <1>7, <2>1, <2>2
    <2> QED BY <1>8, <1>9, <2>1, <2>3
  <1>13. Confined(st, n, s, l, d)
    BY <1>12 DEF Confined
  <1>14. \A c \in S : n[c] = v
    BY <1>5, <1>6, <1>7, <1>8, <1>11
  <1>15. \A c \in Span(b.ptr, b.known) : n[c] = Data(b.id)
    <2>1. CASE b.known = 0
      <3>1. b.ptr \in Nat
        <4>1. 1 \in 1..(Len(st) + 1)
          OBVIOUS
        <4> QED BY <1>3, <1>4, <4>1, PointersTyped
      <3>2. Span(b.ptr, b.known) = {}
        BY <2>1, <3>1 DEF Span
      <3> QED BY <3>2
    <2>2. CASE v = Data(b.id) /\ Span(b.ptr, b.known) \subseteq S
      BY <1>14, <2>2
    <2> QED BY <2>1, <2>2
  <1>16. b.zeroed => \A c \in Span(b.ptr, b.size) : n[c] = Zero
    BY <1>14
  <1>17. Intact(st, R, n, hit, b)
    BY <1>1, <1>3, <1>11, <1>12, <1>13, <1>15, <1>16 DEF Intact
  <1>18. ASSUME NEW c \in Cells, SlotOf(c) # s PROVE n[c] = m[c]
    <2>1. c \notin S
      BY <1>5, <1>6, <1>8, <1>18
    <2> QED BY <1>7, <1>11, <1>18, <2>1
  <1> QED BY <1>1, <1>17, <1>18

-----------------------------------------------------------------------------
(* The invariant, over the variables.                                      *)

LEMMA ConfIs ==
  ASSUME Shapes
  PROVE  /\ stack \in Seq(Layers) /\ Requests(conf.requests)
         /\ conf.requests \in SUBSET Lay
         /\ Epochs \in Nat /\ Epochs > 0 /\ CountMod \in Nat /\ CountMod > 0
         /\ Depth \in Nat /\ Depth = Len(stack) /\ DOMAIN stack = 1..Depth
         /\ \A i, j \in 1..Depth : stack[i] = stack[j] => i = j
  <1>1. conf \in Stacks
    BY DEF Shapes
  <1>2. /\ conf.layers \in Seq(Layers) /\ conf.epochs \in Nat \ {0}
        /\ \A i, j \in DOMAIN conf.layers : conf.layers[i] = conf.layers[j] => i = j
        /\ conf.requests \subseteq [size : Nat \ {0}, align : Nat \ {0}]
        /\ \A l \in conf.requests : \A n \in {Line, Stride} : l.align <= n => n % l.align = 0
        /\ CountMod \in Nat \ {0}
    BY <1>1, HardenedAssumption
  <1>3. Requests(conf.requests)
    <2>1. conf.requests \in SUBSET Lay
      BY <1>2 DEF Lay
    <2>2. ASSUME NEW l \in conf.requests, NEW n \in {Line, Stride}, l.align <= n
          PROVE  Multiple(n, l.align)
      <3>1. l.align \in Nat /\ l.align > 0 /\ n \in Nat
        BY <2>1, Constants DEF Lay
      <3>2. n % l.align = 0
        BY <1>2, <2>2
      <3> QED BY <3>1, <3>2, MultipleMod
    <2> QED BY <2>1, <2>2 DEF Requests, Divides
  <1>4. Len(conf.layers) \in Nat /\ DOMAIN conf.layers = 1..Len(conf.layers)
    BY <1>2
  <1> QED BY <1>2, <1>3, <1>4 DEF stack, Epochs, Depth, Requests

LEMMA ScrubberIs ==
  ASSUME NEW st \in Seq(Layers), Scrubs(st)
  PROVE  ScrubAt(st) \in 1..Len(st) /\ st[ScrubAt(st)] \in {"poison", "zeroize"}
  <1>1. \E i \in 1..Len(st) : st[i] \in {"poison", "zeroize"}
    BY DEF Scrubs, HasLayer
  <1> QED BY <1>1 DEF ScrubAt

LEMMA QuarantineAt ==
  ASSUME Shapes
  PROVE  /\ HasLayer(stack, "quarantine") =>
              /\ LayerAt(stack, "quarantine") \in 1..Depth
              /\ stack[LayerAt(stack, "quarantine")] = "quarantine"
         /\ \A i \in 1..Depth : stack[i] = "quarantine" =>
              HasLayer(stack, "quarantine") /\ LayerAt(stack, "quarantine") = i
  <1>1. HasLayer(stack, "quarantine") =>
          /\ LayerAt(stack, "quarantine") \in 1..Depth
          /\ stack[LayerAt(stack, "quarantine")] = "quarantine"
    BY ConfIs DEF HasLayer, LayerAt
  <1>2. \A i \in 1..Depth : stack[i] = "quarantine" => HasLayer(stack, "quarantine")
    BY ConfIs DEF HasLayer
  <1> QED BY <1>1, <1>2, ConfIs

(* Two memories, with their struck slots, that differ in slot s0 only. *)
Apart(m, n, hit, hit2, s0) ==
  /\ \A c \in Cells : SlotOf(c) # s0 => n[c] = m[c]
  /\ \A s : s # s0 => (s \in hit2 <=> s \in hit)

LEMMA Elsewhere ==
  ASSUME NEW st \in Seq(Layers), NEW R \in SUBSET Lay,
         NEW m, NEW n, NEW hit, NEW hit2, NEW s0, Apart(m, n, hit, hit2, s0)
  PROVE  /\ \A b : Intact(st, R, m, hit, b) /\ b.slot # s0 => Intact(st, R, n, hit2, b)
         /\ \A k \in 1..(Len(st) + 1) : \A x :
              Waits(st, R, m, hit, x, k) /\ SlotOf(x.ptr) # s0 => Waits(st, R, n, hit2, x, k)
         /\ \A s \in AllSlots : Blank(st, m, hit, s) /\ s # s0 => Blank(st, n, hit2, s)
  <1>1. \A s \in AllSlots : s # s0 => \A c \in SlotCells(s) : n[c] = m[c]
    BY SlotIn DEF Apart
  <1>2. \A s : s # s0 => (s \in hit2 <=> s \in hit)
    BY DEF Apart
  <1>3. ASSUME NEW b, Intact(st, R, m, hit, b), b.slot # s0
        PROVE  Intact(st, R, n, hit2, b)
    <2>1. b.slot \in AllSlots
      BY <1>3 DEF Intact, Served
    <2>2. \A c \in SlotCells(b.slot) : n[c] = m[c]
      BY <1>1, <1>3, <2>1
    <2>3. b.slot \in hit2 <=> b.slot \in hit
      BY <1>2, <1>3
    <2> QED BY <1>3, <2>2, <2>3, IntactFrame
  <1>4. ASSUME NEW s \in AllSlots, s # s0, Clean(m, s) PROVE Clean(n, s)
    BY <1>1, <1>4 DEF Clean, Secret
  <1>5. ASSUME NEW k \in 1..(Len(st) + 1), NEW x, Waits(st, R, m, hit, x, k),
               SlotOf(x.ptr) # s0
        PROVE  Waits(st, R, n, hit2, x, k)
    <2>1. Returning(st, R, m, hit, x, k)
      BY <1>5 DEF Waits
    <2>2. SlotOf(x.ptr) \in AllSlots
      <3>1. PICK s, l, d : Backed(st, R, m, hit, x, k, s, l, d)
        BY <2>1, ReturningIs
      <3> QED BY <3>1, ReturningIs
    <2>3. \A c \in SlotCells(SlotOf(x.ptr)) : n[c] = m[c]
      BY <1>1, <1>5, <2>2
    <2>4. SlotOf(x.ptr) \in hit2 <=> SlotOf(x.ptr) \in hit
      BY <1>2, <1>5
    <2>5. Returning(st, R, n, hit2, x, k)
      BY <2>1, <2>3, <2>4, ReturningFrame
    <2> QED BY <1>4, <1>5, <2>2, <2>5 DEF Waits
  <1>6. ASSUME NEW s \in AllSlots, s # s0, Blank(st, m, hit, s) PROVE Blank(st, n, hit2, s)
    BY <1>1, <1>2, <1>4, <1>6 DEF Blank
  <1> QED BY <1>3, <1>5, <1>6

(* What is left to show of a step that changes slot s0 only: the blocks in *)
(* that slot, and those that change their place.                           *)
LEMMA StepKeeps ==
  ASSUME Shapes, Shapes', LiveIntact, RingKept, FreeClean,
         Waiting' # {} => HasLayer(stack, "quarantine"),
         conf' = conf, NEW s0, Apart(mem, mem', hist.hit, hist'.hit, s0),
         \A b \in live' : b.slot = s0 \/ b \notin live =>
            Intact(stack, conf.requests, mem', hist'.hit, b),
         \A i \in Waiting' :
            i \notin Waiting \/ ring'[i] # ring[i] \/ SlotOf(ring'[i].ptr) = s0 =>
              Waits(stack, conf.requests, mem', hist'.hit, ring'[i],
                    LayerAt(stack, "quarantine")),
         call'.at > 0 => Waits(stack, conf.requests, mem', hist'.hit, call', call'.at),
         \A i \in DOMAIN free' : free'[i] = s0 \/ free'[i] \notin FreeSlots =>
            Blank(stack, mem', hist'.hit, free'[i])
  PROVE  LiveIntact' /\ RingKept' /\ CallKept' /\ FreeClean'
  <1>1. PICK st, R, m, n, hit, hit2, q :
          /\ st = stack /\ R = conf.requests /\ m = mem /\ n = mem'
          /\ hit = hist.hit /\ hit2 = hist'.hit /\ q = LayerAt(stack, "quarantine")
    OBVIOUS
  <1>2. st = stack' /\ R = conf'.requests /\ q = LayerAt(stack, "quarantine")'
    BY <1>1 DEF stack
  <1>3. st \in Seq(Layers) /\ R \in SUBSET Lay
    BY <1>1, ConfIs
  <1>4. Apart(m, n, hit, hit2, s0)
    BY <1>1
  <1>5. ASSUME NEW b \in live' PROVE Intact(st, R, n, hit2, b)
    <2>1. CASE b \in live /\ b.slot # s0
      <3>1. Intact(st, R, m, hit, b)
        BY <1>1, <2>1 DEF LiveIntact
      <3> QED BY <1>3, <1>4, <2>1, <3>1, Elsewhere
    <2> QED BY <1>1, <2>1
  <1>6. ASSUME NEW i \in Waiting' PROVE Waits(st, R, n, hit2, ring'[i], q)
    <2>1. CASE i \in Waiting /\ ring'[i] = ring[i] /\ SlotOf(ring'[i].ptr) # s0
      <3>1. PICK x : x = ring[i]
        OBVIOUS
      <3>2. Waits(st, R, m, hit, x, q)
        BY <1>1, <2>1, <3>1 DEF RingKept
      <3>3. q \in 1..(Len(st) + 1)
        BY <1>1, <1>6, QuarantineAt, ConfIs
      <3>4. SlotOf(x.ptr) # s0
        BY <2>1, <3>1
      <3>5. Waits(st, R, n, hit2, x, q)
        BY <1>3, <1>4, <3>2, <3>3, <3>4, Elsewhere
      <3> QED BY <2>1, <3>1, <3>5
    <2> QED BY <1>1, <2>1
  <1>7. ASSUME NEW i \in DOMAIN free' PROVE Blank(st, n, hit2, free'[i])
    <2>1. CASE free'[i] # s0 /\ free'[i] \in FreeSlots
      <3>1. PICK j \in DOMAIN free : free'[i] = free[j]
        BY <2>1 DEF FreeSlots
      <3>2. PICK s : s = free[j]
        OBVIOUS
      <3>3. s \in AllSlots
        <4>1. free \in Seq(AllSlots)
          BY DEF Shapes
        <4> QED BY <3>1, <3>2, <4>1
      <3>4. Blank(st, m, hit, s)
        BY <1>1, <3>1, <3>2 DEF FreeClean
      <3>5. s # s0
        BY <2>1, <3>1, <3>2
      <3>6. Blank(st, n, hit2, s)
        BY <1>3, <1>4, <3>3, <3>4, <3>5, Elsewhere
      <3> QED BY <3>1, <3>2, <3>6
    <2> QED BY <1>1, <2>1
  <1>8. LiveIntact'
    BY <1>1, <1>2, <1>5 DEF LiveIntact
  <1>9. RingKept'
    BY <1>1, <1>2, <1>6 DEF RingKept
  <1>10. CallKept'
    BY <1>1, <1>2 DEF CallKept
  <1>11. FreeClean'
    BY <1>1, <1>2, <1>7 DEF FreeClean
  <1> QED BY <1>8, <1>9, <1>10, <1>11

(* Entries that stay where they are keep their age. *)
LEMMA AgesKept ==
  ASSUME Ages, conf' = conf, count' = count, hist'.taken = hist.taken,
         hist'.delay = hist.delay,
         \A i \in Waiting' : i \in Waiting /\ ring'[i] = ring[i]
  PROVE  Ages'
  <1>1. Epochs' = Epochs
    BY DEF Epochs
  <1> QED BY <1>1 DEF Ages

(* Nothing but the call and memory changes. *)
LEMMA SamePlaces ==
  ASSUME OnePlace, ring' = ring, free' = free, live' = live, lost' = lost,
         CallSlots' = CallSlots
  PROVE  OnePlace' /\ Waiting' = Waiting
  <1>1. /\ Waiting' = Waiting /\ RingSlots' = RingSlots /\ FreeSlots' = FreeSlots
        /\ LiveSlots' = LiveSlots
    BY DEF Waiting, RingSlots, FreeSlots, LiveSlots
  <1> QED BY <1>1 DEF OnePlace

CallAt(i, p, z, a, r) == [at |-> i, ptr |-> p, size |-> z, align |-> a, drain |-> r]

LEMMA CallAtIs ==
  ASSUME NEW i, NEW p, NEW z, NEW a, NEW r
  PROVE  /\ CallAt(i, p, z, a, r).at = i /\ CallAt(i, p, z, a, r).drain = r
         /\ CallAt(i, p, z, a, r).ptr = p /\ CallAt(i, p, z, a, r).size = z
         /\ CallAt(i, p, z, a, r).align = a
BY DEF CallAt

LEMMA CallAtIn ==
  ASSUME NEW D \in Nat, NEW E \in Nat, NEW i \in 0..(D + 1), NEW r \in -1..E,
         NEW p \in Int, NEW z \in Int, NEW a \in Int
  PROVE  CallAt(i, p, z, a, r) \in Calls(D, E)
BY DEF CallAt, Calls

LEMMA NextCall ==
  ASSUME NEW D, NEW E, NEW c \in Calls(D, E), NEW p, NEW z, NEW a, NEW n,
         n = [c EXCEPT !.at = @ + 1, !.ptr = p, !.size = z, !.align = a]
  PROVE  n = CallAt(c.at + 1, p, z, a, c.drain)
  <1>1. c = [at |-> c.at, ptr |-> c.ptr, size |-> c.size, align |-> c.align, drain |-> c.drain]
    BY DEF Calls
  <1>2. PICK i, q, y, b, r : c = [at |-> i, ptr |-> q, size |-> y, align |-> b, drain |-> r]
    BY <1>1
  <1>3. n = [at |-> i + 1, ptr |-> p, size |-> z, align |-> a, drain |-> r]
    BY <1>2
  <1>4. c.at = i /\ c.drain = r
    BY <1>2
  <1> QED BY <1>3, <1>4 DEF CallAt

LEMMA IdleIs == Idle.at = 0 /\ Idle.drain = -1
BY DEF Idle

(* A layer passes the block in the call on to the next. *)
LEMMA Descended ==
  ASSUME IndInv, call.at \in 1..Depth,
         UNCHANGED <<conf, free, ring, count, live, lost, hist>>,
         NEW p \in Int, NEW z \in Int, NEW a \in Int,
         call' = CallAt(call.at + 1, p, z, a, call.drain),
         mem' = [c \in Cells |-> mem'[c]],
         SlotOf(p) = SlotOf(call.ptr),
         \A c \in Cells : SlotOf(c) # SlotOf(call.ptr) => mem'[c] = mem[c],
         Waits(stack, conf.requests, mem', hist.hit, call', call.at + 1)
  PROVE  IndInv'
  <1>1. /\ Shapes /\ OnePlace /\ Draining /\ LiveIntact /\ RingKept /\ CallKept
        /\ FreeClean /\ LostHit /\ Ages
    BY DEF IndInv
  <1>2. stack' = stack /\ Depth' = Depth /\ Epochs' = Epochs
    BY DEF stack, Depth, Epochs
  <1>3. /\ call \in Calls(Depth, Epochs) /\ Depth \in Nat /\ Epochs \in Nat
        /\ call.at \in 1..Depth
    BY <1>1, ConfIs DEF Shapes
  <1>4. /\ call'.at = call.at + 1 /\ call'.drain = call.drain /\ call'.ptr = p
        /\ call' \in Calls(Depth, Epochs)
    <2>1. call.at + 1 \in 0..(Depth + 1) /\ call.drain \in -1..Epochs
      BY <1>3 DEF Calls
    <2>2. call'.at = call.at + 1 /\ call'.drain = call.drain /\ call'.ptr = p
      BY CallAtIs
    <2>3. CallAt(call.at + 1, p, z, a, call.drain) \in Calls(Depth, Epochs)
      BY <1>3, <2>1, CallAtIn
    <2> QED BY <2>2, <2>3
  <1>5. Shapes'
    BY <1>1, <1>2, <1>4 DEF Shapes
  <1>6. CallSlots' = CallSlots
    BY <1>3, <1>4 DEF CallSlots
  <1>7. OnePlace' /\ Waiting' = Waiting
    BY <1>1, <1>6, SamePlaces
  <1>8. call # Idle /\ call' # Idle
    <2>1. call.at # 0 /\ call'.at # 0
      BY <1>3, <1>4
    <2> QED BY <2>1, IdleIs, Zenon
  <1>9. Draining'
    <2>1. LayerAt(stack, "quarantine") \in Int \/ ~HasLayer(stack, "quarantine")
      BY <1>1, QuarantineAt, ConfIs
    <2> QED BY <1>1, <1>2, <1>3, <1>4, <1>7, <1>8, <2>1 DEF Draining
  <1>10. Apart(mem, mem', hist.hit, hist'.hit, SlotOf(call.ptr))
    BY DEF Apart
  <1>11. CallSlots = {SlotOf(call.ptr)}
    BY <1>3 DEF CallSlots
  <1>12. \A b \in live : b.slot # SlotOf(call.ptr)
    BY <1>1, <1>11 DEF OnePlace, Parts, LiveSlots
  <1>13. \A i \in Waiting : SlotOf(ring[i].ptr) # SlotOf(call.ptr)
    BY <1>1, <1>11 DEF OnePlace, Parts, RingSlots
  <1>14. \A i \in DOMAIN free : free[i] # SlotOf(call.ptr) /\ free[i] \in FreeSlots
    BY <1>1, <1>11 DEF OnePlace, Parts, FreeSlots
  <1>15. LiveIntact' /\ RingKept' /\ CallKept' /\ FreeClean'
    <2>1. Waiting' # {} => HasLayer(stack, "quarantine")
      BY <1>1, <1>7 DEF Draining
    <2>2. Waits(stack, conf.requests, mem', hist'.hit, call', call'.at)
      BY <1>4
    <2>3. \A i \in Waiting' : /\ i \in Waiting /\ ring'[i] = ring[i]
                             /\ SlotOf(ring'[i].ptr) # SlotOf(call.ptr)
      BY <1>7, <1>13
    <2> QED BY <1>1, <1>5, <1>10, <1>12, <1>14, <2>1, <2>2, <2>3, StepKeeps
  <1>16. LostHit'
    BY <1>1 DEF LostHit
  <1>17. Ages'
    BY <1>1, <1>7, AgesKept
  <1> QED BY <1>5, <1>7, <1>9, <1>15, <1>16, <1>17 DEF IndInv

LEMMA DescendIs ==
  ASSUME Shapes, NEW p, NEW l, Descend(p, l)
  PROVE  call' = CallAt(call.at + 1, p, l.size, l.align, call.drain)
  <1>1. call \in Calls(Depth, Epochs)
    BY DEF Shapes
  <1>2. call' = [call EXCEPT !.at = @ + 1, !.ptr = p, !.size = l.size, !.align = l.align]
    BY DEF Descend
  <1>3. PICK z, a : z = l.size /\ a = l.align
    OBVIOUS
  <1>4. call' = [call EXCEPT !.at = @ + 1, !.ptr = p, !.size = z, !.align = a]
    BY <1>2, <1>3
  <1> QED BY <1>1, <1>3, <1>4, NextCall

LEMMA FillShape ==
  ASSUME NEW m, NEW n, NEW C, NEW v, n = Fill(m, C, v)
  PROVE  n = [c \in Cells |-> n[c]]
BY DEF Fill

(* The call in progress, as the lemmas on one layer take it. *)
LEMMA InCall ==
  ASSUME IndInv, call.at > 0
  PROVE  /\ Waits(stack, conf.requests, mem, hist.hit, call, call.at)
         /\ Returning(stack, conf.requests, mem, hist.hit, call, call.at)
         /\ call \in Calls(Depth, Epochs) /\ call.at \in 1..(Len(stack) + 1)
         /\ call.ptr \in Int /\ call.size \in Int /\ call.align \in Int
         /\ SlotOf(call.ptr) \in AllSlots
         /\ CallSlots = {SlotOf(call.ptr)}
  <1>1. Shapes /\ CallKept
    BY DEF IndInv
  <1>2. call \in Calls(Depth, Epochs)
    BY <1>1 DEF Shapes
  <1>3. Depth \in Nat /\ Depth = Len(stack)
    BY <1>1, ConfIs
  <1>4. /\ call.at \in 1..(Len(stack) + 1)
        /\ call.ptr \in Int /\ call.size \in Int /\ call.align \in Int
    BY <1>2, <1>3 DEF Calls
  <1>5. Waits(stack, conf.requests, mem, hist.hit, call, call.at)
    BY <1>1 DEF CallKept
  <1>6. Returning(stack, conf.requests, mem, hist.hit, call, call.at)
    BY <1>5 DEF Waits
  <1>7. SlotOf(call.ptr) \in AllSlots
    <2>1. PICK st, R, m, hit, x, k : /\ st = stack /\ R = conf.requests /\ m = mem
                                     /\ hit = hist.hit /\ x = call /\ k = call.at
      OBVIOUS
    <2>2. st \in Seq(Layers) /\ R \in SUBSET Lay /\ k \in 1..(Len(st) + 1)
      BY <1>1, <1>4, <2>1, ConfIs
    <2>3. PICK s, l, d : Backed(st, R, m, hit, x, k, s, l, d)
      BY <1>6, <2>1, <2>2, ReturningIs
    <2>4. SlotOf(x.ptr) \in AllSlots
      BY <2>2, <2>3, ReturningIs
    <2> QED BY <2>1, <2>4
  <1>8. CallSlots = {SlotOf(call.ptr)}
    BY <1>4 DEF CallSlots
  <1> QED BY <1>2, <1>4, <1>5, <1>6, <1>7, <1>8

LEMMA ScrubStep ==
  ASSUME IndInv, call.at \in 1..Depth, stack[call.at] \in {"poison", "zeroize"},
         NEW v \in {Zero, Poison}, mem' = Fill(mem, ScrubCells, v),
         Descend(call.ptr, CallLayout),
         UNCHANGED <<conf, free, ring, count, live, lost, hist>>
  PROVE  IndInv'
  <1>1. Shapes
    BY DEF IndInv
  <1>2. call.at > 0 /\ Depth = Len(stack) /\ Depth \in Nat
    BY <1>1, ConfIs
  <1>3. /\ Returning(stack, conf.requests, mem, hist.hit, call, call.at)
        /\ call \in Calls(Depth, Epochs)
        /\ call.ptr \in Int /\ call.size \in Int /\ call.align \in Int
    BY <1>2, InCall
  <1>4. PICK st, R, m, n, hit, x, z, i :
          /\ st = stack /\ R = conf.requests /\ m = mem /\ n = mem'
          /\ hit = hist.hit /\ x = call /\ z = call' /\ i = call.at
    OBVIOUS
  <1>5. st \in Seq(Layers) /\ R \in SUBSET Lay /\ i \in 1..Len(st)
    BY <1>1, <1>2, <1>4, ConfIs
  <1>6. call' = CallAt(call.at + 1, call.ptr, call.size, call.align, call.drain)
    <2>1. CallLayout.size = call.size /\ CallLayout.align = call.align
      BY DEF CallLayout
    <2> QED BY <1>1, <2>1, DescendIs
  <1>7. Passes(z, x)
    <2>1. call'.ptr = call.ptr /\ call'.size = call.size /\ call'.align = call.align
      BY <1>6, CallAtIs
    <2> QED BY <1>4, <2>1 DEF Passes
  <1>8. n = Fill(m, Span(x.ptr, UsableOr(st, i + 1, x.size)), v)
    BY <1>4 DEF ScrubCells
  <1>9. Returning(st, R, m, hit, x, i) /\ st[i] \in {"poison", "zeroize"}
    BY <1>3, <1>4
  <1>10. /\ Returning(st, R, n, hit, z, i + 1)
         /\ Clean(n, SlotOf(x.ptr))
         /\ \A c \in Cells : SlotOf(c) # SlotOf(x.ptr) => n[c] = m[c]
    <2>1. Handed(st, R, m, n, hit, x, z, i) /\ Clean(n, SlotOf(x.ptr))
      BY <1>5, <1>7, <1>8, <1>9, ScrubbedOn
    <2> QED BY <2>1 DEF Handed
  <1>11. Waits(st, R, n, hit, z, i + 1)
    <2>1. z.ptr = x.ptr
      BY <1>7 DEF Passes
    <2> QED BY <1>10, <2>1 DEF Waits
  <1>12. n = [c \in Cells |-> n[c]]
    BY <1>8, FillShape
  <1> QED BY <1>3, <1>4, <1>6, <1>10, <1>11, <1>12, Descended

LEMMA PoisonStep == IndInv /\ PoisonDeallocate => IndInv'
  <1> SUFFICES ASSUME IndInv, PoisonDeallocate PROVE IndInv'
    OBVIOUS
  <1>1. Poison \in {Zero, Poison} /\ stack[call.at] \in {"poison", "zeroize"}
    BY DEF PoisonDeallocate, At
  <1> QED BY <1>1, ScrubStep DEF PoisonDeallocate, At

LEMMA ZeroizeStep == IndInv /\ ZeroizeDeallocate => IndInv'
  <1> SUFFICES ASSUME IndInv, ZeroizeDeallocate PROVE IndInv'
    OBVIOUS
  <1>1. Zero \in {Zero, Poison} /\ stack[call.at] \in {"poison", "zeroize"}
    BY DEF ZeroizeDeallocate, At
  <1> QED BY <1>1, ScrubStep DEF ZeroizeDeallocate, At

LEMMA HandedWaits ==
  ASSUME NEW st \in Seq(Layers), NEW R, NEW i \in 1..Len(st),
         st[i] \notin {"poison", "zeroize"},
         NEW m, NEW n, NEW hit, NEW x, NEW z, Waits(st, R, m, hit, x, i),
         Handed(st, R, m, n, hit, x, z, i), SlotOf(x.ptr) \in AllSlots
  PROVE  Waits(st, R, n, hit, z, i + 1)
  <1>1. Returning(st, R, n, hit, z, i + 1) /\ SlotOf(z.ptr) = SlotOf(x.ptr)
    BY DEF Handed
  <1>2. ASSUME Scrubs(st), i + 1 > ScrubAt(st) PROVE Clean(n, SlotOf(z.ptr))
    <2>1. ScrubAt(st) \in 1..Len(st) /\ ScrubAt(st) # i
      BY <1>2, ScrubberIs
    <2>2. i > ScrubAt(st)
      BY <1>2, <2>1
    <2>3. Clean(m, SlotOf(x.ptr))
      BY <1>2, <2>2 DEF Waits
    <2>4. \A c \in SlotCells(SlotOf(x.ptr)) : c \in Cells
      BY SlotIn
    <2>5. \A c \in Cells : Secret(n, c) => n[c] = m[c]
      BY DEF Handed
    <2> QED BY <1>1, <2>3, <2>4, <2>5 DEF Clean, Secret
  <1> QED BY <1>1, <1>2 DEF Waits

LEMMA HandedStep ==
  ASSUME IndInv, call.at \in 1..Depth, stack[call.at] \notin {"poison", "zeroize"},
         UNCHANGED <<conf, free, ring, count, live, lost, hist>>,
         NEW p \in Int, NEW z \in Int, NEW a \in Int,
         call' = CallAt(call.at + 1, p, z, a, call.drain),
         mem' = [c \in Cells |-> mem'[c]],
         Handed(stack, conf.requests, mem, mem', hist.hit, call, call', call.at)
  PROVE  IndInv'
  <1>1. Shapes
    BY DEF IndInv
  <1>2. call.at > 0 /\ Depth = Len(stack) /\ Depth \in Nat
    BY <1>1, ConfIs
  <1>3. /\ Waits(stack, conf.requests, mem, hist.hit, call, call.at)
        /\ SlotOf(call.ptr) \in AllSlots
    BY <1>2, InCall
  <1>4. PICK st, R, m, n, hit, x, y, i :
          /\ st = stack /\ R = conf.requests /\ m = mem /\ n = mem'
          /\ hit = hist.hit /\ x = call /\ y = call' /\ i = call.at
    OBVIOUS
  <1>5. st \in Seq(Layers) /\ i \in 1..Len(st) /\ st[i] \notin {"poison", "zeroize"}
    BY <1>1, <1>2, <1>4, ConfIs
  <1>6. Handed(st, R, m, n, hit, x, y, i)
    BY <1>4
  <1>7. Waits(st, R, n, hit, y, i + 1)
    BY <1>3, <1>4, <1>5, <1>6, HandedWaits
  <1>8. /\ SlotOf(y.ptr) = SlotOf(x.ptr)
        /\ \A c \in Cells : SlotOf(c) # SlotOf(x.ptr) => n[c] = m[c]
    BY <1>6 DEF Handed
  <1>9. call'.ptr = p
    BY CallAtIs
  <1> QED BY <1>4, <1>7, <1>8, <1>9, Descended

LEMMA Elsewheres ==
  ASSUME OnePlace, NEW s, CallSlots = {s}
  PROVE  /\ \A b \in live : b.slot # s
         /\ \A i \in Waiting : SlotOf(ring[i].ptr) # s
         /\ \A i \in DOMAIN free : free[i] # s /\ free[i] \in FreeSlots
         /\ s \notin lost
BY DEF OnePlace, Parts, LiveSlots, RingSlots, FreeSlots

LEMMA NoBlockIs == NoBlock \in Entry
BY DEF NoBlock, Entry

LEMMA IdleIn ==
  ASSUME NEW D \in Nat, NEW E \in Nat
  PROVE  Idle \in Calls(D, E)
BY DEF Idle, Calls

LEMMA PanicStep ==
  ASSUME IndInv, call.at \in 1..Depth, SlotOf(call.ptr) \in hist.hit, Panic
  PROVE  IndInv'
  <1>1. /\ Shapes /\ OnePlace /\ Draining /\ LiveIntact /\ RingKept /\ CallKept
        /\ FreeClean /\ LostHit /\ Ages
    BY DEF IndInv
  <1>2. stack' = stack /\ Depth' = Depth /\ Epochs' = Epochs
    BY DEF stack, Depth, Epochs, Panic
  <1>3. /\ Depth \in Nat /\ Epochs \in Nat /\ call.at > 0
        /\ call \in Calls(Depth, Epochs) /\ ring \in [0..(Epochs - 1) -> Entry]
    BY <1>1, ConfIs DEF Shapes
  <1>4. /\ conf' = conf /\ mem' = mem /\ free' = free /\ count' = count /\ live' = live
        /\ hist' = hist /\ call' = Idle
    BY DEF Panic
  <1>5. call.drain = -1 \/ call.drain >= 0
    BY <1>3 DEF Calls
  <1> DEFINE s == SlotOf(call.ptr)
  <1>6. CallSlots = {s}
    BY <1>3, InCall
  <1>7. /\ call.drain >= 0 => /\ lost' = lost \cup {s} \cup RingSlots
                              /\ ring' = [i \in DOMAIN ring |-> NoBlock]
        /\ call.drain = -1 => lost' = lost \cup {s} /\ ring' = ring
    BY <1>5 DEF Panic
  <1>8. /\ call.drain >= 0 => Waiting' = {} /\ RingSlots' = {}
        /\ call.drain = -1 => Waiting' = Waiting /\ RingSlots' = RingSlots
    BY <1>7 DEF Waiting, RingSlots
  <1>9. CallSlots' = {} /\ call'.at = 0 /\ call'.drain = -1
    BY <1>4, IdleIs DEF CallSlots
  <1>10. FreeSlots' = FreeSlots /\ LiveSlots' = LiveSlots
    BY <1>4 DEF FreeSlots, LiveSlots
  <1>11. Shapes'
    <2>1. ring' \in [0..(Epochs - 1) -> Entry]
      BY <1>3, <1>5, <1>7, NoBlockIs
    <2>2. call' \in Calls(Depth, Epochs)
      BY <1>3, <1>4, IdleIn
    <2> QED BY <1>1, <1>2, <1>4, <2>1, <2>2 DEF Shapes
  <1>12. OnePlace'
    <2>1. Parts(LiveSlots, RingSlots, {s}, FreeSlots, lost)
      BY <1>1, <1>6 DEF OnePlace
    <2> HIDE DEF s
    <2>2. Parts(LiveSlots', RingSlots', CallSlots', FreeSlots', lost')
      <3>1. CASE call.drain = -1
        <4>1. Parts(LiveSlots, RingSlots, {}, FreeSlots, lost \cup {s})
          BY <2>1 DEF Parts
        <4> QED BY <1>7, <1>8, <1>9, <1>10, <3>1, <4>1
      <3>2. CASE call.drain >= 0
        <4>1. Parts(LiveSlots, {}, {}, FreeSlots, lost \cup {s} \cup RingSlots)
          BY <2>1 DEF Parts
        <4> QED BY <1>7, <1>8, <1>9, <1>10, <3>2, <4>1
      <3> QED BY <1>5, <3>1, <3>2
    <2>3. \A i, j \in Waiting' : SlotOf(ring'[i].ptr) = SlotOf(ring'[j].ptr) => i = j
      BY <1>1, <1>5, <1>7, <1>8 DEF OnePlace
    <2> QED BY <1>1, <1>4, <2>2, <2>3 DEF OnePlace
  <1>13. Draining'
    <2>1. hist.dropped => Waiting' = {}
      BY <1>1, <1>3, <1>5, <1>8 DEF Draining
    <2>2. Waiting' # {} => HasLayer(stack, "quarantine")
      BY <1>1, <1>5, <1>8 DEF Draining
    <2> QED BY <1>2, <1>4, <1>9, <2>1, <2>2 DEF Draining
  <1>14. LiveIntact' /\ RingKept' /\ CallKept' /\ FreeClean'
    <2>1. Waiting' # {} => HasLayer(stack, "quarantine")
      BY <1>1, <1>5, <1>8 DEF Draining
    <2>2. Apart(mem, mem', hist.hit, hist'.hit, s)
      BY <1>4 DEF Apart
    <2>3. \A i \in Waiting' : i \in Waiting /\ ring'[i] = ring[i]
      BY <1>5, <1>7, <1>8
    <2>4. /\ \A b \in live' : b.slot # s /\ b \in live
          /\ \A i \in Waiting' : SlotOf(ring'[i].ptr) # s
          /\ \A i \in DOMAIN free' : free'[i] # s /\ free'[i] \in FreeSlots
      BY <1>1, <1>4, <1>6, <2>3, Elsewheres
    <2> HIDE DEF s
    <2>5. ~(call'.at > 0)
      BY <1>9
    <2> QED BY <1>1, <1>4, <1>11, <2>1, <2>2, <2>3, <2>4, <2>5, StepKeeps
  <1>15. LostHit'
    <2>1. ~hist.dropped => call.drain = -1
      BY <1>1, <1>5 DEF Draining
    <2>2. s \in lost' /\ s \in hist'.hit
      BY <1>4, <1>5, <1>7
    <2>3. ~hist.dropped => lost' \subseteq hist.hit
      BY <1>1, <1>7, <2>1 DEF LostHit
    <2> QED BY <1>4, <2>2, <2>3 DEF LostHit
  <1>16. Ages'
    <2>1. \A i \in Waiting' : i \in Waiting /\ ring'[i] = ring[i]
      BY <1>5, <1>7, <1>8
    <2> QED BY <1>1, <1>4, <2>1, AgesKept
  <1> QED BY <1>11, <1>12, <1>13, <1>14, <1>15, <1>16 DEF IndInv

LEMMA CanaryStep == IndInv /\ CanaryDeallocate => IndInv'
  <1> SUFFICES ASSUME IndInv, CanaryDeallocate PROVE IndInv'
    OBVIOUS
  <1>1. Shapes /\ call.at \in 1..Depth /\ stack[call.at] = "canary"
    BY DEF IndInv, CanaryDeallocate, At
  <1>2. call.at > 0 /\ Depth = Len(stack) /\ Depth \in Nat
    BY <1>1, ConfIs
  <1>3. /\ Returning(stack, conf.requests, mem, hist.hit, call, call.at)
        /\ call.ptr \in Int /\ call.size \in Int /\ call.align \in Int
    BY <1>2, InCall
  <1>4. PICK st, R, m, hit, x, i :
          /\ st = stack /\ R = conf.requests /\ m = mem
          /\ hit = hist.hit /\ x = call /\ i = call.at
    OBVIOUS
  <1>5. /\ st \in Seq(Layers) /\ R \in SUBSET Lay /\ i \in 1..Len(st) /\ st[i] = "canary"
        /\ Returning(st, R, m, hit, x, i)
    BY <1>1, <1>2, <1>3, <1>4, ConfIs
  <1>6. CASE ~Verify /\ Panic
    <2>1. ~(m[x.ptr - 1] = Canary /\ m[x.ptr + x.size] = Canary)
      BY <1>4, <1>6 DEF Verify
    <2>2. SlotOf(x.ptr) \in hit
      BY <1>5, <2>1, CanaryAlarm
    <2> QED BY <1>1, <1>4, <1>6, <2>2, PanicStep
  <1>7. CASE /\ Verify
             /\ mem' = Fill(mem, {call.ptr - 1, call.ptr + call.size}, Zero)
             /\ Descend(call.ptr - PrePad(call.align), CanaryLayout(CallLayout))
             /\ UNCHANGED <<conf, free, ring, count, live, lost, hist>>
    <2>1. PICK n, z : n = mem' /\ z = call'
      OBVIOUS
    <2>2. PICK p, y, a : /\ p = call.ptr - PrePad(call.align)
                         /\ y = PrePad(call.align) + call.size + 1
                         /\ a = Bigger(1, call.align)
      OBVIOUS
    <2>3. p \in Int /\ y \in Int /\ a \in Int
      BY <1>3, <2>2 DEF PrePad, Bigger
    <2>4. call' = CallAt(call.at + 1, p, y, a, call.drain)
      <3>1. /\ CanaryLayout(CallLayout).size = y /\ CanaryLayout(CallLayout).align = a
        BY <2>2 DEF CanaryLayout, CallLayout
      <3> QED BY <1>1, <1>7, <2>2, <3>1, DescendIs
    <2>5. z.ptr = p /\ z.size = y /\ z.align = a
      BY <2>1, <2>4, CallAtIs
    <2>6. /\ m[x.ptr - 1] = Canary /\ m[x.ptr + x.size] = Canary
          /\ n = Fill(m, {x.ptr - 1, x.ptr + x.size}, Zero)
      BY <1>4, <1>7, <2>1 DEF Verify
    <2>7. Handed(st, R, m, n, hit, x, z, i)
      BY <1>4, <1>5, <2>2, <2>5, <2>6, CanaryOn
    <2>8. n = [c \in Cells |-> n[c]]
      BY <2>6, FillShape
    <2>9. Handed(stack, conf.requests, mem, mem', hist.hit, call, call', call.at)
      BY <1>4, <2>1, <2>7
    <2> QED BY <1>1, <1>7, <2>1, <2>3, <2>4, <2>8, <2>9, HandedStep
  <1> QED BY <1>6, <1>7 DEF CanaryDeallocate

LEMMA JitterStep == IndInv /\ JitterDeallocate => IndInv'
  <1> SUFFICES ASSUME IndInv, JitterDeallocate PROVE IndInv'
    OBVIOUS
  <1>1. Shapes /\ call.at \in 1..Depth /\ stack[call.at] = "jitter"
    BY DEF IndInv, JitterDeallocate, At
  <1>2. call.at > 0 /\ Depth = Len(stack) /\ Depth \in Nat
    BY <1>1, ConfIs
  <1>3. /\ Returning(stack, conf.requests, mem, hist.hit, call, call.at)
        /\ call.ptr \in Int /\ call.size \in Int /\ call.align \in Int
    BY <1>2, InCall
  <1>4. PICK st, R, m, hit, x, z, i :
          /\ st = stack /\ R = conf.requests /\ m = mem
          /\ hit = hist.hit /\ x = call /\ z = call' /\ i = call.at
    OBVIOUS
  <1>5. /\ st \in Seq(Layers) /\ R \in SUBSET Lay /\ i \in 1..Len(st) /\ st[i] = "jitter"
        /\ Returning(st, R, m, hit, x, i)
    BY <1>1, <1>2, <1>3, <1>4, ConfIs
  <1>6. CallLayout = [size |-> x.size, align |-> x.align]
    BY <1>4 DEF CallLayout
  <1>7. m = [c \in Cells |-> m[c]]
    BY <1>1, <1>4 DEF Shapes
  <1>8. CASE Jittered(CallLayout) /\ ~HeaderValid /\ Panic
    <2>1. ~(/\ m[x.ptr - 1][1] = "header" /\ m[x.ptr - 1][2] = x.ptr
            /\ m[x.ptr - 1][3] <= (Ways - 1) * Line)
      BY <1>4, <1>8 DEF HeaderValid
    <2>2. Jittered([size |-> x.size, align |-> x.align])
      BY <1>6, <1>8
    <2>3. SlotOf(x.ptr) \in hit
      BY <1>5, <2>1, <2>2, JitterAlarm
    <2> QED BY <1>1, <1>4, <1>8, <2>3, PanicStep
  <1>9. CASE /\ ~Jittered(CallLayout)
             /\ Descend(call.ptr, CallLayout)
             /\ UNCHANGED <<conf, mem, free, ring, count, live, lost, hist>>
    <2>1. call' = CallAt(call.at + 1, call.ptr, call.size, call.align, call.drain)
      <3>1. CallLayout.size = call.size /\ CallLayout.align = call.align
        BY DEF CallLayout
      <3> QED BY <1>1, <1>9, <3>1, DescendIs
    <2>2. Passes(z, x)
      <3>1. call'.ptr = call.ptr /\ call'.size = call.size /\ call'.align = call.align
        BY <2>1, CallAtIs
      <3> QED BY <1>4, <3>1 DEF Passes
    <2>3. ~Jittered([size |-> x.size, align |-> x.align]) /\ st[i] # "canary"
      BY <1>5, <1>6, <1>9
    <2>4. Handed(st, R, m, m, hit, x, z, i)
      BY <1>5, <2>2, <2>3, PassedOn
    <2>5. /\ Handed(stack, conf.requests, mem, mem', hist.hit, call, call', call.at)
          /\ mem' = [c \in Cells |-> mem'[c]]
      BY <1>4, <1>7, <1>9, <2>4
    <2> QED BY <1>1, <1>3, <1>9, <2>1, <2>5, HandedStep
  <1>10. CASE /\ Jittered(CallLayout) /\ HeaderValid
              /\ Descend(call.ptr - (Line + mem[call.ptr - 1][3]), JitterLayout(CallLayout))
              /\ UNCHANGED <<conf, mem, free, ring, count, live, lost, hist>>
    <2>1. PICK p, y, a : /\ p = x.ptr - (Line + m[x.ptr - 1][3])
                         /\ y = x.size + JitterPrefix /\ a = Line
      OBVIOUS
    <2>2. call' = CallAt(call.at + 1, p, y, a, call.drain)
      <3>1. JitterLayout(CallLayout) = [size |-> CallLayout.size + JitterPrefix, align |-> Line]
        BY <1>10 DEF JitterLayout
      <3>2. CallLayout.size = x.size
        BY <1>6
      <3>3. JitterLayout(CallLayout).size = y /\ JitterLayout(CallLayout).align = a
        BY <2>1, <3>1, <3>2
      <3> QED BY <1>1, <1>4, <1>10, <2>1, <3>3, DescendIs
    <2>3. z.ptr = p /\ z.size = y /\ z.align = a
      BY <1>4, <2>2, CallAtIs
    <2>4. m[x.ptr - 1][1] = "header" /\ Jittered([size |-> x.size, align |-> x.align])
      BY <1>4, <1>6, <1>10 DEF HeaderValid
    <2>5. Handed(st, R, m, m, hit, x, z, i)
      BY <1>5, <2>1, <2>3, <2>4, JitterOn
    <2>6. p \in Int /\ y \in Int /\ a \in Int
      <3>1. PICK s, l, d : Backed(st, R, m, hit, x, i, s, l, d)
        <4>1. i \in 1..(Len(st) + 1)
          BY <1>5
        <4> QED BY <1>5, <4>1, ReturningIs
      <3>2. HeaderOf(st, m, hit, x, i, s, l, d)
        BY <1>5, <2>4, <3>1, JitterHeader DEF Jittered
      <3>3. m[x.ptr - 1] = Header(x.ptr, d)
        BY <2>4, <3>2, Values DEF HeaderOf
      <3>4. d \in Nat
        BY <3>1, DisplacementBounded DEF Backed, Served
      <3>5. m[x.ptr - 1][3] = d
        BY <3>3 DEF Header
      <3>6. (Ways - 1) * Line \in Nat
        BY Constants, TimesNat
      <3>7. x.ptr \in Int /\ x.size \in Int
        BY <1>3, <1>4
      <3> QED BY <2>1, <3>4, <3>5, <3>6, <3>7, Constants DEF JitterPrefix
    <2>7. /\ Handed(stack, conf.requests, mem, mem', hist.hit, call, call', call.at)
          /\ mem' = [c \in Cells |-> mem'[c]]
      BY <1>4, <1>7, <1>10, <2>5
    <2> QED BY <1>1, <1>10, <2>2, <2>6, <2>7, HandedStep
  <1> QED BY <1>8, <1>9, <1>10 DEF JitterDeallocate

LEMMA ConsIs ==
  ASSUME NEW S, NEW f \in Seq(S), NEW s \in S, NEW g, g = <<s>> \o f
  PROVE  /\ g \in Seq(S) /\ DOMAIN g = 1..(Len(f) + 1) /\ DOMAIN f = 1..Len(f)
         /\ g[1] = s /\ \A i \in 2..(Len(f) + 1) : i - 1 \in DOMAIN f /\ g[i] = f[i - 1]
         /\ \A i \in DOMAIN f : i + 1 \in DOMAIN g /\ g[i + 1] = f[i]
OBVIOUS

LEMMA BottomStep == IndInv /\ BottomDeallocate => IndInv'
  <1> SUFFICES ASSUME IndInv, BottomDeallocate PROVE IndInv'
    OBVIOUS
  <1>1. /\ Shapes /\ OnePlace /\ Draining /\ LiveIntact /\ RingKept /\ CallKept
        /\ FreeClean /\ LostHit /\ Ages
    BY DEF IndInv
  <1>2. /\ stack' = stack /\ Depth' = Depth /\ Epochs' = Epochs
        /\ conf' = conf /\ ring' = ring /\ count' = count /\ live' = live /\ lost' = lost
        /\ hist' = hist
    BY DEF stack, Depth, Epochs, BottomDeallocate
  <1>3. /\ Depth \in Nat /\ Depth = Len(stack) /\ Epochs \in Nat /\ call.at > 0
        /\ call \in Calls(Depth, Epochs) /\ call.at = Len(stack) + 1
    BY <1>1, ConfIs DEF Shapes, BottomDeallocate
  <1>4. call.drain \in -1..Epochs
    BY <1>3 DEF Calls
  <1> DEFINE s == SlotOf(call.ptr)
  <1>5. /\ Waits(stack, conf.requests, mem, hist.hit, call, call.at)
        /\ Returning(stack, conf.requests, mem, hist.hit, call, call.at)
        /\ s \in AllSlots /\ CallSlots = {s}
    BY <1>3, InCall
  <1>6. /\ s \notin hist.hit /\ call.ptr \in SlotCells(s)
        /\ \A c \in SlotCells(s) : mem[c] # Canary
    <2>1. PICK st, R, m, hit, x :
            /\ st = stack /\ R = conf.requests /\ m = mem /\ hit = hist.hit /\ x = call
      OBVIOUS
    <2>2. st \in Seq(Layers) /\ R \in SUBSET Lay /\ Returning(st, R, m, hit, x, Len(st) + 1)
      BY <1>1, <1>3, <1>5, <2>1, ConfIs
    <2>3. AtBottom(m, hit, x, SlotOf(x.ptr))
      BY <2>2, BottomIs
    <2> QED BY <2>1, <2>3 DEF AtBottom
  <1>7. call' = CallAt(0, -1, 0, 1, call.drain)
    <2>1. CASE call.drain < 0
      <3>1. call.drain = -1 /\ call' = Idle
        BY <1>4, <2>1 DEF BottomDeallocate
      <3> QED BY <3>1 DEF Idle, CallAt
    <2>2. CASE call.drain >= 0
      <3>1. PICK r : r = call.drain
        OBVIOUS
      <3>2. call' = [Idle EXCEPT !.drain = r]
        BY <1>4, <2>2, <3>1 DEF BottomDeallocate
      <3>3. call' = CallAt(0, -1, 0, 1, r)
        BY <3>2 DEF Idle, CallAt
      <3> QED BY <3>1, <3>3
    <2> QED BY <1>4, <2>1, <2>2
  <1>8. call'.at = 0 /\ call'.drain = call.drain /\ CallSlots' = {}
    BY <1>7, CallAtIs DEF CallSlots
  <1>9. /\ free' = <<s>> \o free /\ mem' = Fill(mem, {call.ptr}, Link)
        /\ free \in Seq(AllSlots)
    BY <1>1 DEF BottomDeallocate, Shapes
  <1>10. /\ free' \in Seq(AllSlots) /\ free'[1] = s
         /\ DOMAIN free' = 1..(Len(free) + 1) /\ DOMAIN free = 1..Len(free)
         /\ \A i \in 2..(Len(free) + 1) : i - 1 \in DOMAIN free /\ free'[i] = free[i - 1]
         /\ \A i \in DOMAIN free : i + 1 \in DOMAIN free' /\ free'[i + 1] = free[i]
         /\ Len(free) \in Nat
    <2>1. PICK f, g : f = free /\ g = free'
      OBVIOUS
    <2>2. f \in Seq(AllSlots) /\ g = <<s>> \o f /\ s \in AllSlots /\ Len(f) \in Nat
      BY <1>5, <1>9, <2>1
    <2> HIDE DEF s
    <2>3. /\ g \in Seq(AllSlots) /\ DOMAIN g = 1..(Len(f) + 1) /\ DOMAIN f = 1..Len(f)
          /\ g[1] = s /\ \A i \in 2..(Len(f) + 1) : i - 1 \in DOMAIN f /\ g[i] = f[i - 1]
          /\ \A i \in DOMAIN f : i + 1 \in DOMAIN g /\ g[i + 1] = f[i]
      BY <2>2, ConsIs
    <2> QED BY <2>1, <2>2, <2>3
  <1> HIDE DEF s
  <1>11. \A i \in DOMAIN free' : i = 1 \/ i \in 2..(Len(free) + 1)
    BY <1>10
  <1>12. FreeSlots' = FreeSlots \cup {s}
    <2>1. \A i \in DOMAIN free' : free'[i] \in FreeSlots \cup {s}
      BY <1>10, <1>11 DEF FreeSlots
    <2>2. \A i \in DOMAIN free : free[i] \in FreeSlots'
      BY <1>10 DEF FreeSlots
    <2>3. s \in FreeSlots'
      <3>1. 1 \in DOMAIN free'
        BY <1>10
      <3> QED BY <1>10, <3>1 DEF FreeSlots
    <2> QED BY <2>1, <2>2, <2>3 DEF FreeSlots
  <1>13. Waiting' = Waiting /\ RingSlots' = RingSlots /\ LiveSlots' = LiveSlots
    BY <1>2 DEF Waiting, RingSlots, LiveSlots
  <1>14. Shapes'
    <2>1. call' \in Calls(Depth, Epochs)
      <3>1. 0 \in 0..(Depth + 1) /\ -1 \in Int /\ 0 \in Int /\ 1 \in Int
        BY <1>3
      <3>2. CallAt(0, -1, 0, 1, call.drain) \in Calls(Depth, Epochs)
        BY <1>3, <1>4, <3>1, CallAtIn
      <3> QED BY <1>7, <3>2
    <2>2. mem' = [c \in Cells |-> mem'[c]]
      BY <1>9, FillShape
    <2> QED BY <1>1, <1>2, <1>10, <2>1, <2>2 DEF Shapes
  <1>15. OnePlace'
    <2>1. Parts(LiveSlots, RingSlots, {s}, FreeSlots, lost)
      BY <1>1, <1>5 DEF OnePlace
    <2>2. Parts(LiveSlots, RingSlots, {}, FreeSlots \cup {s}, lost) /\ s \notin FreeSlots
      BY <2>1 DEF Parts
    <2>3. \A i, j \in DOMAIN free' : free'[i] = free'[j] => i = j
      <3> SUFFICES ASSUME NEW i \in DOMAIN free', NEW j \in DOMAIN free', free'[i] = free'[j]
                   PROVE  i = j
        OBVIOUS
      <3>1. \A k \in 2..(Len(free) + 1) : free'[k] # s
        BY <1>10, <2>2 DEF FreeSlots
      <3>2. \A k, h \in DOMAIN free : free[k] = free[h] => k = h
        BY <1>1 DEF OnePlace
      <3>3. CASE i = 1 \/ j = 1
        BY <1>10, <1>11, <3>1, <3>3
      <3>4. CASE i # 1 /\ j # 1
        <4>1. i \in 2..(Len(free) + 1) /\ j \in 2..(Len(free) + 1)
          BY <1>11, <3>4
        <4>2. i - 1 = j - 1
          BY <1>10, <3>2, <4>1
        <4> QED BY <4>1, <4>2
      <3> QED BY <3>3, <3>4
    <2> QED BY <1>1, <1>2, <1>8, <1>12, <1>13, <2>2, <2>3 DEF OnePlace
  <1>16. Draining'
    <2>1. call'.drain = -1 => call' = Idle
      BY <1>7, <1>8 DEF Idle, CallAt
    <2>2. call' = Idle => call.drain = -1
      BY <1>8, IdleIs
    <2> QED BY <1>1, <1>2, <1>3, <1>8, <1>13, <2>1, <2>2 DEF Draining
  <1>17. Apart(mem, mem', hist.hit, hist'.hit, s)
    <2>1. SlotOf(call.ptr) = s
      BY DEF s
    <2>2. \A c \in Cells : c # call.ptr => mem'[c] = mem[c]
      BY <1>9, FillAt
    <2> QED BY <1>2, <2>1, <2>2 DEF Apart
  <1>18. Blank(stack, mem', hist'.hit, s)
    <2>1. \A c \in SlotCells(s) : c \in Cells
      BY <1>5, SlotIn
    <2>2. \A c \in SlotCells(s) : mem'[c] = mem[c] \/ mem'[c] = Link
      BY <1>9, <2>1, FillAt
    <2>3. ASSUME Scrubs(stack) PROVE Clean(mem', s)
      <3>1. call.at > ScrubAt(stack)
        BY <1>1, <1>3, <2>3, ConfIs, ScrubberIs
      <3>2. Clean(mem, s)
        BY <1>5, <2>3, <3>1 DEF Waits, s
      <3> QED BY <2>2, <3>2, Values DEF Clean, Secret
    <2> QED BY <1>2, <1>6, <2>2, <2>3, Values DEF Blank
  <1>19. LiveIntact' /\ RingKept' /\ CallKept' /\ FreeClean'
    <2>1. /\ \A b \in live' : b.slot # s /\ b \in live
          /\ \A i \in Waiting' : i \in Waiting /\ ring'[i] = ring[i] /\ SlotOf(ring'[i].ptr) # s
      BY <1>1, <1>2, <1>5, <1>13, Elsewheres
    <2>2. \A i \in DOMAIN free' : free'[i] = s \/ free'[i] \notin FreeSlots =>
            Blank(stack, mem', hist'.hit, free'[i])
      BY <1>10, <1>11, <1>18 DEF FreeSlots
    <2>3. Waiting' # {} => HasLayer(stack, "quarantine")
      BY <1>1, <1>13 DEF Draining
    <2>4. ~(call'.at > 0)
      BY <1>8
    <2> QED BY <1>1, <1>2, <1>14, <1>17, <2>1, <2>2, <2>3, <2>4, StepKeeps
  <1>20. LostHit' /\ Ages'
    BY <1>1, <1>2, <1>13, AgesKept DEF LostHit
  <1> QED BY <1>14, <1>15, <1>16, <1>19, <1>20 DEF IndInv

(* How the history changes. *)
LEMMA HistFrees ==
  ASSUME NEW h \in Hists, NEW n, n = [h EXCEPT !.frees = @ + 1]
  PROVE  /\ n \in Hists
         /\ n.hit = h.hit /\ n.taken = h.taken /\ n.delay = h.delay /\ n.dropped = h.dropped
BY DEF Hists

LEMMA HistStrays ==
  ASSUME NEW h \in Hists, NEW s \in AllSlots, NEW n,
         n = [h EXCEPT !.strays = @ + 1, !.hit = @ \cup {s}]
  PROVE  /\ n \in Hists
         /\ n.hit = h.hit \cup {s} /\ n.taken = h.taken /\ n.delay = h.delay
         /\ n.dropped = h.dropped
  <1>1. PICK g, v : g = [h EXCEPT !.strays = @ + 1] /\ v = h.hit \cup {s}
    OBVIOUS
  <1>2. /\ g \in Hists /\ v \in SUBSET AllSlots
        /\ g.hit = h.hit /\ g.taken = h.taken /\ g.delay = h.delay /\ g.dropped = h.dropped
    BY <1>1 DEF Hists
  <1>3. n = [g EXCEPT !.hit = v]
    BY <1>1, Zenon
  <1>4. /\ n \in Hists
        /\ n.hit = v /\ n.taken = g.taken /\ n.delay = g.delay /\ n.dropped = g.dropped
    BY <1>2, <1>3 DEF Hists
  <1> QED BY <1>1, <1>2, <1>4

LEMMA HistTaken ==
  ASSUME NEW h \in Hists, NEW n, n = [h EXCEPT !.taken = @ + 1]
  PROVE  /\ n \in Hists
         /\ n.hit = h.hit /\ n.taken = h.taken + 1 /\ n.delay = h.delay
         /\ n.dropped = h.dropped
BY DEF Hists

Evicts(h, n, d) == n = [h EXCEPT !.taken = @ + 1, !.delay = d]

LEMMA HistDelay ==
  ASSUME NEW h \in Hists, NEW d \in Int, NEW n, Evicts(h, n, d)
  PROVE  /\ n \in Hists
         /\ n.hit = h.hit /\ n.taken = h.taken + 1 /\ n.delay = d
         /\ n.dropped = h.dropped
  <1>1. PICK g : g = [h EXCEPT !.taken = @ + 1]
    OBVIOUS
  <1>2. /\ g \in Hists
        /\ g.hit = h.hit /\ g.taken = h.taken + 1 /\ g.dropped = h.dropped
    BY <1>1 DEF Hists
  <1>3. n = [g EXCEPT !.delay = d]
    BY <1>1, Zenon DEF Evicts
  <1>4. n \in Hists /\ n.hit = g.hit /\ n.taken = g.taken /\ n.delay = d /\ n.dropped = g.dropped
    BY <1>2, <1>3 DEF Hists
  <1> QED BY <1>2, <1>4

LEMMA HistDropped ==
  ASSUME NEW h \in Hists, NEW n, n = [h EXCEPT !.dropped = TRUE]
  PROVE  /\ n \in Hists
         /\ n.hit = h.hit /\ n.taken = h.taken /\ n.delay = h.delay /\ n.dropped = TRUE
BY DEF Hists

LEMMA FreedWaits ==
  ASSUME NEW st \in Seq(Layers), NEW R \in SUBSET Lay,
         NEW m, NEW hit, NEW b, Intact(st, R, m, hit, b), NEW x, Passes(x, b)
  PROVE  /\ Waits(st, R, m, hit, x, 1) /\ SlotOf(x.ptr) = b.slot /\ b.slot \in AllSlots
         /\ b.ptr \in Nat /\ b.size \in Nat /\ b.align \in Nat
  <1>1. Returning(st, R, m, hit, x, 1) /\ SlotOf(x.ptr) = b.slot
    BY GivenBack
  <1>2. ~(Scrubs(st) /\ 1 > ScrubAt(st))
    BY ScrubberIs
  <1>3. Waits(st, R, m, hit, x, 1)
    BY <1>1, <1>2 DEF Waits
  <1>4. Served(st, R, b.slot, LayoutOf(b), b.disp)
    BY DEF Intact
  <1>5. LayoutOf(b) \in Lay /\ b.slot \in AllSlots
    BY <1>4 DEF Served
  <1>6. b.size \in Nat /\ b.align \in Nat
    BY <1>5 DEF LayoutOf, Lay
  <1>7. b.ptr \in Nat
    <2>1. 1 \in 1..(Len(st) + 1)
      OBVIOUS
    <2> QED BY <1>4, <2>1, PointersTyped DEF Intact
  <1> QED BY <1>1, <1>3, <1>5, <1>6, <1>7

(* The same for the blocks of the model. *)
LEMMA LiveIs ==
  ASSUME Shapes, LiveIntact, NEW b \in live, NEW x, Passes(x, b)
  PROVE  /\ Intact(stack, conf.requests, mem, hist.hit, b)
         /\ Waits(stack, conf.requests, mem, hist.hit, x, 1)
         /\ SlotOf(x.ptr) = b.slot /\ b.slot \in AllSlots
         /\ b.ptr \in Int /\ b.size \in Int /\ b.align \in Int
  <1>1. PICK st, R, m, hit :
          st = stack /\ R = conf.requests /\ m = mem /\ hit = hist.hit
    OBVIOUS
  <1>2. st \in Seq(Layers) /\ R \in SUBSET Lay /\ Intact(st, R, m, hit, b)
    BY <1>1, ConfIs DEF LiveIntact
  <1>3. /\ Waits(st, R, m, hit, x, 1) /\ SlotOf(x.ptr) = b.slot /\ b.slot \in AllSlots
        /\ b.ptr \in Nat /\ b.size \in Nat /\ b.align \in Nat
    BY <1>2, FreedWaits
  <1> QED BY <1>1, <1>2, <1>3

LEMMA ReadyIs ==
  ASSUME Ready
  PROVE  call = Idle /\ call.at = 0 /\ call.drain = -1 /\ ~hist.dropped /\ CallSlots = {}
BY IdleIs DEF Ready, CallSlots

(* Blocks in different slots. *)
LEMMA OneBlock ==
  ASSUME OnePlace, NEW b \in live
  PROVE  /\ \A c \in live \ {b} : c.slot # b.slot
         /\ \A i \in Waiting : SlotOf(ring[i].ptr) # b.slot
         /\ \A i \in DOMAIN free : free[i] # b.slot /\ free[i] \in FreeSlots
         /\ {c.slot : c \in live \ {b}} = LiveSlots \ {b.slot} /\ b.slot \in LiveSlots
BY DEF OnePlace, Parts, LiveSlots, RingSlots, FreeSlots

LEMMA DeallocateStep == ASSUME IndInv, NEW b \in live, Deallocate(b) PROVE IndInv'
  <1>1. /\ Shapes /\ OnePlace /\ Draining /\ LiveIntact /\ RingKept /\ CallKept
        /\ FreeClean /\ LostHit /\ Ages
    BY DEF IndInv
  <1>2. /\ stack' = stack /\ Depth' = Depth /\ Epochs' = Epochs
        /\ conf' = conf /\ mem' = mem /\ ring' = ring /\ count' = count /\ free' = free
        /\ lost' = lost /\ live' = live \ {b}
    BY DEF stack, Depth, Epochs, Deallocate, StartFree
  <1>3. Depth \in Nat /\ Epochs \in Nat /\ hist \in Hists
    BY <1>1, ConfIs DEF Shapes
  <1>4. call = Idle /\ call.at = 0 /\ call.drain = -1 /\ ~hist.dropped /\ CallSlots = {}
    BY ReadyIs DEF Deallocate
  <1>5. call' = CallAt(1, b.ptr, b.size, b.align, -1)
    BY DEF Deallocate, StartFree, CallAt
  <1>6. /\ call'.at = 1 /\ call'.drain = -1 /\ call'.ptr = b.ptr
        /\ call'.size = b.size /\ call'.align = b.align
    BY <1>5, CallAtIs
  <1>7. /\ Waits(stack, conf.requests, mem, hist.hit, call', 1)
        /\ SlotOf(b.ptr) = b.slot /\ b.slot \in AllSlots
        /\ b.ptr \in Int /\ b.size \in Int /\ b.align \in Int
    <2>1. PICK x : x = call'
      OBVIOUS
    <2>2. Passes(x, b)
      BY <1>6, <2>1 DEF Passes
    <2> QED BY <1>1, <1>6, <2>1, <2>2, LiveIs
  <1>8. /\ hist' \in Hists /\ hist'.hit = hist.hit /\ hist'.taken = hist.taken
        /\ hist'.delay = hist.delay /\ hist'.dropped = hist.dropped
    BY <1>3, HistFrees DEF Deallocate, StartFree
  <1>9. Shapes'
    <2>1. 1 \in 0..(Depth + 1) /\ -1 \in -1..Epochs
      BY <1>3
    <2>2. CallAt(1, b.ptr, b.size, b.align, -1) \in Calls(Depth, Epochs)
      BY <1>3, <1>7, <2>1, CallAtIn
    <2> QED BY <1>1, <1>2, <1>5, <1>8, <2>2 DEF Shapes
  <1>10. /\ Waiting' = Waiting /\ RingSlots' = RingSlots /\ FreeSlots' = FreeSlots
         /\ CallSlots' = {b.slot} /\ LiveSlots' = LiveSlots \ {b.slot}
    <2>1. Waiting' = Waiting /\ RingSlots' = RingSlots /\ FreeSlots' = FreeSlots
      BY <1>2 DEF Waiting, RingSlots, FreeSlots
    <2>2. CallSlots' = {b.slot}
      BY <1>6, <1>7 DEF CallSlots
    <2>3. LiveSlots' = LiveSlots \ {b.slot}
      BY <1>1, <1>2, OneBlock DEF LiveSlots
    <2> QED BY <2>1, <2>2, <2>3
  <1>11. OnePlace'
    <2>1. Parts(LiveSlots, RingSlots, {}, FreeSlots, lost) /\ b.slot \in LiveSlots
      BY <1>1, <1>4, OneBlock DEF OnePlace
    <2>2. Parts(LiveSlots \ {b.slot}, RingSlots, {b.slot}, FreeSlots, lost)
      BY <2>1 DEF Parts
    <2> QED BY <1>1, <1>2, <1>10, <2>2 DEF OnePlace
  <1>12. Draining'
    <2>1. call' # Idle
      BY <1>6, IdleIs
    <2> QED BY <1>1, <1>2, <1>4, <1>6, <1>8, <1>10, <2>1 DEF Draining
  <1>13. LiveIntact' /\ RingKept' /\ CallKept' /\ FreeClean'
    <2>1. /\ \A c \in live' : c.slot # b.slot /\ c \in live
          /\ \A i \in Waiting' : /\ i \in Waiting /\ ring'[i] = ring[i]
                                 /\ SlotOf(ring'[i].ptr) # b.slot
          /\ \A i \in DOMAIN free' : free'[i] # b.slot /\ free'[i] \in FreeSlots
      BY <1>1, <1>2, <1>10, OneBlock
    <2>2. Apart(mem, mem', hist.hit, hist'.hit, b.slot)
      BY <1>2, <1>8 DEF Apart
    <2>3. Waiting' # {} => HasLayer(stack, "quarantine")
      BY <1>1, <1>10 DEF Draining
    <2>4. Waits(stack, conf.requests, mem', hist'.hit, call', call'.at)
      BY <1>2, <1>6, <1>7, <1>8
    <2>5. PICK s : s = b.slot
      OBVIOUS
    <2> QED BY <1>1, <1>2, <1>9, <2>1, <2>2, <2>3, <2>4, <2>5, StepKeeps
  <1>14. LostHit'
    BY <1>1, <1>2, <1>8 DEF LostHit
  <1>15. Ages'
    BY <1>1, <1>2, <1>8, <1>10, AgesKept
  <1> QED BY <1>9, <1>11, <1>12, <1>13, <1>14, <1>15 DEF IndInv

(* A stray write: nothing moves. *)
LEMMA StrayKeeps ==
  ASSUME IndInv, Ready, UNCHANGED <<conf, free, ring, count, live, call, lost>>,
         NEW s \in AllSlots, NEW c \in SlotCells(s), mem' = Fill(mem, {c}, Junk),
         hist' = [hist EXCEPT !.strays = @ + 1, !.hit = @ \cup {s}],
         s \notin FreeSlots,
         \A b \in live : b.slot = s => Intact(stack, conf.requests, mem', hist'.hit, b),
         \A i \in Waiting : SlotOf(ring[i].ptr) = s =>
            Waits(stack, conf.requests, mem', hist'.hit, ring[i], LayerAt(stack, "quarantine"))
  PROVE  IndInv'
  <1>1. /\ Shapes /\ OnePlace /\ Draining /\ LiveIntact /\ RingKept /\ CallKept
        /\ FreeClean /\ LostHit /\ Ages
    BY DEF IndInv
  <1>2. stack' = stack /\ Depth' = Depth /\ Epochs' = Epochs
    BY DEF stack, Depth, Epochs
  <1>3. /\ hist' \in Hists /\ hist'.hit = hist.hit \cup {s} /\ hist'.taken = hist.taken
        /\ hist'.delay = hist.delay /\ hist'.dropped = hist.dropped
    <2>1. hist \in Hists
      BY <1>1 DEF Shapes
    <2> QED BY <2>1, HistStrays
  <1>4. mem' = [e \in Cells |-> mem'[e]]
    BY FillShape
  <1>5. Shapes'
    BY <1>1, <1>2, <1>3, <1>4 DEF Shapes
  <1>6. CallSlots' = CallSlots
    BY DEF CallSlots
  <1>7. OnePlace' /\ Waiting' = Waiting
    BY <1>1, <1>6, SamePlaces
  <1>8. Draining'
    BY <1>1, <1>2, <1>3, <1>7 DEF Draining
  <1>9. Apart(mem, mem', hist.hit, hist'.hit, s)
    <2>1. SlotOf(c) = s
      BY SlotIn
    <2>2. \A e \in Cells : e # c => mem'[e] = mem[e]
      BY FillAt
    <2> QED BY <1>3, <2>1, <2>2 DEF Apart
  <1>10. LiveIntact' /\ RingKept' /\ CallKept' /\ FreeClean'
    <2>1. Waiting' # {} => HasLayer(stack, "quarantine")
      BY <1>1, <1>7 DEF Draining
    <2>2. ~(call'.at > 0)
      BY ReadyIs
    <2>3. \A i \in DOMAIN free' : free'[i] # s /\ free'[i] \in FreeSlots
      BY DEF FreeSlots
    <2> QED BY <1>1, <1>5, <1>7, <1>9, <2>1, <2>2, <2>3, StepKeeps
  <1>11. LostHit'
    BY <1>1, <1>3 DEF LostHit
  <1>12. Ages'
    BY <1>1, <1>3, <1>7, AgesKept
  <1> QED BY <1>5, <1>7, <1>8, <1>10, <1>11, <1>12 DEF IndInv

LEMMA StrayStep == ASSUME IndInv, NEW b \in live, StrayWrite(b) PROVE IndInv'
  <1>1. Shapes /\ OnePlace /\ LiveIntact
    BY DEF IndInv
  <1>2. PICK c \in GuardCells(stack, b.slot, [size |-> b.size, align |-> b.align], b.disp) :
          mem' = Fill(mem, {c}, Junk)
    BY DEF StrayWrite
  <1>3. PICK st, R, m, n, hit, hit2 :
          /\ st = stack /\ R = conf.requests /\ m = mem /\ n = mem'
          /\ hit = hist.hit /\ hit2 = hist'.hit
    OBVIOUS
  <1>4. /\ st \in Seq(Layers) /\ R \in SUBSET Lay /\ Intact(st, R, m, hit, b)
        /\ n = Fill(m, {c}, Junk)
    BY <1>1, <1>2, <1>3, ConfIs DEF LiveIntact
  <1>5. b.slot \in AllSlots
    BY <1>4 DEF Intact, Served
  <1>6. hist \in Hists /\ hist' = [hist EXCEPT !.strays = @ + 1, !.hit = @ \cup {b.slot}]
    BY <1>1 DEF StrayWrite, Shapes
  <1>7. b.slot \in hit2
    <2>1. PICK s \in AllSlots : s = b.slot
      BY <1>5
    <2>2. hist' = [hist EXCEPT !.strays = @ + 1, !.hit = @ \cup {s}]
      BY <1>6, <2>1, Zenon
    <2>3. hist'.hit = hist.hit \cup {s}
      BY <1>6, <2>2, HistStrays
    <2> QED BY <1>3, <2>1, <2>3
  <1>8. c \in GuardCells(st, b.slot, LayoutOf(b), b.disp)
    BY <1>2, <1>3 DEF LayoutOf
  <1>9. Intact(st, R, n, hit2, b) /\ c \in SlotCells(b.slot)
    <2>1. PICK e : e = c
      OBVIOUS
    <2>2. e \in GuardCells(st, b.slot, LayoutOf(b), b.disp) /\ n = Fill(m, {e}, Junk)
      BY <1>4, <1>8, <2>1
    <2>3. Intact(st, R, n, hit2, b) /\ b.slot \in AllSlots /\ e \in SlotCells(b.slot)
      BY <1>4, <1>7, <2>2, StruckWhileLive
    <2> QED BY <2>1, <2>3
  <1>10. /\ \A e \in live : e.slot = b.slot => Intact(stack, conf.requests, mem', hist'.hit, e)
         /\ \A i \in Waiting : SlotOf(ring[i].ptr) # b.slot
         /\ b.slot \notin FreeSlots
    BY <1>1, <1>3, <1>9, OneBlock DEF FreeSlots
  <1> QED BY <1>2, <1>5, <1>6, <1>9, <1>10, StrayKeeps DEF StrayWrite

LEMMA StrayAfterFreeStep ==
  ASSUME IndInv, NEW i \in DOMAIN ring, StrayWriteAfterFree(i) PROVE IndInv'
  <1>1. Shapes /\ OnePlace /\ RingKept /\ Draining
    BY DEF IndInv
  <1> DEFINE s == SlotOf(ring[i].ptr)
  <1>2. i \in Waiting
    BY DEF StrayWriteAfterFree, Waiting
  <1>3. PICK c \in Span(s * Stride, Stride) : mem[c] = Canary /\ mem' = Fill(mem, {c}, Junk)
    BY DEF StrayWriteAfterFree
  <1>4. hist \in Hists /\ hist' = [hist EXCEPT !.strays = @ + 1, !.hit = @ \cup {s}]
    BY <1>1 DEF StrayWriteAfterFree, Shapes
  <1>5. PICK st, R, m, n, hit, hit2, x, q :
          /\ st = stack /\ R = conf.requests /\ m = mem /\ n = mem'
          /\ hit = hist.hit /\ hit2 = hist'.hit /\ x = ring[i]
          /\ q = LayerAt(stack, "quarantine")
    OBVIOUS
  <1>6. q \in 1..(Len(st) + 1) /\ st \in Seq(Layers) /\ R \in SUBSET Lay
    BY <1>1, <1>2, <1>5, ConfIs, QuarantineAt DEF Draining
  <1>7. Waits(st, R, m, hit, x, q)
    BY <1>1, <1>2, <1>5 DEF RingKept
  <1>8. Returning(st, R, m, hit, x, q)
    BY <1>7 DEF Waits
  <1>9. s \in AllSlots
    <2>1. PICK z, l, d : Backed(st, R, m, hit, x, q, z, l, d)
      BY <1>6, <1>8, ReturningIs
    <2>2. SlotOf(x.ptr) \in AllSlots
      BY <1>6, <2>1, ReturningIs
    <2> QED BY <1>5, <2>2
  <1>10. hist'.hit = hist.hit \cup {s}
    BY <1>4, <1>9, HistStrays
  <1>11. s = SlotOf(x.ptr)
    BY <1>5
  <1>12. c \in SlotCells(s)
    BY <1>3 DEF SlotCells
  <1> HIDE DEF s
  <1>13. Returning(st, R, n, hit2, x, q)
    <2>1. m[c] = Canary /\ n = Fill(m, {c}, Junk) /\ SlotOf(x.ptr) \in hit2
      BY <1>3, <1>5, <1>10, <1>11
    <2> QED BY <1>6, <1>8, <1>11, <1>12, <2>1, StruckWhileReturning
  <1>14. Waits(st, R, n, hit2, x, q)
    <2>1. \A e \in Cells : Secret(n, e) => n[e] = m[e]
      BY <1>3, <1>5, <1>9, <1>12, StruckCell
    <2>2. \A e \in SlotCells(s) : e \in Cells
      BY <1>9, SlotIn
    <2>3. Clean(m, s) => Clean(n, s)
      BY <2>1, <2>2 DEF Clean, Secret
    <2> QED BY <1>7, <1>11, <1>13, <2>3 DEF Waits
  <1>15. s \in RingSlots
    BY <1>2 DEF s, RingSlots
  <1>16. s \notin FreeSlots /\ \A b \in live : b.slot # s
    BY <1>1, <1>15 DEF OnePlace, Parts, LiveSlots
  <1>17. \A j \in Waiting : SlotOf(ring[j].ptr) = s =>
           Waits(stack, conf.requests, mem', hist'.hit, ring[j], LayerAt(stack, "quarantine"))
    <2>1. \A j \in Waiting : SlotOf(ring[j].ptr) = s => j = i
      BY <1>1, <1>2 DEF s, OnePlace
    <2> QED BY <1>5, <1>14, <2>1
  <1> QED BY <1>3, <1>4, <1>9, <1>12, <1>16, <1>17, StrayKeeps DEF StrayWriteAfterFree

(* Only the call moves, and it holds no block before or after. *)
LEMMA CallOnly ==
  ASSUME IndInv, Shapes', UNCHANGED <<conf, mem, free, ring, count, live, lost>>,
         call.at = 0, call'.at = 0, hist'.hit = hist.hit, hist'.taken = hist.taken,
         hist'.delay = hist.delay, Draining',
         hist'.dropped = TRUE
  PROVE  IndInv'
  <1>1. /\ Shapes /\ OnePlace /\ Draining /\ LiveIntact /\ RingKept /\ CallKept
        /\ FreeClean /\ LostHit /\ Ages
    BY DEF IndInv
  <1>2. CallSlots = {} /\ CallSlots' = {}
    BY DEF CallSlots
  <1>3. OnePlace' /\ Waiting' = Waiting
    BY <1>1, <1>2, SamePlaces
  <1>4. LiveIntact' /\ RingKept' /\ CallKept' /\ FreeClean'
    <2>1. Waiting' # {} => HasLayer(stack, "quarantine")
      BY <1>1, <1>3 DEF Draining
    <2>2. PICK s : s = -1
      OBVIOUS
    <2>3. Apart(mem, mem', hist.hit, hist'.hit, s)
      BY DEF Apart
    <2>4. \A b \in live' : b \in live /\ b.slot # s
      <3> SUFFICES ASSUME NEW b \in live PROVE b.slot # s
        OBVIOUS
      <3>1. b.slot \in AllSlots
        BY <1>1 DEF OnePlace, Parts, LiveSlots
      <3> QED BY <2>2, <3>1, Constants DEF AllSlots
    <2>5. \A i \in Waiting' : i \in Waiting /\ ring'[i] = ring[i] /\ SlotOf(ring'[i].ptr) # s
      <3> SUFFICES ASSUME NEW i \in Waiting PROVE SlotOf(ring[i].ptr) # s
        BY <1>3
      <3>1. SlotOf(ring[i].ptr) \in AllSlots
        BY <1>1 DEF OnePlace, Parts, RingSlots
      <3> QED BY <2>2, <3>1, Constants DEF AllSlots
    <2>6. \A i \in DOMAIN free' : free'[i] \in FreeSlots /\ free'[i] # s
      <3> SUFFICES ASSUME NEW i \in DOMAIN free PROVE free[i] \in FreeSlots /\ free[i] # s
        OBVIOUS
      <3>1. free[i] \in FreeSlots
        BY DEF FreeSlots
      <3>2. free[i] \in AllSlots
        BY <1>1, <3>1 DEF OnePlace, Parts
      <3> QED BY <2>2, <3>1, <3>2, Constants DEF AllSlots
    <2>7. ~(call'.at > 0)
      OBVIOUS
    <2> QED BY <1>1, <2>1, <2>3, <2>4, <2>5, <2>6, <2>7, StepKeeps
  <1>5. LostHit'
    BY <1>1 DEF LostHit
  <1>6. Ages'
    BY <1>1, <1>3, AgesKept
  <1> QED BY <1>3, <1>4, <1>5, <1>6 DEF IndInv

LEMMA DropStep == IndInv /\ Drop => IndInv'
  <1> SUFFICES ASSUME IndInv, Drop PROVE IndInv'
    OBVIOUS
  <1>1. Shapes /\ Draining
    BY DEF IndInv
  <1>2. stack' = stack /\ Depth' = Depth /\ Epochs' = Epochs
    BY DEF stack, Depth, Epochs, Drop
  <1>3. call = Idle /\ call.at = 0 /\ call.drain = -1 /\ ~hist.dropped
    BY ReadyIs DEF Drop
  <1>4. /\ hist' \in Hists /\ hist'.hit = hist.hit /\ hist'.taken = hist.taken
        /\ hist'.delay = hist.delay /\ hist'.dropped = TRUE
    BY <1>1, HistDropped DEF Drop, Shapes
  <1>5. Depth \in Nat /\ Epochs \in Nat /\ Epochs > 0
    BY <1>1, ConfIs
  <1>6. /\ call'.at = 0 /\ call' \in Calls(Depth, Epochs)
        /\ HasLayer(stack, "quarantine") => call'.drain = 0
        /\ ~HasLayer(stack, "quarantine") => call' = Idle
    <2>1. CASE HasLayer(stack, "quarantine")
      <3>1. call' = CallAt(0, -1, 0, 1, 0)
        BY <2>1 DEF Drop, Idle, CallAt
      <3>2. 0 \in 0..(Depth + 1) /\ 0 \in -1..Epochs /\ -1 \in Int /\ 0 \in Int /\ 1 \in Int
        BY <1>5
      <3>3. CallAt(0, -1, 0, 1, 0) \in Calls(Depth, Epochs)
        BY <1>5, <3>2, CallAtIn
      <3> QED BY <2>1, <3>1, <3>3, CallAtIs
    <2>2. CASE ~HasLayer(stack, "quarantine")
      <3>1. call' = Idle
        BY <2>2 DEF Drop
      <3> QED BY <1>5, <2>2, <3>1, IdleIs, IdleIn
    <2> QED BY <2>1, <2>2
  <1>7. Shapes'
    BY <1>1, <1>2, <1>4, <1>6 DEF Shapes, Drop
  <1>8. Waiting' = Waiting /\ \A i \in Waiting : i >= 0
    <2>1. Waiting' = Waiting
      BY DEF Drop, Waiting
    <2>2. DOMAIN ring = 0..(Epochs - 1)
      BY <1>1 DEF Shapes
    <2> QED BY <1>5, <2>1, <2>2 DEF Waiting
  <1>9. Draining'
    <2>1. CASE HasLayer(stack, "quarantine")
      <3>1. call'.drain = 0 /\ call' # Idle
        BY <1>6, <2>1, IdleIs
      <3> QED BY <1>1, <1>2, <1>4, <1>6, <1>8, <2>1, <3>1 DEF Draining
    <2>2. CASE ~HasLayer(stack, "quarantine")
      <3>1. call' = Idle /\ Waiting = {} /\ call'.drain = -1 /\ call'.at = 0
        BY <1>1, <1>6, <2>2, IdleIs DEF Draining
      <3> QED BY <1>2, <1>4, <1>8, <3>1 DEF Draining
    <2> QED BY <2>1, <2>2
  <1> QED BY <1>3, <1>4, <1>6, <1>7, <1>9, CallOnly DEF Drop

LEMMA DrainDoneStep == IndInv /\ DrainDone => IndInv'
  <1> SUFFICES ASSUME IndInv, DrainDone PROVE IndInv'
    OBVIOUS
  <1>1. Shapes /\ Draining
    BY DEF IndInv
  <1>2. stack' = stack /\ Depth' = Depth /\ Epochs' = Epochs
    BY DEF stack, Depth, Epochs, DrainDone
  <1>3. call.at = 0 /\ call.drain = Epochs /\ call' = Idle /\ hist' = hist
    BY DEF DrainDone
  <1>4. Depth \in Nat /\ Epochs \in Nat /\ Epochs > 0 /\ DOMAIN ring = 0..(Epochs - 1)
    BY <1>1, ConfIs DEF Shapes
  <1>5. call' \in Calls(Depth, Epochs) /\ call'.at = 0 /\ call'.drain = -1
    BY <1>3, <1>4, IdleIn, IdleIs
  <1>6. Shapes'
    BY <1>1, <1>2, <1>5 DEF Shapes, DrainDone
  <1>7. Waiting = {} /\ hist.dropped
    <2>1. hist.dropped /\ \A i \in Waiting : i >= Epochs
      BY <1>1, <1>3, <1>4 DEF Draining
    <2> QED BY <1>4, <2>1 DEF Waiting
  <1>8. Waiting' = {}
    BY <1>7 DEF Waiting, DrainDone
  <1>9. Draining'
    BY <1>2, <1>3, <1>5, <1>7, <1>8 DEF Draining
  <1>10. hist'.dropped = TRUE
    <2>1. hist \in Hists
      BY <1>1 DEF Shapes
    <2>2. hist.dropped \in BOOLEAN
      BY <2>1 DEF Hists
    <2> QED BY <1>3, <1>7, <2>2
  <1> QED BY <1>3, <1>5, <1>6, <1>9, <1>10, CallOnly DEF DrainDone

(* A block leaves the ring for the layer below. *)
LEMMA LeavesRing ==
  ASSUME Shapes, Draining, RingKept, NEW i \in Waiting, NEW z, Passes(z, ring[i])
  PROVE  LET q == LayerAt(stack, "quarantine")
         IN /\ HasLayer(stack, "quarantine") /\ q \in 1..Depth /\ stack[q] = "quarantine"
            /\ Waits(stack, conf.requests, mem, hist.hit, z, q + 1)
            /\ SlotOf(z.ptr) = SlotOf(ring[i].ptr) /\ SlotOf(z.ptr) \in AllSlots
            /\ z.ptr \in Nat /\ ring[i] \in Entry
  <1>1. PICK st, R, m, hit, x, q :
          /\ st = stack /\ R = conf.requests /\ m = mem /\ hit = hist.hit /\ x = ring[i]
          /\ q = LayerAt(stack, "quarantine")
    OBVIOUS
  <1>2. HasLayer(stack, "quarantine")
    BY DEF Draining
  <1>3. q \in 1..Depth /\ stack[q] = "quarantine" /\ Depth = Len(stack) /\ Depth \in Nat
    BY <1>1, <1>2, QuarantineAt, ConfIs
  <1>4. /\ st \in Seq(Layers) /\ R \in SUBSET Lay /\ q \in 1..Len(st) /\ st[q] = "quarantine"
        /\ q \in 1..(Len(st) + 1)
    BY <1>1, <1>3, ConfIs
  <1>5. Waits(st, R, m, hit, x, q)
    BY <1>1 DEF RingKept
  <1>6. Returning(st, R, m, hit, x, q) /\ Passes(z, x)
    BY <1>1, <1>5 DEF Waits
  <1>7. SlotOf(x.ptr) \in AllSlots /\ x.ptr \in Nat
    <2>1. PICK s, l, d : Backed(st, R, m, hit, x, q, s, l, d)
      BY <1>4, <1>6, ReturningIs
    <2> QED BY <1>4, <2>1, ReturningIs
  <1>8. Handed(st, R, m, m, hit, x, z, q)
    <2>1. st[q] # "canary" /\ st[q] # "jitter"
      BY <1>4
    <2> QED BY <1>4, <1>6, <2>1, PassedOn
  <1>9. Waits(st, R, m, hit, z, q + 1)
    <2>1. st[q] \notin {"poison", "zeroize"}
      BY <1>4
    <2> QED BY <1>4, <1>5, <1>7, <1>8, <2>1, HandedWaits
  <1>10. z.ptr = x.ptr
    BY <1>6 DEF Passes
  <1>11. ring[i] \in Entry
    <2>1. ring \in [0..(Epochs - 1) -> Entry]
      BY DEF Shapes
    <2> QED BY <2>1 DEF Waiting
  <1> QED BY <1>1, <1>2, <1>3, <1>7, <1>9, <1>10, <1>11

LEMMA RingEmptied ==
  ASSUME OnePlace, NEW i \in Waiting, ring' = [ring EXCEPT ![i] = NoBlock]
  PROVE  /\ Waiting' = Waiting \ {i}
         /\ \A j \in Waiting' : ring'[j] = ring[j]
         /\ RingSlots' = RingSlots \ {SlotOf(ring[i].ptr)}
  <1>1. /\ DOMAIN ring' = DOMAIN ring /\ i \in DOMAIN ring /\ ring'[i] = NoBlock
        /\ \A j \in DOMAIN ring : j # i => ring'[j] = ring[j]
    BY DEF Waiting
  <1>2. Waiting' = Waiting \ {i}
    BY <1>1 DEF Waiting
  <1>3. \A j \in Waiting' : ring'[j] = ring[j]
    BY <1>1, <1>2 DEF Waiting
  <1>4. \A j \in Waiting : SlotOf(ring[j].ptr) = SlotOf(ring[i].ptr) => j = i
    BY DEF OnePlace
  <1>5. RingSlots' = RingSlots \ {SlotOf(ring[i].ptr)}
    BY <1>2, <1>3, <1>4 DEF RingSlots
  <1> QED BY <1>2, <1>3, <1>5

LEMMA DrainNextStep == IndInv /\ DrainNext => IndInv'
  <1> SUFFICES ASSUME IndInv, DrainNext PROVE IndInv'
    OBVIOUS
  <1>1. /\ Shapes /\ OnePlace /\ Draining /\ LiveIntact /\ RingKept /\ CallKept
        /\ FreeClean /\ LostHit /\ Ages
    BY DEF IndInv
  <1>2. /\ stack' = stack /\ Depth' = Depth /\ Epochs' = Epochs
        /\ conf' = conf /\ mem' = mem /\ free' = free /\ count' = count /\ live' = live
        /\ lost' = lost /\ hist' = hist /\ call.at = 0
    BY DEF stack, Depth, Epochs, DrainNext
  <1>3. /\ Depth \in Nat /\ Epochs \in Nat /\ ring \in [0..(Epochs - 1) -> Entry]
        /\ call \in Calls(Depth, Epochs) /\ hist \in Hists
    BY <1>1, ConfIs DEF Shapes
  <1>4. PICK k \in 0..(Epochs - 1) : k = call.drain
    BY <1>3 DEF DrainNext
  <1>5. ring' = [ring EXCEPT ![k] = NoBlock]
    BY <1>4 DEF DrainNext, RingWith
  <1>6. /\ hist.dropped /\ HasLayer(stack, "quarantine") /\ \A i \in Waiting : i >= k
    BY <1>1, <1>3, <1>4 DEF Draining
  <1>7. hist.dropped = TRUE
    BY <1>3, <1>6 DEF Hists
  <1>8. CASE ring[k] = NoBlock
    <2>1. ring' = ring
      BY <1>3, <1>5, <1>8
    <2>2. call' = [call EXCEPT !.drain = @ + 1]
      BY <1>4, <1>8 DEF DrainNext
    <2>3. call'.at = 0 /\ call'.drain = k + 1 /\ call' \in Calls(Depth, Epochs)
      BY <1>2, <1>3, <1>4, <2>2 DEF Calls
    <2>4. Shapes'
      BY <1>1, <1>2, <2>1, <2>3 DEF Shapes
    <2>5. Waiting' = Waiting
      BY <2>1 DEF Waiting
    <2>6. \A i \in Waiting : i >= k + 1
      <3>1. \A i \in Waiting : i \in 0..(Epochs - 1) /\ i # k
        BY <1>3, <1>8 DEF Waiting
      <3> QED BY <1>3, <1>6, <3>1
    <2>7. Draining'
      <3>1. call' # Idle
        BY <1>3, <2>3, IdleIs
      <3>2. k + 1 >= 0 /\ k + 1 # -1
        BY <1>3
      <3> QED BY <1>2, <1>6, <2>3, <2>5, <2>6, <3>1, <3>2 DEF Draining
    <2> QED BY <1>2, <1>7, <2>1, <2>3, <2>4, <2>7, CallOnly
  <1>9. CASE ring[k] # NoBlock
    <2>1. k \in Waiting
      BY <1>3, <1>9 DEF Waiting
    <2>2. PICK z, q, b, s : /\ z = call' /\ q = LayerAt(stack, "quarantine") /\ b = ring[k]
                            /\ s = SlotOf(ring[k].ptr)
      OBVIOUS
    <2>3. call' = CallAt(q + 1, b.ptr, b.size, b.align, k + 1)
      BY <1>4, <1>9, <2>2 DEF DrainNext, CallAt
    <2>4. /\ call'.at = q + 1 /\ call'.drain = k + 1 /\ call'.ptr = b.ptr
          /\ call'.size = b.size /\ call'.align = b.align
      BY <2>3, CallAtIs
    <2>5. Passes(z, ring[k])
      BY <2>2, <2>4 DEF Passes
    <2>6. /\ q \in 1..Depth /\ Waits(stack, conf.requests, mem, hist.hit, z, q + 1)
          /\ SlotOf(z.ptr) = s /\ s \in AllSlots /\ b \in Entry
      BY <1>1, <2>1, <2>2, <2>5, LeavesRing
    <2>7. Shapes'
      <3>1. ring' \in [0..(Epochs - 1) -> Entry]
        BY <1>3, <1>5, NoBlockIs
      <3>2. q + 1 \in 0..(Depth + 1) /\ k + 1 \in -1..Epochs
        BY <1>3, <2>6
      <3>3. b.ptr \in Int /\ b.size \in Int /\ b.align \in Int
        BY <2>6 DEF Entry
      <3>4. CallAt(q + 1, b.ptr, b.size, b.align, k + 1) \in Calls(Depth, Epochs)
        BY <1>3, <3>2, <3>3, CallAtIn
      <3> QED BY <1>1, <1>2, <2>3, <3>1, <3>4 DEF Shapes
    <2>8. /\ Waiting' = Waiting \ {k} /\ \A j \in Waiting' : ring'[j] = ring[j]
          /\ RingSlots' = RingSlots \ {s}
      BY <1>1, <1>5, <2>1, <2>2, RingEmptied
    <2>9. call'.at # 0 /\ call'.at > 0
      BY <1>3, <2>4, <2>6
    <2>10. CallSlots' = {s} /\ CallSlots = {}
      BY <1>2, <2>2, <2>6, <2>9 DEF CallSlots
    <2>11. FreeSlots' = FreeSlots /\ LiveSlots' = LiveSlots
      BY <1>2 DEF FreeSlots, LiveSlots
    <2>12. OnePlace'
      <3>1. Parts(LiveSlots, RingSlots, {}, FreeSlots, lost) /\ s \in RingSlots
        BY <1>1, <2>1, <2>2, <2>10 DEF OnePlace, RingSlots
      <3>2. Parts(LiveSlots, RingSlots \ {s}, {s}, FreeSlots, lost)
        BY <3>1 DEF Parts
      <3>3. Parts(LiveSlots', RingSlots', CallSlots', FreeSlots', lost')
        BY <1>2, <2>8, <2>10, <2>11, <3>2
      <3>4. \A i, j \in Waiting' : SlotOf(ring'[i].ptr) = SlotOf(ring'[j].ptr) => i = j
        BY <1>1, <2>8 DEF OnePlace
      <3> QED BY <1>1, <1>2, <3>3, <3>4 DEF OnePlace
    <2>13. Draining'
      <3>1. call' # Idle
        BY <2>9, IdleIs
      <3>2. k + 1 >= 0 /\ k + 1 # -1 /\ q + 1 > q
        BY <1>3, <2>6
      <3>3. \A i \in Waiting' : i >= k + 1
        <4>1. \A i \in Waiting' : i \in 0..(Epochs - 1) /\ i # k /\ i >= k
          BY <1>3, <1>6, <2>8 DEF Waiting
        <4> QED BY <1>3, <4>1
      <3> QED BY <1>2, <1>6, <2>2, <2>4, <2>9, <3>1, <3>2, <3>3 DEF Draining
    <2>14. LiveIntact' /\ RingKept' /\ CallKept' /\ FreeClean'
      <3>1. s \in RingSlots
        BY <2>1, <2>2 DEF RingSlots
      <3>2. Apart(mem, mem', hist.hit, hist'.hit, s)
        BY <1>2 DEF Apart
      <3>3. \A b2 \in live' : b2 \in live /\ b2.slot # s
        BY <1>1, <1>2, <3>1 DEF OnePlace, Parts, LiveSlots
      <3>4. \A i \in Waiting' : i \in Waiting /\ ring'[i] = ring[i] /\ SlotOf(ring'[i].ptr) # s
        BY <1>1, <2>1, <2>2, <2>8 DEF OnePlace
      <3>5. \A i \in DOMAIN free' : free'[i] \in FreeSlots /\ free'[i] # s
        BY <1>1, <1>2, <3>1 DEF OnePlace, Parts, FreeSlots
      <3>6. Waits(stack, conf.requests, mem', hist'.hit, call', call'.at)
        BY <1>2, <2>2, <2>4, <2>6
      <3> QED BY <1>1, <1>2, <1>6, <2>7, <3>2, <3>3, <3>4, <3>5, <3>6, StepKeeps
    <2>15. LostHit' /\ Ages'
      BY <1>1, <1>2, <2>8, AgesKept DEF LostHit
    <2> QED BY <2>7, <2>12, <2>13, <2>14, <2>15 DEF IndInv
  <1> QED BY <1>8, <1>9

-----------------------------------------------------------------------------
(* The turns of the ring.                                                  *)

(* k steps on from p, within one turn of a ring of E entries. *)
LEMMA Turn ==
  ASSUME NEW E \in Nat, E > 0, NEW p \in Nat, NEW k \in 1..E
  PROVE  /\ p % E \in 0..(E - 1) /\ p % E <= p
         /\ \/ (p % E) + k < E /\ (p + k) % E = (p % E) + k
            \/ (p % E) + k >= E /\ (p + k) % E = (p % E) + k - E
  <1>1. PICK q \in Nat, r \in Nat : r < E /\ p = q * E + r /\ p % E = r
    BY DivEquation
  <1> DEFINE t == q * E
  <1>2. t \in Nat
    BY TimesNat
  <1>3. (q + 1) * E = t + E /\ q + 1 \in Nat
    BY TimesSucc
  <1>4. ASSUME r + k < E PROVE (p + k) % E = r + k
    <2>1. p + k \in Nat /\ r + k \in Nat /\ p + k = q * E + (r + k)
      <3>1. p = t + r
        BY <1>1
      <3> HIDE DEF t
      <3>2. p + k = t + (r + k)
        BY <1>2, <3>1
      <3> QED BY <3>2 DEF t
    <2>2. PICK a \in Nat, b \in Nat : a = p + k /\ b = r + k
      BY <2>1
    <2>3. a = q * E + b /\ b < E
      BY <1>4, <2>1, <2>2
    <2>4. a % E = b
      BY <2>3, DivUnique
    <2> QED BY <2>2, <2>4
  <1>5. ASSUME r + k >= E PROVE (p + k) % E = r + k - E
    <2>1. p + k \in Nat /\ r + k - E \in Nat /\ r + k - E < E
      BY <1>1, <1>5
    <2>2. p + k = (q + 1) * E + (r + k - E)
      <3>1. p = t + r
        BY <1>1
      <3> HIDE DEF t
      <3>2. p + k = (t + E) + (r + k - E)
        BY <1>2, <3>1
      <3> QED BY <1>3, <3>2
    <2>3. PICK a \in Nat, b \in Nat : a = p + k /\ b = r + k - E
      BY <2>1
    <2>4. a = (q + 1) * E + b /\ b < E
      BY <2>1, <2>2, <2>3
    <2>5. a % E = b
      BY <1>3, <2>4, DivUnique
    <2> QED BY <2>3, <2>5
  <1>6. r <= p
    <2>1. p = t + r
      BY <1>1
    <2> HIDE DEF t
    <2> QED BY <1>2, <2>1
  <1> QED BY <1>1, <1>4, <1>5, <1>6

LEMMA NextVisit ==
  ASSUME NEW E \in Nat, E > 0, NEW p \in Nat, NEW c \in Nat, p < c, c <= p + E,
         p % E = c % E
  PROVE  c = p + E
  <1>1. PICK k \in 1..E : c = p + k
    <2>1. c - p \in 1..E /\ c = p + (c - p)
      OBVIOUS
    <2> QED BY <2>1
  <1>2. p % E \in Nat
    BY <1>1, Turn
  <1>3. \/ c % E = (p % E) + k
        \/ c % E = (p % E) + k - E
    BY <1>1, Turn
  <1> QED BY <1>1, <1>2, <1>3

LEMMA SmallMod ==
  ASSUME NEW E \in Nat, NEW c \in Nat, c < E
  PROVE  c % E = c
  <1>1. 0 * E = 0
    OBVIOUS
  <1>2. c = 0 * E + c
    BY <1>1
  <1> QED BY <1>2, DivUnique

(* The turn in which the counter wraps at M. *)
LEMMA WrapVisit ==
  ASSUME NEW E \in Nat, E > 0, NEW M \in Nat, NEW p \in Nat, p < M, M <= p + E
  PROVE  LET short == M % E
             age == (p % E) + M - p
         IN age \in (IF short = 0 THEN {E} ELSE {E, short, E + short})
  <1>1. PICK k \in 1..E : M = p + k
    <2>1. M - p \in 1..E /\ M = p + (M - p)
      OBVIOUS
    <2> QED BY <2>1
  <1>2. PICK r, s : r = p % E /\ s = M % E
    OBVIOUS
  <1>3. /\ r \in 0..(E - 1)
        /\ \/ r + k < E /\ s = r + k
           \/ r + k >= E /\ s = r + k - E
    <2>1. /\ p % E \in 0..(E - 1)
          /\ \/ (p % E) + k < E /\ (p + k) % E = (p % E) + k
             \/ (p % E) + k >= E /\ (p + k) % E = (p % E) + k - E
      BY Turn
    <2> QED BY <1>1, <1>2, <2>1
  <1>4. r + M - p \in (IF s = 0 THEN {E} ELSE {E, s, E + s})
    BY <1>1, <1>3
  <1> QED BY <1>2, <1>4

(* An entry taken when the counter was p. *)
Aged(p, i, c, E, M, age) ==
  /\ p \in 0..(M - 1) /\ p % E = i
  /\ \/ p < c /\ c <= p + E /\ age = c - p
     \/ i >= c /\ M <= p + E /\ age = c + M - p

LEMMA AgedIs ==
  Ages <=> /\ \A i \in Waiting : \E p : Aged(p, i, count, Epochs, CountMod,
                                             hist.taken - ring[i].born)
           /\ LET short == CountMod % Epochs
              IN hist.delay \in (IF short = 0 THEN {Epochs}
                                 ELSE {Epochs, short, Epochs + short})
BY DEF Ages, Aged

(* The entry of the free that is made now, and what becomes of the others. *)
LEMMA AgedNew ==
  ASSUME NEW E \in Nat, E > 0, NEW M \in Nat, NEW c \in 0..(M - 1), NEW d,
         d = (c + 1) % M
  PROVE  Aged(c, c % E, d, E, M, 1)
  <1>1. CASE c + 1 < M
    <2>1. d = c + 1
      BY <1>1, SmallMod
    <2> QED BY <2>1 DEF Aged
  <1>2. CASE c + 1 = M
    <2>1. d = 0
      <3>1. M = 1 * M + 0 /\ M > 0
        BY <1>2
      <3>2. M % M = 0
        BY <3>1, DivUnique
      <3> QED BY <1>2, <3>2
    <2>2. c % E >= 0
      <3>1. 1 \in 1..E
        OBVIOUS
      <3> QED BY <3>1, Turn
    <2> QED BY <1>2, <2>1, <2>2 DEF Aged
  <1> QED BY <1>1, <1>2

LEMMA AgedOther ==
  ASSUME NEW E \in Nat, E > 0, NEW M \in Nat, NEW c \in 0..(M - 1), NEW d,
         d = (c + 1) % M, NEW p, NEW i, NEW age \in Int, Aged(p, i, c, E, M, age), i # c % E
  PROVE  Aged(p, i, d, E, M, age + 1)
  <1>1. p \in 0..(M - 1) /\ p % E = i /\ p \in Nat /\ c \in Nat /\ 1 \in 1..E
    BY DEF Aged
  <1>2. i \in 0..(E - 1) /\ i <= p
    BY <1>1, Turn
  <1>3. (c + 1 < M /\ d = c + 1) \/ (c + 1 = M /\ d = 0)
    <2>1. CASE c + 1 < M
      BY <2>1, SmallMod
    <2>2. CASE c + 1 = M
      <3>1. M = 1 * M + 0 /\ M > 0
        BY <2>2
      <3>2. M % M = 0
        BY <3>1, DivUnique
      <3> QED BY <2>2, <3>2
    <2> QED BY <2>1, <2>2
  <1>4. CASE p < c /\ c <= p + E /\ age = c - p
    <2>1. c # p + E
      <3> SUFFICES ASSUME c = p + E PROVE FALSE
        OBVIOUS
      <3>1. E \in 1..E /\ (p % E) + E >= E
        BY <1>1, <1>2
      <3>2. (p + E) % E = (p % E) + E - E
        <4>1. ~((p % E) + E < E)
          BY <1>1, <1>2
        <4> QED BY <1>1, <3>1, <4>1, Turn
      <3>3. c % E = i
        BY <1>1, <1>2, <3>2
      <3> QED BY <3>3
    <2> QED BY <1>1, <1>2, <1>3, <1>4, <2>1 DEF Aged
  <1>5. CASE i >= c /\ M <= p + E /\ age = c + M - p
    <2>1. c % E = c
      BY <1>1, <1>2, <1>5, SmallMod
    <2>2. i >= c + 1 /\ c + 1 < M
      BY <1>1, <1>2, <1>5, <2>1
    <2> QED BY <1>1, <1>2, <1>3, <1>5, <2>2 DEF Aged
  <1> QED BY <1>4, <1>5 DEF Aged

LEMMA AgedLeaves ==
  ASSUME NEW E \in Nat, E > 0, NEW M \in Nat, NEW c \in 0..(M - 1),
         NEW p, NEW age \in Int, Aged(p, c % E, c, E, M, age)
  PROVE  LET short == M % E
         IN age \in (IF short = 0 THEN {E} ELSE {E, short, E + short})
  <1>1. p \in 0..(M - 1) /\ p % E = c % E /\ p \in Nat /\ c \in Nat /\ 1 \in 1..E
    BY DEF Aged
  <1>2. CASE p < c /\ c <= p + E /\ age = c - p
    <2>1. c = p + E
      BY <1>1, <1>2, NextVisit
    <2> QED BY <1>1, <1>2, <2>1
  <1>3. CASE c % E >= c /\ M <= p + E /\ age = c + M - p
    <2>1. c % E \in 0..(E - 1) /\ c % E <= c
      BY <1>1, Turn
    <2>2. c = p % E
      BY <1>1, <1>3, <2>1
    <2>3. age = (p % E) + M - p
      BY <1>3, <2>2
    <2>4. p < M
      BY <1>1
    <2> QED BY <1>1, <1>3, <2>3, <2>4, WrapVisit
  <1> QED BY <1>2, <1>3 DEF Aged

LEMMA SameWaits ==
  ASSUME NEW st \in Seq(Layers), NEW R \in SUBSET Lay, NEW k \in 1..(Len(st) + 1),
         NEW m, NEW hit, NEW x, NEW z, Waits(st, R, m, hit, x, k), Passes(z, x)
  PROVE  Waits(st, R, m, hit, z, k)
  <1>1. PICK s, l, d : Backed(st, R, m, hit, x, k, s, l, d)
    BY ReturningIs DEF Waits
  <1>2. Backed(st, R, m, hit, z, k, s, l, d)
    BY <1>1 DEF Backed, Seen, Passes
  <1>3. Returning(st, R, m, hit, z, k)
    BY <1>2, ReturningIs
  <1> QED BY <1>3 DEF Waits, Passes

(* The entry of the ring for the block in the call. *)
Taken == [ptr |-> call.ptr, size |-> call.size, align |-> call.align, born |-> hist.taken]

LEMMA TakenIs ==
  ASSUME call.ptr \in Nat, call.size \in Int, call.align \in Int, hist.taken \in Nat
  PROVE  /\ Taken \in Entry /\ Taken # NoBlock
         /\ Taken.ptr = call.ptr /\ Taken.size = call.size /\ Taken.align = call.align
         /\ Taken.born = hist.taken
  <1>1. /\ Taken \in Entry
        /\ Taken.ptr = call.ptr /\ Taken.size = call.size /\ Taken.align = call.align
        /\ Taken.born = hist.taken
    BY DEF Taken, Entry
  <1>2. NoBlock.ptr = -1
    BY DEF NoBlock
  <1> HIDE DEF Taken
  <1> QED BY <1>1, <1>2

LEMMA QuarantineStep == IndInv /\ QuarantineDeallocate => IndInv'
  <1> SUFFICES ASSUME IndInv, QuarantineDeallocate PROVE IndInv'
    OBVIOUS
  <1>1. /\ Shapes /\ OnePlace /\ Draining /\ LiveIntact /\ RingKept /\ CallKept
        /\ FreeClean /\ LostHit /\ Ages
    BY DEF IndInv
  <1>2. /\ stack' = stack /\ Depth' = Depth /\ Epochs' = Epochs
        /\ conf' = conf /\ mem' = mem /\ free' = free /\ live' = live /\ lost' = lost
        /\ call.at \in 1..Depth /\ stack[call.at] = "quarantine"
        /\ count' = (count + 1) % CountMod
    BY DEF stack, Depth, Epochs, QuarantineDeallocate, At
  <1>3. /\ Depth \in Nat /\ Depth = Len(stack) /\ Epochs \in Nat /\ Epochs > 0
        /\ CountMod \in Nat /\ CountMod > 0 /\ call.at > 0
        /\ ring \in [0..(Epochs - 1) -> Entry] /\ count \in 0..(CountMod - 1)
        /\ call \in Calls(Depth, Epochs) /\ hist \in Hists /\ hist.taken \in Nat
    <2>1. /\ ring \in [0..(Epochs - 1) -> Entry] /\ count \in 0..(CountMod - 1)
          /\ call \in Calls(Depth, Epochs) /\ hist \in Hists
      BY <1>1 DEF Shapes
    <2>2. hist.taken \in Nat
      BY <2>1 DEF Hists
    <2> QED BY <1>1, <1>2, <2>1, <2>2, ConfIs
  <1>4. PICK idx \in 0..(Epochs - 1) : idx = count % Epochs
    <2>1. count \in Nat /\ 1 \in 1..Epochs
      BY <1>3
    <2>2. count % Epochs \in 0..(Epochs - 1)
      BY <1>3, <2>1, Turn
    <2> QED BY <2>2
  <1>5. PICK st, R, m, hit, x, q, s, e :
          /\ st = stack /\ R = conf.requests /\ m = mem /\ hit = hist.hit /\ x = call
          /\ q = call.at /\ s = SlotOf(call.ptr) /\ e = Taken
    OBVIOUS
  <1>6. /\ st \in Seq(Layers) /\ R \in SUBSET Lay /\ q \in 1..Len(st) /\ q \in 1..(Len(st) + 1)
        /\ HasLayer(stack, "quarantine") /\ LayerAt(stack, "quarantine") = q
    BY <1>1, <1>2, <1>3, <1>5, ConfIs, QuarantineAt
  <1>7. Waits(st, R, m, hit, x, q) /\ s \in AllSlots /\ CallSlots = {s}
    BY <1>3, <1>5, InCall
  <1>8. call.ptr \in Nat /\ call.size \in Int /\ call.align \in Int
    <2>1. PICK z, l, d : Backed(st, R, m, hit, x, q, z, l, d)
      BY <1>6, <1>7, ReturningIs DEF Waits
    <2>2. x.ptr \in Nat
      BY <1>6, <2>1, ReturningIs
    <2> QED BY <1>3, <1>5, <2>2 DEF Calls
  <1>9. /\ e \in Entry /\ e # NoBlock
        /\ e.ptr = call.ptr /\ e.size = call.size /\ e.align = call.align
        /\ e.born = hist.taken
    BY <1>3, <1>5, <1>8, TakenIs
  <1>10. ring' = [ring EXCEPT ![idx] = e]
    BY <1>4, <1>5 DEF QuarantineDeallocate, RingWith, Taken
  <1>11. /\ ring' \in [0..(Epochs - 1) -> Entry] /\ ring'[idx] = e
         /\ \A j \in 0..(Epochs - 1) : j # idx => ring'[j] = ring[j]
    BY <1>3, <1>9, <1>10
  <1>12. /\ Waiting' = Waiting \cup {idx}
         /\ \A j \in Waiting' : j # idx => j \in Waiting /\ ring'[j] = ring[j]
    BY <1>3, <1>9, <1>11 DEF Waiting
  <1>13. call.drain = -1 /\ ~hist.dropped
    <2>1. call.drain \in -1..Epochs /\ q \in Nat
      BY <1>3, <1>6 DEF Calls
    <2>2. ~(call.at > LayerAt(stack, "quarantine"))
      BY <1>5, <1>6, <2>1
    <2>3. ~(call.drain >= 0)
      BY <1>1, <1>3, <2>2 DEF Draining
    <2>4. call.drain = -1
      BY <1>3, <2>1, <2>3
    <2> QED BY <1>1, <1>3, <2>4 DEF Draining
  <1>14. Waits(st, R, m, hit, e, q)
    <2>1. Passes(e, x)
      BY <1>5, <1>9 DEF Passes
    <2> QED BY <1>6, <1>7, <2>1, SameWaits
  <1>15. SlotOf(e.ptr) = s
    BY <1>5, <1>9
  <1>16. /\ \A b \in live : b.slot # s
         /\ \A i \in Waiting : SlotOf(ring[i].ptr) # s
         /\ \A i \in DOMAIN free : free[i] # s /\ free[i] \in FreeSlots
    BY <1>1, <1>7, Elsewheres
  <1>17. FreeSlots' = FreeSlots /\ LiveSlots' = LiveSlots
    BY <1>2 DEF FreeSlots, LiveSlots
  <1>18. Parts(LiveSlots, RingSlots, {s}, FreeSlots, lost)
    BY <1>1, <1>7 DEF OnePlace
  <1>19. \A i, j \in Waiting' : SlotOf(ring'[i].ptr) = SlotOf(ring'[j].ptr) => i = j
    BY <1>1, <1>11, <1>12, <1>15, <1>16 DEF OnePlace
  <1>20. count' \in 0..(CountMod - 1)
    BY <1>2, <1>3
  <1>21. ASSUME hist' \in Hists, hist'.hit = hist.hit, hist'.dropped = hist.dropped,
                call' \in Calls(Depth, Epochs), Draining',
                Parts(LiveSlots', RingSlots', CallSlots', FreeSlots', lost'), Ages',
                call'.at > 0 => Waits(st, R, m, hit, call', call'.at)
         PROVE  IndInv'
    <2>1. Shapes'
      BY <1>1, <1>2, <1>11, <1>20, <1>21 DEF Shapes
    <2>2. OnePlace'
      BY <1>1, <1>2, <1>19, <1>21 DEF OnePlace
    <2>3. LiveIntact' /\ RingKept' /\ CallKept' /\ FreeClean'
      <3>1. Apart(mem, mem', hist.hit, hist'.hit, s)
        BY <1>2, <1>21 DEF Apart
      <3>2. \A b \in live' : b \in live /\ b.slot # s
        BY <1>2, <1>16
      <3>3. \A i \in DOMAIN free' : free'[i] \in FreeSlots /\ free'[i] # s
        BY <1>2, <1>16
      <3>4. \A i \in Waiting' :
              i \notin Waiting \/ ring'[i] # ring[i] \/ SlotOf(ring'[i].ptr) = s =>
                Waits(stack, conf.requests, mem', hist'.hit, ring'[i],
                      LayerAt(stack, "quarantine"))
        <4>1. ASSUME NEW i \in Waiting', i # idx
              PROVE  i \in Waiting /\ ring'[i] = ring[i] /\ SlotOf(ring'[i].ptr) # s
          BY <1>12, <1>16, <4>1
        <4>2. Waits(stack, conf.requests, mem', hist'.hit, ring'[idx],
                    LayerAt(stack, "quarantine"))
          BY <1>2, <1>5, <1>6, <1>11, <1>14, <1>21
        <4> QED BY <4>1, <4>2
      <3>5. call'.at > 0 => Waits(stack, conf.requests, mem', hist'.hit, call', call'.at)
        BY <1>2, <1>5, <1>21
      <3> QED BY <1>1, <1>2, <1>6, <2>1, <3>1, <3>2, <3>3, <3>4, <3>5, StepKeeps
    <2>4. LostHit'
      BY <1>1, <1>2, <1>21 DEF LostHit
    <2> QED BY <1>21, <2>1, <2>2, <2>3, <2>4 DEF IndInv
  <1>22. ASSUME hist'.taken = hist.taken + 1,
                LET short == CountMod % Epochs
                IN hist'.delay \in (IF short = 0 THEN {Epochs}
                                    ELSE {Epochs, short, Epochs + short})
         PROVE  Ages'
    <2>1. ASSUME NEW i \in Waiting'
          PROVE  \E p : Aged(p, i, count', Epochs, CountMod, hist'.taken - ring'[i].born)
      <3>1. CASE i = idx
        <4>1. hist'.taken - ring'[i].born = 1
          BY <1>3, <1>9, <1>11, <1>22, <3>1
        <4>2. PICK c, d : c = count /\ d = count'
          OBVIOUS
        <4>3. Aged(c, c % Epochs, d, Epochs, CountMod, 1)
          BY <1>2, <1>3, <4>2, AgedNew
        <4> QED BY <1>4, <3>1, <4>1, <4>2, <4>3
      <3>2. CASE i # idx
        <4>1. i \in Waiting /\ ring'[i] = ring[i]
          BY <1>12, <2>1, <3>2
        <4>2. PICK age : age = hist.taken - ring[i].born
          OBVIOUS
        <4>3. ring[i].born \in Int /\ age \in Int
          <5>1. ring[i] \in Entry
            BY <1>3, <4>1 DEF Waiting
          <5>2. ring[i].born \in Int
            BY <5>1 DEF Entry
          <5> QED BY <1>3, <4>2, <5>2
        <4>4. PICK p : Aged(p, i, count, Epochs, CountMod, age)
          BY <1>1, <4>1, <4>2, AgedIs
        <4>5. hist'.taken - ring'[i].born = age + 1
          BY <1>3, <1>22, <4>1, <4>2, <4>3
        <4>6. PICK c, d : c = count /\ d = count'
          OBVIOUS
        <4>7. Aged(p, i, d, Epochs, CountMod, age + 1)
          BY <1>2, <1>3, <1>4, <3>2, <4>3, <4>4, <4>6, AgedOther
        <4> QED BY <4>5, <4>6, <4>7
      <3> QED BY <3>1, <3>2
    <2> QED BY <1>2, <1>22, <2>1 DEF Ages, Aged
  <1>23. CASE ring[idx] = NoBlock
    <2>1. call' = Idle /\ hist' = [hist EXCEPT !.taken = @ + 1]
      BY <1>4, <1>23 DEF QuarantineDeallocate
    <2>2. /\ hist' \in Hists /\ hist'.hit = hist.hit /\ hist'.taken = hist.taken + 1
          /\ hist'.delay = hist.delay /\ hist'.dropped = hist.dropped
      BY <1>3, <2>1, HistTaken
    <2>3. call' \in Calls(Depth, Epochs) /\ call'.at = 0 /\ call'.drain = -1
      BY <1>3, <2>1, IdleIs, IdleIn
    <2>4. CallSlots' = {}
      BY <2>3 DEF CallSlots
    <2>5. idx \notin Waiting
      BY <1>23 DEF Waiting
    <2>6. RingSlots' = RingSlots \cup {s}
      BY <1>11, <1>12, <1>15, <2>5 DEF RingSlots
    <2>7. Parts(LiveSlots', RingSlots', CallSlots', FreeSlots', lost')
      <3>1. Parts(LiveSlots, RingSlots \cup {s}, {}, FreeSlots, lost)
        BY <1>18 DEF Parts
      <3> QED BY <1>2, <1>17, <2>4, <2>6, <3>1
    <2>8. Draining'
      BY <1>2, <1>6, <1>13, <2>1, <2>2, <2>3 DEF Draining
    <2>9. Ages'
      BY <1>1, <1>22, <2>2 DEF Ages
    <2>10. ~(call'.at > 0)
      BY <2>3
    <2> QED BY <1>21, <2>2, <2>3, <2>7, <2>8, <2>9, <2>10
  <1>24. CASE ring[idx] # NoBlock
    <2>1. PICK b, a, z, t : /\ b = ring[idx] /\ a = hist.taken - ring[idx].born /\ z = call'
                            /\ t = SlotOf(ring[idx].ptr)
      OBVIOUS
    <2>2. idx \in Waiting /\ b \in Entry
      BY <1>3, <1>24, <2>1 DEF Waiting
    <2>3. Descend(b.ptr, b) /\ hist' = [hist EXCEPT !.taken = @ + 1, !.delay = a]
      BY <1>4, <1>24, <2>1 DEF QuarantineDeallocate
    <2>4. call' = CallAt(call.at + 1, b.ptr, b.size, b.align, call.drain)
      BY <1>1, <2>3, DescendIs
    <2>5. /\ call'.at = q + 1 /\ call'.drain = -1 /\ call'.ptr = b.ptr
          /\ call'.size = b.size /\ call'.align = b.align
      BY <1>5, <1>13, <2>4, CallAtIs
    <2>6. Passes(z, ring[idx])
      BY <2>1, <2>5 DEF Passes
    <2>7. /\ Waits(stack, conf.requests, mem, hist.hit, z, q + 1)
          /\ SlotOf(z.ptr) = t /\ t \in AllSlots
      BY <1>1, <1>6, <2>1, <2>2, <2>6, LeavesRing
    <2>8. b.ptr \in Int /\ b.size \in Int /\ b.align \in Int /\ b.born \in Int
      BY <2>2 DEF Entry
    <2>9. a \in Int
      BY <1>3, <2>1, <2>8
    <2>10. /\ hist' \in Hists /\ hist'.hit = hist.hit /\ hist'.taken = hist.taken + 1
           /\ hist'.delay = a /\ hist'.dropped = hist.dropped
      <3>1. Evicts(hist, hist', a)
        BY <2>3 DEF Evicts
      <3> QED BY <1>3, <2>9, <3>1, HistDelay
    <2>11. call' \in Calls(Depth, Epochs)
      <3>1. call.at + 1 \in 0..(Depth + 1) /\ call.drain \in -1..Epochs
        BY <1>2, <1>3 DEF Calls
      <3>2. CallAt(call.at + 1, b.ptr, b.size, b.align, call.drain) \in Calls(Depth, Epochs)
        BY <1>3, <2>8, <3>1, CallAtIn
      <3> QED BY <2>4, <3>2
    <2>12. call'.at > 0 /\ call'.at # 0
      BY <1>6, <2>5
    <2>13. CallSlots' = {t}
      BY <2>1, <2>7, <2>12 DEF CallSlots
    <2>14. RingSlots' = (RingSlots \ {t}) \cup {s} /\ t \in RingSlots
      <3>1. Waiting' = Waiting
        BY <1>12, <2>2
      <3>2. \A j \in Waiting : SlotOf(ring[j].ptr) = t => j = idx
        BY <1>1, <2>1, <2>2 DEF OnePlace
      <3> QED BY <1>11, <1>12, <1>15, <2>1, <2>2, <3>1, <3>2 DEF RingSlots
    <2>15. Parts(LiveSlots', RingSlots', CallSlots', FreeSlots', lost')
      <3>1. Parts(LiveSlots, (RingSlots \ {t}) \cup {s}, {t}, FreeSlots, lost)
        BY <1>18, <2>14 DEF Parts
      <3> QED BY <1>2, <1>17, <2>13, <2>14, <3>1
    <2>16. Draining'
      <3>1. call' # Idle
        BY <2>12, IdleIs
      <3> QED BY <1>2, <1>6, <1>13, <2>5, <2>10, <2>12, <3>1 DEF Draining
    <2>17. Ages'
      <3>1. PICK p : Aged(p, idx, count, Epochs, CountMod, a)
        BY <1>1, <2>1, <2>2, AgedIs
      <3>2. PICK c : c = count
        OBVIOUS
      <3>3. Aged(p, c % Epochs, c, Epochs, CountMod, a)
        BY <1>4, <3>1, <3>2
      <3>4. LET short == CountMod % Epochs
            IN a \in (IF short = 0 THEN {Epochs} ELSE {Epochs, short, Epochs + short})
        BY <1>3, <2>9, <3>2, <3>3, AgedLeaves
      <3> QED BY <1>22, <2>10, <3>4
    <2>18. Waits(st, R, m, hit, call', call'.at)
      BY <1>5, <2>1, <2>5, <2>7
    <2> QED BY <1>21, <2>10, <2>11, <2>15, <2>16, <2>17, <2>18
  <1> QED BY <1>23, <1>24

-----------------------------------------------------------------------------
(* A slot is taken from the free ones.                                     *)

LEMMA TailIs ==
  ASSUME NEW S, NEW f \in Seq(S), f # <<>>, NEW g, g = Tail(f)
  PROVE  /\ g \in Seq(S) /\ Len(f) \in Nat /\ Len(f) >= 1
         /\ DOMAIN f = 1..Len(f) /\ DOMAIN g = 1..(Len(f) - 1) /\ Head(f) = f[1]
         /\ \A i \in 1..(Len(f) - 1) : g[i] = f[i + 1]
OBVIOUS

LEMMA TakesSlot ==
  ASSUME IndInv, free # <<>>, free' = Tail(free), NEW s, s = Head(free)
  PROVE  /\ s \in AllSlots /\ s \in FreeSlots /\ Blank(stack, mem, hist.hit, s)
         /\ FreeSlots' = FreeSlots \ {s} /\ free' \in Seq(AllSlots)
         /\ \A i \in DOMAIN free' : free'[i] \in FreeSlots /\ free'[i] # s
         /\ \A i, j \in DOMAIN free' : free'[i] = free'[j] => i = j
         /\ \A b \in live : b.slot # s
         /\ \A i \in Waiting : SlotOf(ring[i].ptr) # s
  <1>1. Shapes /\ OnePlace /\ FreeClean
    BY DEF IndInv
  <1>2. PICK f, g : f = free /\ g = free'
    OBVIOUS
  <1>3. f \in Seq(AllSlots) /\ f # <<>> /\ g = Tail(f)
    BY <1>1, <1>2 DEF Shapes
  <1>4. /\ g \in Seq(AllSlots) /\ Len(f) \in Nat /\ Len(f) >= 1
        /\ DOMAIN f = 1..Len(f) /\ DOMAIN g = 1..(Len(f) - 1) /\ Head(f) = f[1]
        /\ \A i \in 1..(Len(f) - 1) : g[i] = f[i + 1]
    BY <1>3, TailIs
  <1>5. 1 \in DOMAIN f /\ s = f[1]
    BY <1>2, <1>4
  <1>6. s \in AllSlots /\ s \in FreeSlots /\ Blank(stack, mem, hist.hit, s)
    BY <1>1, <1>2, <1>3, <1>5 DEF FreeSlots, FreeClean
  <1>7. \A i, j \in DOMAIN f : f[i] = f[j] => i = j
    BY <1>1, <1>2 DEF OnePlace
  <1>8. \A i \in DOMAIN g : i + 1 \in DOMAIN f /\ i + 1 # 1 /\ g[i] = f[i + 1]
    BY <1>4
  <1>9. \A i \in DOMAIN g : g[i] \in FreeSlots /\ g[i] # s
    BY <1>2, <1>5, <1>7, <1>8 DEF FreeSlots
  <1>10. \A i, j \in DOMAIN g : g[i] = g[j] => i = j
    <2> SUFFICES ASSUME NEW i \in DOMAIN g, NEW j \in DOMAIN g, g[i] = g[j] PROVE i = j
      OBVIOUS
    <2>1. i + 1 = j + 1
      BY <1>7, <1>8
    <2> QED BY <1>4, <2>1
  <1>11. \A i \in DOMAIN f : i # 1 => i - 1 \in DOMAIN g /\ g[i - 1] = f[i]
    <2> SUFFICES ASSUME NEW i \in DOMAIN f, i # 1 PROVE i - 1 \in DOMAIN g /\ g[i - 1] = f[i]
      OBVIOUS
    <2>1. i - 1 \in 1..(Len(f) - 1) /\ (i - 1) + 1 = i
      BY <1>4
    <2> QED BY <1>4, <2>1
  <1>12. FreeSlots' = FreeSlots \ {s}
    <2>1. FreeSlots = {f[i] : i \in DOMAIN f} /\ FreeSlots' = {g[i] : i \in DOMAIN g}
      BY <1>2 DEF FreeSlots
    <2>2. FreeSlots' \subseteq FreeSlots \ {s}
      BY <1>9, <2>1
    <2>3. ASSUME NEW x \in FreeSlots \ {s}
          PROVE  x \in FreeSlots'
      <3>1. PICK i \in DOMAIN f : x = f[i]
        BY <2>1
      <3>2. i # 1
        BY <1>5, <3>1
      <3> QED BY <1>11, <2>1, <3>1, <3>2
    <2> QED BY <2>2, <2>3
  <1>13. /\ \A b \in live : b.slot # s
         /\ \A i \in Waiting : SlotOf(ring[i].ptr) # s
    BY <1>1, <1>6 DEF OnePlace, Parts, LiveSlots, RingSlots
  <1> QED BY <1>2, <1>4, <1>6, <1>9, <1>10, <1>12, <1>13

(* The fields of a new block. *)
LEMMA BlockIs ==
  ASSUME NEW st, st = stack, NEW s, NEW l \in Lay, NEW d, NEW id, NEW zeroed, NEW known,
         NEW b, b = Block(s, l, d, id, zeroed, known)
  PROVE  /\ b.ptr = PointersFor(st, s, l, d)[1] /\ b.size = l.size /\ b.align = l.align
         /\ b.slot = s /\ b.disp = d /\ b.id = id /\ b.known = known /\ LayoutOf(b) = l
  <1>1. /\ b.ptr = PointersFor(st, s, l, d)[1] /\ b.size = l.size /\ b.align = l.align
        /\ b.slot = s /\ b.disp = d /\ b.id = id /\ b.known = known
    BY DEF Block
  <1>2. l = [size |-> l.size, align |-> l.align]
    BY DEF Lay
  <1>3. LayoutOf(b) = l
    BY <1>1, <1>2 DEF LayoutOf
  <1> QED BY <1>1, <1>3

LEMMA BlockZeroed ==
  ASSUME NEW s, NEW l, NEW d, NEW id, NEW zeroed, NEW known
  PROVE  Block(s, l, d, id, zeroed, known).zeroed = zeroed
BY DEF Block

(* A block b is in use in the slot it took, and the blocks in old no more. *)
LEMMA Allocated ==
  ASSUME IndInv, Ready, free # <<>>, free' = Tail(free),
         UNCHANGED <<conf, ring, count, lost>>,
         hist' \in Hists, hist'.hit = hist.hit, hist'.taken = hist.taken,
         hist'.delay = hist.delay, hist'.dropped = hist.dropped,
         mem' = [c \in Cells |-> mem'[c]], call' \in Calls(Depth, Epochs),
         NEW b, b.slot = Head(free), Intact(stack, conf.requests, mem', hist.hit, b),
         \A c \in Cells : SlotOf(c) # Head(free) => mem'[c] = mem[c],
         NEW old \in SUBSET live, live' = (live \ old) \cup {b},
         CallSlots' = {c.slot : c \in old}, call'.drain = -1, call'.at = 0 => call' = Idle,
         call'.at > 0 => Waits(stack, conf.requests, mem', hist.hit, call', call'.at)
  PROVE  IndInv'
  <1>1. /\ Shapes /\ OnePlace /\ Draining /\ LiveIntact /\ RingKept /\ CallKept
        /\ FreeClean /\ LostHit /\ Ages
    BY DEF IndInv
  <1>2. stack' = stack /\ Depth' = Depth /\ Epochs' = Epochs
    BY DEF stack, Depth, Epochs
  <1>3. PICK s : s = Head(free)
    OBVIOUS
  <1>4. /\ s \in AllSlots /\ s \in FreeSlots
        /\ FreeSlots' = FreeSlots \ {s} /\ free' \in Seq(AllSlots)
        /\ \A i \in DOMAIN free' : free'[i] \in FreeSlots /\ free'[i] # s
        /\ \A i, j \in DOMAIN free' : free'[i] = free'[j] => i = j
        /\ \A c \in live : c.slot # s
        /\ \A i \in Waiting : SlotOf(ring[i].ptr) # s
    BY <1>3, TakesSlot
  <1>5. call = Idle /\ call.at = 0 /\ call.drain = -1 /\ ~hist.dropped /\ CallSlots = {}
    BY ReadyIs
  <1>6. Shapes'
    BY <1>1, <1>2, <1>4 DEF Shapes
  <1>7. Waiting' = Waiting /\ RingSlots' = RingSlots
    BY DEF Waiting, RingSlots
  <1>8. \A c, e \in live : c.slot = e.slot => c = e
    BY <1>1 DEF OnePlace
  <1>9. LiveSlots' = (LiveSlots \ CallSlots') \cup {s} /\ CallSlots' \subseteq LiveSlots
    <2>1. PICK C : C = CallSlots' /\ C = {c.slot : c \in old}
      OBVIOUS
    <2>2. C \subseteq LiveSlots
      BY <2>1 DEF LiveSlots
    <2>3. LiveSlots' = {c.slot : c \in live \ old} \cup {s}
      BY <1>3 DEF LiveSlots
    <2>4. {c.slot : c \in live \ old} = LiveSlots \ C
      BY <1>8, <2>1 DEF LiveSlots
    <2> QED BY <2>1, <2>2, <2>3, <2>4
  <1>10. OnePlace'
    <2>1. Parts(LiveSlots, RingSlots, {}, FreeSlots, lost)
      BY <1>1, <1>5 DEF OnePlace
    <2>2. PICK C : C = CallSlots'
      OBVIOUS
    <2>3. Parts((LiveSlots \ C) \cup {s}, RingSlots, C, FreeSlots \ {s}, lost)
      BY <1>4, <1>9, <2>1, <2>2 DEF Parts
    <2>4. Parts(LiveSlots', RingSlots', CallSlots', FreeSlots', lost')
      BY <1>4, <1>7, <1>9, <2>2, <2>3
    <2>5. \A c, e \in live' : c.slot = e.slot => c = e
      BY <1>3, <1>4, <1>8
    <2>6. \A i, j \in Waiting' : SlotOf(ring'[i].ptr) = SlotOf(ring'[j].ptr) => i = j
      BY <1>1, <1>7 DEF OnePlace
    <2> QED BY <1>4, <2>4, <2>5, <2>6 DEF OnePlace
  <1>11. Draining'
    BY <1>1, <1>2, <1>5, <1>7 DEF Draining
  <1>12. LiveIntact' /\ RingKept' /\ CallKept' /\ FreeClean'
    <2>1. Apart(mem, mem', hist.hit, hist'.hit, s)
      BY <1>3 DEF Apart
    <2>2. \A c \in live' : c.slot = s \/ c \notin live =>
            Intact(stack, conf.requests, mem', hist'.hit, c)
      BY <1>4
    <2>3. \A i \in Waiting' : i \in Waiting /\ ring'[i] = ring[i] /\ SlotOf(ring'[i].ptr) # s
      BY <1>4, <1>7
    <2>4. Waiting' # {} => HasLayer(stack, "quarantine")
      BY <1>1, <1>7 DEF Draining
    <2>5. call'.at > 0 => Waits(stack, conf.requests, mem', hist'.hit, call', call'.at)
      OBVIOUS
    <2> QED BY <1>1, <1>4, <1>6, <2>1, <2>2, <2>3, <2>4, <2>5, StepKeeps
  <1>13. LostHit'
    BY <1>1 DEF LostHit
  <1>14. Ages'
    BY <1>1, <1>7, AgesKept
  <1> QED BY <1>6, <1>10, <1>11, <1>12, <1>13, <1>14 DEF IndInv

(* What a request finds when it is served. *)
LEMMA MayTake ==
  ASSUME IndInv, NEW l \in conf.requests, MayAllocate(l), NEW d \in Displacements(stack, l),
         NEW s, s = Head(free)
  PROVE  /\ Ready /\ free # <<>> /\ l \in Lay /\ s \in AllSlots /\ s \notin hist.hit
         /\ Served(stack, conf.requests, s, l, d) /\ Blank(stack, mem, hist.hit, s)
  <1>1. Ready /\ Room(stack, l) /\ free # <<>>
    BY DEF MayAllocate
  <1>2. Shapes /\ FreeClean
    BY DEF IndInv
  <1>3. free \in Seq(AllSlots)
    BY <1>2 DEF Shapes
  <1>4. 1 \in DOMAIN free /\ s = free[1]
    BY <1>1, <1>3
  <1>5. s \in AllSlots /\ Blank(stack, mem, hist.hit, s)
    BY <1>2, <1>3, <1>4 DEF FreeClean
  <1>6. l \in Lay
    BY <1>2, ConfIs
  <1> QED BY <1>1, <1>5, <1>6 DEF Served, Blank

LEMMA WithGuardsShape ==
  ASSUME NEW m, NEW n, NEW G, n = WithGuards(m, G)
  PROVE  n = [c \in Cells |-> n[c]]
BY DEF WithGuards

LEMMA AllocateStep ==
  ASSUME IndInv, NEW l \in conf.requests, NEW d \in Displacements(stack, l),
         NEW zeroed \in BOOLEAN, Allocate(l, d, zeroed)
  PROVE  IndInv'
  <1>1. /\ Shapes /\ MayAllocate(l) /\ free' = Tail(free)
        /\ UNCHANGED <<conf, ring, count, call, lost, hist>>
    BY DEF IndInv, Allocate
  <1>2. PICK s, st, R, m, n, hit :
          /\ s = Head(free) /\ st = stack /\ R = conf.requests /\ m = mem /\ n = mem'
          /\ hit = hist.hit
    OBVIOUS
  <1>3. /\ Ready /\ free # <<>> /\ l \in Lay /\ s \in AllSlots /\ s \notin hit
        /\ Served(st, R, s, l, d) /\ Blank(st, m, hit, s)
    BY <1>1, <1>2, MayTake
  <1>4. st \in Seq(Layers) /\ R \in SUBSET Lay
    BY <1>1, <1>2, ConfIs
  <1>5. PICK id : id = CHOOSE x \in FreshIds : TRUE
    OBVIOUS
  <1>6. PICK b : b = Block(s, l, d, id, zeroed, IF zeroed THEN 0 ELSE l.size)
    OBVIOUS
  <1>7. /\ b.ptr = PointersFor(st, s, l, d)[1] /\ b.size = l.size /\ b.align = l.align
        /\ b.slot = s /\ b.disp = d /\ b.id = id /\ LayoutOf(b) = l
    BY <1>2, <1>3, <1>6, BlockIs
  <1>8. b.known = (IF zeroed THEN 0 ELSE l.size)
    BY <1>6 DEF Block
  <1>9. b.zeroed = zeroed
    BY <1>6, BlockZeroed
  <1>10. /\ live' = live \cup {b}
         /\ n = WithGuards(IF zeroed THEN Fill(m, Span(b.ptr, b.size), Zero)
                           ELSE Fill(m, Span(b.ptr, UsableOr(st, 1, b.size)), Data(b.id)),
                           Guards(st, s, l, d))
    BY <1>2, <1>5, <1>6 DEF Allocate
  <1>11. /\ Span(b.ptr, b.size) \subseteq DataSpan(st, s, l, d)
         /\ DataSpan(st, s, l, d) = Span(b.ptr, UsableOr(st, 1, b.size))
    BY <1>3, <1>4, <1>7, DataSpanFree DEF DataSpan
  <1>12. \A c \in SlotCells(s) : m[c] # Canary
    BY <1>3 DEF Blank
  <1>13. Scrubs(st) => Clean(m, s)
    BY <1>3 DEF Blank
  <1>14. /\ Served(st, R, b.slot, LayoutOf(b), b.disp)
         /\ b.ptr = PointersFor(st, b.slot, LayoutOf(b), b.disp)[1]
         /\ b.slot \notin hit /\ \A c \in SlotCells(b.slot) : m[c] # Canary
         /\ Scrubs(st) => Clean(m, b.slot)
    BY <1>3, <1>7, <1>12, <1>13
  <1>15. Intact(st, R, n, hit, b) /\ \A c \in Cells : SlotOf(c) # b.slot => n[c] = m[c]
    <2>1. b.size \in Nat
      BY <1>3, <1>7 DEF Lay
    <2>2. CASE zeroed = TRUE
      <3>1. PICK S : S = Span(b.ptr, b.size)
        OBVIOUS
      <3>2. n = WithGuards(Fill(m, S, Zero), Guards(st, b.slot, LayoutOf(b), b.disp))
        BY <1>7, <1>10, <2>2, <3>1
      <3>3. b.known = 0 /\ b.known \in 0..b.size
        BY <1>8, <2>1, <2>2
      <3>4. S \subseteq DataSpan(st, b.slot, LayoutOf(b), b.disp)
        BY <1>7, <1>11, <3>1
      <3>5. PICK v : v = Zero
        OBVIOUS
      <3>6. /\ v \in {Zero, Data(b.id)}
            /\ n = WithGuards(Fill(m, S, v), Guards(st, b.slot, LayoutOf(b), b.disp))
        BY <3>2, <3>5
      <3>7. b.known = 0 \/ (v = Data(b.id) /\ Span(b.ptr, b.known) \subseteq S)
        BY <3>3
      <3>8. b.zeroed => v = Zero /\ Span(b.ptr, b.size) \subseteq S
        BY <3>1, <3>5
      <3>9. Opened(st, R, m, n, hit, b, S, v)
        BY <1>14, <3>3, <3>4, <3>6, <3>7, <3>8 DEF Opened
      <3>10. Intact(st, R, n, hit, b)
        BY <1>4, <3>9, FreshIntact
      <3>11. \A c \in Cells : SlotOf(c) # b.slot => n[c] = m[c]
        BY <1>4, <3>9, FreshIntact
      <3> QED BY <3>10, <3>11
    <2>3. CASE zeroed = FALSE
      <3>1. PICK S : S = DataSpan(st, s, l, d)
        OBVIOUS
      <3>2. n = WithGuards(Fill(m, S, Data(b.id)), Guards(st, b.slot, LayoutOf(b), b.disp))
        BY <1>7, <1>10, <1>11, <2>3, <3>1
      <3>3. b.known = b.size /\ b.known \in 0..b.size
        BY <1>7, <1>8, <2>1, <2>3
      <3>4. S \subseteq DataSpan(st, b.slot, LayoutOf(b), b.disp)
        BY <1>7, <3>1
      <3>5. Span(b.ptr, b.known) \subseteq S
        BY <1>11, <3>1, <3>3
      <3>6. PICK v : v = Data(b.id)
        OBVIOUS
      <3>7. /\ v \in {Zero, Data(b.id)}
            /\ n = WithGuards(Fill(m, S, v), Guards(st, b.slot, LayoutOf(b), b.disp))
        BY <3>2, <3>6
      <3>8. b.known = 0 \/ (v = Data(b.id) /\ Span(b.ptr, b.known) \subseteq S)
        BY <3>5, <3>6
      <3>9. b.zeroed => v = Zero /\ Span(b.ptr, b.size) \subseteq S
        BY <1>9, <2>3
      <3>10. Opened(st, R, m, n, hit, b, S, v)
        BY <1>14, <3>3, <3>4, <3>7, <3>8, <3>9 DEF Opened
      <3>11. Intact(st, R, n, hit, b)
        BY <1>4, <3>10, FreshIntact
      <3>12. \A c \in Cells : SlotOf(c) # b.slot => n[c] = m[c]
        BY <1>4, <3>10, FreshIntact
      <3> QED BY <3>11, <3>12
    <2> QED BY <2>2, <2>3
  <1>16. n = [c \in Cells |-> n[c]]
    BY <1>10, WithGuardsShape
  <1>17. /\ call = Idle /\ call.at = 0 /\ call.drain = -1 /\ CallSlots = {}
         /\ call \in Calls(Depth, Epochs) /\ hist \in Hists
    BY <1>1, <1>3, ReadyIs DEF Shapes
  <1>18. CallSlots' = {} /\ ~(call'.at > 0)
    BY <1>1, <1>17 DEF CallSlots
  <1>19. PICK old : old = {}
    OBVIOUS
  <1>20. /\ old \in SUBSET live /\ live' = (live \ old) \cup {b}
         /\ CallSlots' = {c.slot : c \in old}
    BY <1>10, <1>18, <1>19
  <1>21. /\ b.slot = Head(free) /\ Intact(stack, conf.requests, mem', hist.hit, b)
         /\ \A c \in Cells : SlotOf(c) # Head(free) => mem'[c] = mem[c]
         /\ mem' = [c \in Cells |-> mem'[c]]
    BY <1>2, <1>7, <1>15, <1>16
  <1>22. /\ call'.drain = -1 /\ call' = Idle /\ call' \in Calls(Depth, Epochs)
         /\ hist' \in Hists /\ hist' = hist
    BY <1>1, <1>17
  <1> QED BY <1>1, <1>3, <1>18, <1>20, <1>21, <1>22, Allocated

(* The copy of the first len cells of a block that holds its own data. *)
Copied(m, p, q, len) ==
  [c \in Cells |-> IF c \in Span(p, len) THEN m[q + (c - p)] ELSE m[c]]

LEMMA Copies ==
  ASSUME NEW m, NEW p \in Nat, NEW q \in Nat, NEW len \in Nat, NEW size \in Nat,
         len <= size, NEW v, \A c \in Span(q, size) : m[c] = v
  PROVE  Copied(m, p, q, len) = Fill(m, Span(p, len), v)
  <1>1. ASSUME NEW c \in Cells, c \in Span(p, len) PROVE m[q + (c - p)] = v
    <2>1. q + (c - p) \in Span(q, size)
      BY <1>1 DEF Span
    <2> QED BY <2>1
  <1> QED BY <1>1 DEF Fill, Copied

LEMMA ReallocateStep ==
  ASSUME IndInv, NEW l \in conf.requests, NEW d \in Displacements(stack, l),
         NEW b \in live, Reallocate(b, l, d)
  PROVE  IndInv'
  <1>1. /\ Shapes /\ OnePlace /\ LiveIntact /\ MayAllocate(l) /\ free' = Tail(free)
        /\ UNCHANGED <<conf, ring, count, lost>> /\ b.known = b.size
    BY DEF IndInv, Reallocate
  <1>2. PICK s, st, R, m, n, hit :
          /\ s = Head(free) /\ st = stack /\ R = conf.requests /\ m = mem /\ n = mem'
          /\ hit = hist.hit
    OBVIOUS
  <1>3. /\ Ready /\ free # <<>> /\ l \in Lay /\ s \in AllSlots /\ s \notin hit
        /\ Served(st, R, s, l, d) /\ Blank(st, m, hit, s)
    BY <1>1, <1>2, MayTake
  <1>4. st \in Seq(Layers) /\ R \in SUBSET Lay
    BY <1>1, <1>2, ConfIs
  <1>5. Intact(st, R, m, hit, b)
    BY <1>1, <1>2 DEF LiveIntact
  <1>6. b.ptr \in Nat /\ b.size \in Nat /\ b.align \in Nat /\ b.slot \in AllSlots
    <2>1. Passes(b, b)
      BY DEF Passes
    <2> QED BY <1>4, <1>5, <2>1, FreedWaits
  <1>7. PICK len : len = (IF l.size < b.size THEN l.size ELSE b.size)
    OBVIOUS
  <1>8. l.size \in Nat /\ len \in Nat /\ len <= l.size /\ len <= b.size
    <2>1. l.size \in Nat
      BY <1>3 DEF Lay
    <2> QED BY <1>6, <1>7, <2>1
  <1>9. PICK new, no : no = FALSE /\ new = Block(s, l, d, b.id, no, len)
    OBVIOUS
  <1>10. /\ new.ptr = PointersFor(st, s, l, d)[1] /\ new.size = l.size /\ new.align = l.align
         /\ new.slot = s /\ new.disp = d /\ new.id = b.id /\ new.known = len
         /\ LayoutOf(new) = l
    <2>1. PICK id : id = b.id
      OBVIOUS
    <2>2. new = Block(s, l, d, id, no, len)
      BY <1>9, <2>1
    <2> QED BY <1>2, <1>3, <2>1, <2>2, BlockIs
  <1>11. ~new.zeroed
    <2>1. new.zeroed = no
      BY <1>9, BlockZeroed
    <2> QED BY <1>9, <2>1
  <1>12. new.ptr \in Nat
    <2>1. 1 \in 1..(Len(st) + 1)
      BY <1>4
    <2> QED BY <1>3, <1>4, <1>10, <2>1, PointersTyped
  <1>13. /\ hist' = [hist EXCEPT !.frees = @ + 1] /\ live' = (live \ {b}) \cup {new}
         /\ call' = CallAt(1, b.ptr, b.size, b.align, -1)
    BY <1>2, <1>7, <1>9 DEF Reallocate, StartFree, CallAt
  <1>14. n = WithGuards([c \in Cells |-> IF c \in Span(new.ptr, len)
                                         THEN m[b.ptr + (c - new.ptr)] ELSE m[c]],
                        Guards(st, s, l, d))
    BY <1>2, <1>7, <1>9 DEF Reallocate
  <1>15. PICK S, v : S = Span(new.ptr, len) /\ v = Data(b.id)
    OBVIOUS
  <1>16. n = WithGuards(Fill(m, S, v), Guards(st, s, l, d))
    <2>1. \A c \in Span(b.ptr, b.size) : m[c] = v
      BY <1>1, <1>5, <1>15 DEF Intact
    <2>2. PICK p, q, z : p = new.ptr /\ q = b.ptr /\ z = b.size
      OBVIOUS
    <2>3. /\ p \in Nat /\ q \in Nat /\ z \in Nat /\ len \in Nat /\ len <= z
          /\ \A c \in Span(q, z) : m[c] = v
      BY <1>6, <1>8, <1>12, <2>1, <2>2
    <2>4. Copied(m, p, q, len) = Fill(m, Span(p, len), v)
      BY <2>3, Copies
    <2> QED BY <1>14, <1>15, <2>2, <2>4 DEF Copied
  <1>17. Opened(st, R, m, n, hit, new, S, v)
    <2>1. \A c \in SlotCells(s) : m[c] # Canary
      BY <1>3 DEF Blank
    <2>2. Scrubs(st) => Clean(m, s)
      BY <1>3 DEF Blank
    <2>3. S \subseteq DataSpan(st, s, l, d)
      <3>1. Span(new.ptr, l.size) \subseteq DataSpan(st, s, l, d)
        BY <1>3, <1>4, <1>10, DataSpanFree
      <3>2. Span(new.ptr, len) \subseteq Span(new.ptr, l.size)
        BY <1>8, <1>12 DEF Span
      <3> QED BY <1>15, <3>1, <3>2
    <2>4. /\ Served(st, R, new.slot, LayoutOf(new), new.disp)
          /\ new.ptr = PointersFor(st, new.slot, LayoutOf(new), new.disp)[1]
          /\ new.slot \notin hit /\ \A c \in SlotCells(new.slot) : m[c] # Canary
          /\ Scrubs(st) => Clean(m, new.slot)
      BY <1>3, <1>10, <2>1, <2>2
    <2>5. S \subseteq DataSpan(st, new.slot, LayoutOf(new), new.disp)
      BY <1>10, <2>3
    <2>6. n = WithGuards(Fill(m, S, v), Guards(st, new.slot, LayoutOf(new), new.disp))
      BY <1>10, <1>16
    <2>7. new.known \in 0..new.size
      BY <1>8, <1>10
    <2>8. v = Data(new.id) /\ Span(new.ptr, new.known) \subseteq S
      BY <1>10, <1>15
    <2>9. v \in {Zero, Data(new.id)}
      BY <2>8
    <2> QED BY <1>11, <2>4, <2>5, <2>6, <2>7, <2>8, <2>9 DEF Opened
  <1>18. Intact(st, R, n, hit, new)
    BY <1>4, <1>17, FreshIntact
  <1>19. \A c \in Cells : SlotOf(c) # new.slot => n[c] = m[c]
    BY <1>4, <1>17, FreshIntact
  <1>20. b.slot # s
    BY <1>1, <1>2, <1>3, TakesSlot
  <1>21. Intact(st, R, n, hit, b)
    <2>1. Apart(m, n, hit, hit, s)
      BY <1>10, <1>19 DEF Apart
    <2> QED BY <1>4, <1>5, <1>20, <2>1, Elsewhere
  <1>22. /\ call'.at = 1 /\ call'.drain = -1 /\ call'.ptr = b.ptr
         /\ call'.size = b.size /\ call'.align = b.align
    BY <1>13, CallAtIs
  <1>23. Waits(st, R, n, hit, call', 1) /\ SlotOf(b.ptr) = b.slot
    <2>1. PICK x : x = call'
      OBVIOUS
    <2>2. Passes(x, b)
      BY <1>22, <2>1 DEF Passes
    <2>3. Waits(st, R, n, hit, x, 1) /\ SlotOf(x.ptr) = b.slot
      BY <1>4, <1>21, <2>2, FreedWaits
    <2> QED BY <1>22, <2>1, <2>3
  <1>24. call' \in Calls(Depth, Epochs)
    <2>1. Depth \in Nat /\ Epochs \in Nat
      BY <1>1, ConfIs
    <2>2. 1 \in 0..(Depth + 1) /\ -1 \in -1..Epochs
      BY <2>1
    <2>3. b.ptr \in Int /\ b.size \in Int /\ b.align \in Int
      BY <1>6
    <2>4. CallAt(1, b.ptr, b.size, b.align, -1) \in Calls(Depth, Epochs)
      BY <2>1, <2>2, <2>3, CallAtIn
    <2> QED BY <1>13, <2>4
  <1>25. /\ hist' \in Hists /\ hist'.hit = hist.hit /\ hist'.taken = hist.taken
         /\ hist'.delay = hist.delay /\ hist'.dropped = hist.dropped
    BY <1>1, <1>13, HistFrees DEF Shapes
  <1>26. PICK old : old = {b}
    OBVIOUS
  <1>27. /\ old \in SUBSET live /\ live' = (live \ old) \cup {new}
         /\ CallSlots' = {c.slot : c \in old}
    <2>1. CallSlots' = {b.slot}
      BY <1>22, <1>23 DEF CallSlots
    <2> QED BY <1>13, <1>26, <2>1
  <1>28. /\ new.slot = Head(free) /\ Intact(stack, conf.requests, mem', hist.hit, new)
         /\ \A c \in Cells : SlotOf(c) # Head(free) => mem'[c] = mem[c]
         /\ mem' = [c \in Cells |-> mem'[c]]
    BY <1>2, <1>10, <1>16, <1>18, <1>19, WithGuardsShape
  <1>29. /\ ~(call'.at = 0)
         /\ call'.at > 0 => Waits(stack, conf.requests, mem', hist.hit, call', call'.at)
    BY <1>2, <1>22, <1>23
  <1> QED BY <1>1, <1>3, <1>22, <1>24, <1>25, <1>27, <1>28, <1>29, Allocated

(* The beginning. *)
LEMMA InitStep == Init => IndInv
  <1> SUFFICES ASSUME Init PROVE IndInv
    OBVIOUS
  <1>1. /\ conf \in Stacks /\ mem = [c \in Cells |-> Zero]
        /\ free = [i \in 1..Slots |-> i - 1]
        /\ ring = [i \in 0..(Epochs - 1) |-> NoBlock]
        /\ count = 0 /\ live = {} /\ call = Idle /\ lost = {}
        /\ hist = [frees |-> 0, strays |-> 0, taken |-> 0, hit |-> {}, delay |-> Epochs,
                   dropped |-> FALSE]
    BY DEF Init
  <1>2. /\ Epochs \in Nat /\ Epochs > 0 /\ Depth \in Nat /\ CountMod \in Nat /\ CountMod > 0
    <2>1. /\ conf.layers \in Seq(Layers) /\ conf.epochs \in Nat \ {0}
          /\ CountMod \in Nat \ {0}
      BY <1>1, HardenedAssumption
    <2> QED BY <2>1 DEF Epochs, Depth, stack
  <1>3. Slots \in Nat /\ Slots > 0
    BY Constants
  <1>4. free \in Seq(AllSlots) /\ DOMAIN free = 1..Slots /\ \A i \in 1..Slots : free[i] = i - 1
    <2>1. DOMAIN free = 1..Slots /\ \A i \in 1..Slots : free[i] = i - 1
      BY <1>1
    <2>2. free \in [1..Slots -> AllSlots]
      BY <1>1, <1>3 DEF AllSlots
    <2> QED BY <1>3, <2>1, <2>2
  <1>5. /\ hist \in Hists /\ hist.hit = {} /\ hist.taken = 0 /\ hist.delay = Epochs
        /\ hist.dropped = FALSE
    <2>1. hist.hit = {} /\ hist.taken = 0 /\ hist.delay = Epochs /\ hist.dropped = FALSE
      BY <1>1
    <2>2. Epochs \in Int
      BY <1>2
    <2>3. hist \in Hists
      BY <1>1, <2>2 DEF Hists
    <2> QED BY <2>1, <2>3
  <1>6. Shapes
    <2>1. mem = [c \in Cells |-> mem[c]]
      BY <1>1
    <2>2. ring \in [0..(Epochs - 1) -> Entry]
      BY <1>1, NoBlockIs
    <2>3. count \in 0..(CountMod - 1)
      BY <1>1, <1>2
    <2>4. call \in Calls(Depth, Epochs)
      BY <1>1, <1>2, IdleIn
    <2> QED BY <1>1, <1>4, <1>5, <2>1, <2>2, <2>3, <2>4 DEF Shapes
  <1>7. call.at = 0 /\ call.drain = -1 /\ CallSlots = {}
    BY <1>1, IdleIs DEF CallSlots
  <1>8. Waiting = {}
    BY <1>1 DEF Waiting
  <1>9. OnePlace
    <2>1. LiveSlots = {} /\ RingSlots = {}
      BY <1>1, <1>8 DEF LiveSlots, RingSlots
    <2>2. FreeSlots = AllSlots
      <3>1. \A x \in AllSlots : x + 1 \in 1..Slots /\ free[x + 1] = x
        BY <1>3, <1>4 DEF AllSlots
      <3>2. \A i \in 1..Slots : free[i] \in AllSlots
        BY <1>3, <1>4 DEF AllSlots
      <3> QED BY <1>4, <3>1, <3>2 DEF FreeSlots
    <2>3. Parts(LiveSlots, RingSlots, CallSlots, FreeSlots, lost)
      BY <1>1, <1>7, <2>1, <2>2 DEF Parts
    <2>4. \A i, j \in DOMAIN free : free[i] = free[j] => i = j
      BY <1>3, <1>4
    <2> QED BY <1>1, <1>8, <2>3, <2>4 DEF OnePlace
  <1>10. Draining
    BY <1>1, <1>7, <1>8 DEF Draining
  <1>11. LiveIntact /\ RingKept /\ CallKept
    BY <1>1, <1>7, <1>8 DEF LiveIntact, RingKept, CallKept
  <1>12. FreeClean
    <2>1. ASSUME NEW i \in DOMAIN free PROVE Blank(stack, mem, hist.hit, free[i])
      <3>1. PICK s : s = free[i]
        OBVIOUS
      <3>2. s \in AllSlots
        BY <1>3, <1>4, <3>1 DEF AllSlots
      <3>3. \A c \in SlotCells(s) : mem[c] = Zero
        BY <1>1, <3>2, SlotIn
      <3>4. \A c \in SlotCells(s) : mem[c] # Canary /\ ~Secret(mem, c)
        BY <3>3, Values DEF Secret
      <3> QED BY <1>5, <3>1, <3>4 DEF Blank, Clean
    <2> QED BY <2>1 DEF FreeClean
  <1>13. LostHit
    BY <1>1 DEF LostHit
  <1>14. Ages
    BY <1>5, <1>8 DEF Ages
  <1> QED BY <1>6, <1>9, <1>10, <1>11, <1>12, <1>13, <1>14 DEF IndInv

-----------------------------------------------------------------------------
(* The invariant holds in every reachable state.                           *)

LEMMA Inductive == IndInv /\ [Next]_vars => IndInv'
  <1> SUFFICES ASSUME IndInv, [Next]_vars PROVE IndInv'
    OBVIOUS
  <1>1. CASE UNCHANGED vars
    BY <1>1 DEF vars, IndInv, Shapes, OnePlace, Draining, LiveIntact, RingKept, CallKept,
       FreeClean, LostHit, Ages, stack, Depth, Epochs, Waiting, RingSlots, FreeSlots,
       LiveSlots, CallSlots
  <1>2. ASSUME NEW l \in conf.requests, NEW disp \in Displacements(stack, l),
               NEW zeroed \in BOOLEAN, Allocate(l, disp, zeroed)
        PROVE  IndInv'
    BY <1>2, AllocateStep
  <1>3. ASSUME NEW l \in conf.requests, NEW disp \in Displacements(stack, l),
               NEW b \in live, Reallocate(b, l, disp)
        PROVE  IndInv'
    BY <1>3, ReallocateStep
  <1>4. ASSUME NEW b \in live, StrayWrite(b) PROVE IndInv'
    BY <1>4, StrayStep
  <1>5. ASSUME NEW b \in live, Deallocate(b) PROVE IndInv'
    BY <1>5, DeallocateStep
  <1>6. ASSUME NEW i \in DOMAIN ring, StrayWriteAfterFree(i) PROVE IndInv'
    BY <1>6, StrayAfterFreeStep
  <1>7. CASE PoisonDeallocate
    BY <1>7, PoisonStep
  <1>8. CASE ZeroizeDeallocate
    BY <1>8, ZeroizeStep
  <1>9. CASE CanaryDeallocate
    BY <1>9, CanaryStep
  <1>10. CASE JitterDeallocate
    BY <1>10, JitterStep
  <1>11. CASE QuarantineDeallocate
    BY <1>11, QuarantineStep
  <1>12. CASE BottomDeallocate
    BY <1>12, BottomStep
  <1>13. CASE Drop
    BY <1>13, DropStep
  <1>14. CASE DrainNext
    BY <1>14, DrainNextStep
  <1>15. CASE DrainDone
    BY <1>15, DrainDoneStep
  <1> QED BY <1>1, <1>2, <1>3, <1>4, <1>5, <1>6, <1>7, <1>8, <1>9, <1>10, <1>11, <1>12,
             <1>13, <1>14, <1>15 DEF Next

(* The inductive invariant of any stack of wrappers: every slot is in one  *)
(* place, every block in use or on its way down is as the layer that will  *)
(* see it next expects it, and free slots hold nothing of their last block.*)
THEOREM Invariance == Spec => []IndInv
  <1>1. Init => IndInv
    BY InitStep
  <1>2. IndInv /\ [Next]_vars => IndInv'
    BY Inductive
  <1> QED BY <1>1, <1>2, PTL DEF Spec

-----------------------------------------------------------------------------
LEMMA IntactMeans == IndInv => BlocksIntact
  <1> SUFFICES ASSUME IndInv, NEW b \in live
               PROVE  /\ b.ptr % b.align = 0
                      /\ Span(b.ptr, UsableOr(stack, 1, b.size)) \subseteq SlotCells(b.slot)
                      /\ \A c \in Span(b.ptr, b.known) : mem[c] = Data(b.id)
                      /\ b.zeroed => \A c \in Span(b.ptr, b.size) : mem[c] = Zero
    BY DEF BlocksIntact
  <1>1. PICK st, R, m, hit, s, l, d :
          /\ st = stack /\ R = conf.requests /\ m = mem /\ hit = hist.hit
          /\ s = b.slot /\ l = LayoutOf(b) /\ d = b.disp
    OBVIOUS
  <1>2. Shapes /\ LiveIntact
    BY DEF IndInv
  <1>3. st \in Seq(Layers) /\ Requests(R) /\ R \in SUBSET Lay
    BY <1>1, <1>2, ConfIs
  <1>4. Intact(st, R, m, hit, b)
    BY <1>1, <1>2 DEF LiveIntact
  <1>5. Served(st, R, s, l, d) /\ b.ptr = PointersFor(st, s, l, d)[1]
    BY <1>1, <1>4 DEF Intact
  <1>6. l \in Lay /\ l.size = b.size /\ l.align = b.align
    BY <1>1, <1>3, <1>5 DEF Served, LayoutOf
  <1>7. 1 \in 1..(Len(st) + 1)
    BY <1>3
  <1>8. b.ptr % b.align = 0
    <2>1. Multiple(b.ptr, b.align)
      <3>1. Multiple(PointersFor(st, s, l, d)[1], LayoutsFor(st, l)[1].align)
        BY <1>3, <1>5, <1>7, PointersAligned
      <3>2. LayoutsFor(st, l)[1] = l
        BY <1>3, LayoutsDefined
      <3> QED BY <1>5, <1>6, <3>1, <3>2
    <2>2. b.ptr \in Nat
      BY <1>3, <1>5, <1>7, PointersTyped
    <2>3. b.align \in Nat /\ b.align > 0
      BY <1>6 DEF Lay
    <2>4. PICK p, a : p = b.ptr /\ a = b.align
      OBVIOUS
    <2>5. p % a = 0
      BY <2>1, <2>2, <2>3, <2>4, MultipleMod
    <2> QED BY <2>4, <2>5
  <1>9. Span(b.ptr, UsableOr(stack, 1, b.size)) \subseteq SlotCells(b.slot)
    <2>1. DataSpan(st, s, l, d) \subseteq SlotCells(s)
      BY <1>3, <1>5, DataSpanFree
    <2> QED BY <1>1, <1>5, <1>6, <2>1 DEF DataSpan
  <1>10. /\ \A c \in Span(b.ptr, b.known) : mem[c] = Data(b.id)
         /\ b.zeroed => \A c \in Span(b.ptr, b.size) : mem[c] = Zero
    BY <1>1, <1>4 DEF Intact
  <1> QED BY <1>8, <1>9, <1>10

(* The blocks callers hold, in every composition of the wrappers and in any*)
(* order: aligned as asked whatever Canary and CacheJitter put in front,   *)
(* inside their slot up to usable_size, and holding what the caller wrote, *)
(* what grow or shrink copied, or the zeroes of allocate_zeroed.           *)
THEOREM BlocksIntactAlways == Spec => []BlocksIntact
  <1>1. IndInv => BlocksIntact
    BY IntactMeans
  <1> QED BY <1>1, Invariance, PTL

LEMMA SecretMeans == IndInv => NoSecretSurvives
  <1> SUFFICES ASSUME IndInv, HasScrubber, NEW c \in Cells, mem[c][1] = "data"
               PROVE  \/ \E b \in live : /\ c \in Span(b.ptr, UsableOr(stack, 1, b.size))
                                         /\ mem[c] = Data(b.id)
                      \/ SlotOf(c) \in lost
                      \/ call.at \in 1..Scrubber /\ SlotOf(c) = SlotOf(call.ptr)
                      \/ /\ HasLayer(stack, "quarantine")
                         /\ LayerAt(stack, "quarantine") < Scrubber
                         /\ SlotOf(c) \in RingSlots
    BY DEF NoSecretSurvives
  <1>1. /\ Shapes /\ OnePlace /\ Draining /\ LiveIntact /\ RingKept /\ CallKept /\ FreeClean
    BY DEF IndInv
  <1>2. PICK st, R, m, hit, s, q :
          /\ st = stack /\ R = conf.requests /\ m = mem /\ hit = hist.hit
          /\ s = SlotOf(c) /\ q = LayerAt(stack, "quarantine")
    OBVIOUS
  <1>3. st \in Seq(Layers) /\ R \in SUBSET Lay /\ Depth = Len(st)
    BY <1>1, <1>2, ConfIs
  <1>4. Scrubs(st) /\ Scrubber = ScrubAt(st)
    BY <1>2 DEF HasScrubber, Scrubs, Scrubber, ScrubAt, Depth
  <1>5. ScrubAt(st) \in 1..Len(st) /\ st[ScrubAt(st)] \in {"poison", "zeroize"}
    BY <1>3, <1>4, ScrubberIs
  <1>6. s \in AllSlots /\ c \in SlotCells(s) /\ Secret(m, c) /\ ~Clean(m, s)
    <2>1. s \in AllSlots /\ c \in SlotCells(s)
      BY <1>2, CellsOfSlots
    <2>2. Secret(m, c)
      BY <1>2 DEF Secret
    <2> QED BY <2>1, <2>2 DEF Clean
  <1>7. \/ s \in LiveSlots \/ s \in RingSlots \/ s \in CallSlots \/ s \in FreeSlots
        \/ s \in lost
    BY <1>1, <1>6 DEF OnePlace, Parts
  <1>8. CASE s \in LiveSlots
    <2>1. PICK b \in live : b.slot = s
      BY <1>8 DEF LiveSlots
    <2>2. Intact(st, R, m, hit, b)
      BY <1>1, <1>2, <2>1 DEF LiveIntact
    <2>3. c \in DataSpan(st, s, LayoutOf(b), b.disp) /\ m[c] = Data(b.id)
      BY <1>4, <1>6, <2>1, <2>2 DEF Intact, Confined
    <2>4. DataSpan(st, s, LayoutOf(b), b.disp) = Span(b.ptr, UsableOr(st, 1, b.size))
      BY <2>1, <2>2 DEF Intact, DataSpan, LayoutOf
    <2> QED BY <1>2, <2>1, <2>3, <2>4
  <1>9. CASE s \in RingSlots
    <2>1. PICK i \in Waiting : SlotOf(ring[i].ptr) = s
      BY <1>9 DEF RingSlots
    <2>2. Waits(st, R, m, hit, ring[i], q)
      BY <1>1, <1>2, <2>1 DEF RingKept
    <2>3. ~(q > ScrubAt(st))
      BY <1>4, <1>6, <2>1, <2>2 DEF Waits
    <2>4. HasLayer(stack, "quarantine")
      BY <1>1, <2>1 DEF Draining
    <2>5. q \in 1..Len(st) /\ st[q] = "quarantine"
      BY <1>1, <1>2, <1>3, <2>4, QuarantineAt
    <2>6. q < ScrubAt(st)
      <3>1. q # ScrubAt(st)
        BY <1>5, <2>5
      <3> QED BY <1>3, <1>5, <2>3, <2>5, <3>1
    <2> QED BY <1>2, <1>4, <1>9, <2>4, <2>6
  <1>10. CASE s \in CallSlots
    <2>1. call.at # 0 /\ s = SlotOf(call.ptr)
      BY <1>10 DEF CallSlots
    <2>2. call.at \in Nat
      <3>1. call \in Calls(Depth, Epochs) /\ Depth \in Nat
        BY <1>1, ConfIs DEF Shapes
      <3> QED BY <3>1 DEF Calls
    <2>3. call.at > 0
      BY <2>1, <2>2
    <2>4. Waits(st, R, m, hit, call, call.at)
      BY <1>1, <1>2, <2>3 DEF CallKept
    <2>5. ~(call.at > ScrubAt(st))
      BY <1>4, <1>6, <2>1, <2>4 DEF Waits
    <2>6. call.at \in 1..ScrubAt(st)
      BY <1>3, <1>5, <2>2, <2>3, <2>5
    <2> QED BY <1>2, <1>4, <2>1, <2>6
  <1>11. CASE s \in FreeSlots
    <2>1. PICK i \in DOMAIN free : free[i] = s
      BY <1>11 DEF FreeSlots
    <2>2. Blank(st, m, hit, s)
      BY <1>1, <1>2, <2>1 DEF FreeClean
    <2> QED BY <1>4, <1>6, <2>2 DEF Blank
  <1>12. CASE s \in lost
    BY <1>2, <1>12
  <1> QED BY <1>7, <1>8, <1>9, <1>10, <1>11, <1>12

(* PoisonOnFree and ZeroizeOnFree, wherever they are in the stack: no data *)
(* of a caller is left outside blocks in use, up to usable_size, except in *)
(* blocks that have not reached the scrubbing layer or that a panic gave   *)
(* up; and no block shows the data of another.                             *)
THEOREM NoSecretSurvivesAlways == Spec => []NoSecretSurvives
  <1>1. IndInv => NoSecretSurvives
    BY SecretMeans
  <1> QED BY <1>1, Invariance, PTL

(* Canary and CacheJitter: a slot whose guards were overwritten never gets *)
(* back to the free slots, whichever layers see the block first, and a     *)
(* panic is only ever raised over such a slot.                             *)
THEOREM TamperingDetectedAlways == Spec => []TamperingDetected
  <1>1. IndInv => TamperingDetected
    <2> SUFFICES ASSUME IndInv PROVE TamperingDetected
      OBVIOUS
    <2>1. FreeClean /\ LostHit
      BY DEF IndInv
    <2>2. \A i \in DOMAIN free : free[i] \notin hist.hit
      BY <2>1 DEF FreeClean, Blank
    <2>3. hist.hit \cap FreeSlots = {}
      BY <2>2 DEF FreeSlots
    <2> QED BY <2>1, <2>3 DEF TamperingDetected, LostHit
  <1> QED BY <1>1, Invariance, PTL

-----------------------------------------------------------------------------
(* Counting the slots.                                                     *)

LEMMA SameCount ==
  ASSUME NEW S, NEW T, IsFiniteSet(T), NEW f \in [S -> T],
         \A x, y \in S : f[x] = f[y] => x = y, \A t \in T : \E x \in S : f[x] = t
  PROVE  IsFiniteSet(S) /\ Cardinality(S) = Cardinality(T)
  <1>1. f \in Injection(S, T)
    BY DEF Injection, IsInjective
  <1>2. f \in Surjection(S, T)
    BY DEF Surjection
  <1> QED BY <1>1, <1>2, FS_Injection

LEMMA TwoParts ==
  ASSUME NEW S, NEW T, IsFiniteSet(S), IsFiniteSet(T), S \cap T = {}
  PROVE  /\ IsFiniteSet(S \cup T)
         /\ Cardinality(S \cup T) = Cardinality(S) + Cardinality(T)
  <1>1. Cardinality(S \cap T) = 0
    BY FS_EmptySet
  <1>2. Cardinality(S) \in Nat /\ Cardinality(T) \in Nat
    BY FS_CardinalityType
  <1>3. /\ IsFiniteSet(S \cup T)
        /\ Cardinality(S \cup T) = Cardinality(S) + Cardinality(T) - Cardinality(S \cap T)
    BY FS_Union, Zenon
  <1>4. PICK u, a, b, z : /\ u = Cardinality(S \cup T) /\ a = Cardinality(S)
                          /\ b = Cardinality(T) /\ z = Cardinality(S \cap T)
    OBVIOUS
  <1>5. u = a + b - z /\ z = 0 /\ a \in Nat /\ b \in Nat
    BY <1>1, <1>2, <1>3, <1>4
  <1>6. u = a + b
    BY <1>5
  <1> QED BY <1>3, <1>4, <1>6

LEMMA FourParts ==
  ASSUME NEW U, IsFiniteSet(U), NEW L, NEW R, NEW F, NEW X,
         Parts(L, R, {}, F, X), U = AllSlots
  PROVE  /\ IsFiniteSet(L) /\ IsFiniteSet(R) /\ IsFiniteSet(F) /\ IsFiniteSet(X)
         /\ Cardinality(L) + Cardinality(R) + Cardinality(F) + Cardinality(X)
              = Cardinality(U)
  <1>1. IsFiniteSet(L) /\ IsFiniteSet(R) /\ IsFiniteSet(F) /\ IsFiniteSet(X)
    <2>1. L \in SUBSET U /\ R \in SUBSET U /\ F \in SUBSET U /\ X \in SUBSET U
      BY DEF Parts
    <2> QED BY <2>1, FS_Subset
  <1>2. PICK A : A = L \cup R
    OBVIOUS
  <1>3. IsFiniteSet(A) /\ Cardinality(A) = Cardinality(L) + Cardinality(R)
    BY <1>1, <1>2, TwoParts DEF Parts
  <1>4. PICK B : B = A \cup F
    OBVIOUS
  <1>5. A \cap F = {} /\ B \cap X = {} /\ B \cup X = U
    BY <1>2, <1>4 DEF Parts
  <1>6. IsFiniteSet(B) /\ Cardinality(B) = Cardinality(A) + Cardinality(F)
    BY <1>1, <1>3, <1>4, <1>5, TwoParts
  <1>7. Cardinality(U) = Cardinality(B) + Cardinality(X)
    BY <1>1, <1>5, <1>6, TwoParts
  <1>8. /\ Cardinality(L) \in Nat /\ Cardinality(R) \in Nat /\ Cardinality(F) \in Nat
        /\ Cardinality(X) \in Nat
    BY <1>1, FS_CardinalityType
  <1> QED BY <1>1, <1>3, <1>6, <1>7, <1>8

LEMMA SlotsCounted ==
  ASSUME IndInv, call = Idle
  PROVE  /\ Cardinality(LiveSlots) + Cardinality(RingSlots) + Len(free)
              + Cardinality(lost) = Slots
         /\ LiveSlots \cup RingSlots \cup FreeSlots \cup lost = 0..(Slots - 1)
         /\ Cardinality(RingSlots) = Cardinality(Waiting)
         /\ Cardinality(LiveSlots) = Cardinality(live)
  <1>1. Shapes /\ OnePlace
    BY DEF IndInv
  <1>2. CallSlots = {}
    BY IdleIs DEF CallSlots
  <1>3. Parts(LiveSlots, RingSlots, {}, FreeSlots, lost)
    BY <1>1, <1>2 DEF OnePlace
  <1>4. Slots \in Nat /\ Slots > 0
    BY Constants
  <1>5. IsFiniteSet(AllSlots) /\ Cardinality(AllSlots) = Slots
    <2>1. 0 \in Int /\ Slots - 1 \in Int /\ ~(0 > Slots - 1) /\ (Slots - 1) - 0 + 1 = Slots
      BY <1>4
    <2> QED BY <2>1, FS_Interval DEF AllSlots
  <1>6. PICK L, R, F, X : L = LiveSlots /\ R = RingSlots /\ F = FreeSlots /\ X = lost
    OBVIOUS
  <1>7. /\ L \cup R \cup F \cup X = AllSlots /\ L \cap R = {} /\ L \cap F = {}
        /\ L \cap X = {} /\ R \cap F = {} /\ R \cap X = {} /\ F \cap X = {}
    BY <1>3, <1>6 DEF Parts
  <1>8. /\ IsFiniteSet(L) /\ IsFiniteSet(R) /\ IsFiniteSet(F) /\ IsFiniteSet(X)
        /\ Cardinality(L) + Cardinality(R) + Cardinality(F) + Cardinality(X) = Slots
    <2>1. PICK U : U = AllSlots
      OBVIOUS
    <2>2. Parts(L, R, {}, F, X) /\ IsFiniteSet(U) /\ Cardinality(U) = Slots
      BY <1>3, <1>5, <1>6, <2>1
    <2>3. /\ IsFiniteSet(L) /\ IsFiniteSet(R) /\ IsFiniteSet(F) /\ IsFiniteSet(X)
          /\ Cardinality(L) + Cardinality(R) + Cardinality(F) + Cardinality(X)
               = Cardinality(U)
      BY <2>1, <2>2, FourParts
    <2> QED BY <2>2, <2>3
  <1>9. Len(free) = Cardinality(F)
    <2>1. PICK f, n : f = free /\ n = Len(free)
      OBVIOUS
    <2>2. f \in Seq(AllSlots)
      BY <1>1, <2>1 DEF Shapes
    <2>3. n \in Nat /\ DOMAIN f = 1..n
      BY <2>1, <2>2
    <2>4. F = {f[i] : i \in 1..n} /\ f \in [1..n -> F]
      <3>1. F = {f[i] : i \in 1..n}
        BY <1>6, <2>1, <2>3 DEF FreeSlots
      <3> QED BY <2>2, <2>3, <3>1
    <2>5. \A i, j \in 1..n : f[i] = f[j] => i = j
      BY <1>1, <2>1, <2>3 DEF OnePlace
    <2>6. \A t \in F : \E i \in 1..n : f[i] = t
      BY <2>4
    <2>7. PICK D : D = 1..n
      OBVIOUS
    <2>8. Cardinality(D) = Cardinality(F)
      BY <1>8, <2>4, <2>5, <2>6, <2>7, SameCount
    <2>9. Cardinality(1..n) = n
      BY <2>3, FS_Interval
    <2> QED BY <2>1, <2>7, <2>8, <2>9
  <1>10. Cardinality(R) = Cardinality(Waiting)
    <2>1. PICK W, f : W = Waiting /\ f = [i \in W |-> SlotOf(ring[i].ptr)]
      OBVIOUS
    <2>2. R = {SlotOf(ring[i].ptr) : i \in W}
      BY <1>6, <2>1 DEF RingSlots
    <2>3. f \in [W -> R] /\ \A t \in R : \E i \in W : f[i] = t
      BY <2>1, <2>2
    <2>4. \A i, j \in W : f[i] = f[j] => i = j
      BY <1>1, <2>1 DEF OnePlace
    <2>5. Cardinality(W) = Cardinality(R)
      BY <1>8, <2>3, <2>4, SameCount, Zenon
    <2> QED BY <2>1, <2>5
  <1>11. Cardinality(L) = Cardinality(live)
    <2>1. PICK W, f : W = live /\ f = [b \in W |-> b.slot]
      OBVIOUS
    <2>2. L = {b.slot : b \in W}
      BY <1>6, <2>1 DEF LiveSlots
    <2>3. f \in [W -> L] /\ \A t \in L : \E b \in W : f[b] = t
      BY <2>1, <2>2
    <2>4. \A b, c \in W : f[b] = f[c] => b = c
      BY <1>1, <2>1 DEF OnePlace
    <2>5. Cardinality(W) = Cardinality(L)
      BY <1>8, <2>3, <2>4, SameCount, Zenon
    <2> QED BY <2>1, <2>5
  <1>12. Cardinality(LiveSlots) + Cardinality(RingSlots) + Len(free) + Cardinality(lost)
           = Slots
    BY <1>6, <1>8, <1>9
  <1>13. LiveSlots \cup RingSlots \cup FreeSlots \cup lost = 0..(Slots - 1)
    BY <1>6, <1>7 DEF AllSlots
  <1> QED BY <1>6, <1>10, <1>11, <1>12, <1>13

LEMMA BottomFrees ==
  ASSUME IndInv, call.at = Depth + 1
  PROVE  SlotOf(call.ptr) \notin FreeSlots /\ call.ptr % Stride = 0
  <1>1. Shapes /\ OnePlace
    BY DEF IndInv
  <1>2. Depth \in Nat /\ Depth = Len(stack) /\ call.at > 0
    BY <1>1, ConfIs
  <1>3. CallSlots = {SlotOf(call.ptr)}
    BY <1>2, InCall
  <1>4. SlotOf(call.ptr) \notin FreeSlots
    BY <1>1, <1>3 DEF OnePlace, Parts
  <1>5. PICK st, R, m, hit, x :
          /\ st = stack /\ R = conf.requests /\ m = mem /\ hit = hist.hit /\ x = call
    OBVIOUS
  <1>6. st \in Seq(Layers) /\ R \in SUBSET Lay
    BY <1>1, <1>5, ConfIs
  <1>7. Returning(st, R, m, hit, x, Len(st) + 1)
    BY <1>2, <1>5, InCall
  <1>8. PICK s : s = SlotOf(x.ptr)
    OBVIOUS
  <1>9. x.ptr = s * Stride /\ s \in AllSlots
    BY <1>6, <1>7, <1>8, BottomIs DEF AtBottom
  <1>10. s \in Nat /\ Stride \in Nat /\ Stride > 0
    BY <1>9, Constants DEF AllSlots
  <1>11. s * Stride \in Nat
    BY <1>10, TimesNat
  <1>12. PICK p : p = s * Stride
    OBVIOUS
  <1>13. Multiple(p, Stride) /\ p \in Nat
    BY <1>10, <1>11, <1>12 DEF Multiple
  <1>14. p % Stride = 0
    BY <1>10, <1>13, MultipleMod
  <1> QED BY <1>4, <1>5, <1>9, <1>12, <1>14

(* Quarantine, above or below any of the other wrappers: between calls the *)
(* slots in use, in the ring, free and given up by a panic are counted     *)
(* exactly once; what reaches the allocator below is a slot that is not    *)
(* free, by its own pointer; and every block but those at a wrap of the    *)
(* counter waits for EPOCHS further frees, for every EPOCHS and width.     *)
THEOREM DelayedFreeAlways == Spec => []DelayedFree
  <1>1. IndInv => DelayedFree
    <2> SUFFICES ASSUME IndInv PROVE DelayedFree
      OBVIOUS
    <2>1. Draining /\ Ages
      BY DEF IndInv
    <2>2. call = Idle /\ hist.dropped => Waiting = {}
      BY <2>1 DEF Draining
    <2>3. LET short == CountMod % Epochs
          IN hist.delay \in (IF short = 0 THEN {Epochs} ELSE {Epochs, short, Epochs + short})
      BY <2>1 DEF Ages
    <2>4. call.at = Depth + 1 => SlotOf(call.ptr) \notin FreeSlots /\ call.ptr % Stride = 0
      BY BottomFrees
    <2>5. call = Idle =>
            /\ Cardinality(LiveSlots) + Cardinality(RingSlots) + Len(free)
                 + Cardinality(lost) = Slots
            /\ LiveSlots \cup RingSlots \cup FreeSlots \cup lost = 0..(Slots - 1)
            /\ Cardinality(RingSlots) = Cardinality(Waiting)
            /\ Cardinality(LiveSlots) = Cardinality(live)
      BY SlotsCounted
    <2> QED BY <2>2, <2>3, <2>4, <2>5 DEF DelayedFree
  <1> QED BY <1>1, Invariance, PTL

=============================================================================
