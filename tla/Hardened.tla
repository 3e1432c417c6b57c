------------------------------- MODULE Hardened -------------------------------
(***************************************************************************)
(* The wrappers of hardening/{quarantine,canary,poison,zeroize,            *)
(* cache_jitter}.rs, stacked on an allocator of fixed slots (WrapperOps).  *)
(* A deallocate descends the stack: every layer does its work and then     *)
(* calls the next with its own pointer and layout, so each layer is a step.*)
(* The build is the release build; a panic unwinds to the caller, which may*)
(* go on using the allocator.                                              *)
(***************************************************************************)
EXTENDS WrapperOps, FiniteSets

CONSTANTS
  Stacks,     \* the stacks to choose from: their layers, outermost first,
              \* EPOCHS of Quarantine, the layouts callers ask for, and two
              \* bounds: the calls of deallocate and the stray writes
  CountMod,   \* Quarantine: 2^w, where its counter wraps
  MaxLive     \* bound: blocks callers hold at a time

(* There is one ring and one displacement, so a wrapper is at most once in *)
(* a stack.  Alignments are powers of two, like the line and the stride:   *)
(* the smaller divides the larger.                                         *)
ASSUME HardenedAssumption ==
  /\ CountMod \in Nat \ {0} /\ MaxLive \in Nat
  /\ \A s \in Stacks :
       /\ s.layers \in Seq(Layers) /\ s.epochs \in Nat \ {0}
       /\ \A i, j \in DOMAIN s.layers : s.layers[i] = s.layers[j] => i = j
       /\ s.requests \subseteq [size : Nat \ {0}, align : Nat \ {0}]
       /\ \A l \in s.requests : \A n \in {Line, Stride} : l.align <= n => n % l.align = 0
       /\ s.frees \in Nat /\ s.strays \in Nat

VARIABLES
  conf,    \* the stack
  mem,     \* mem[c]: what cell c holds
  free,    \* the free list of the allocator at the bottom, last freed first
  ring,    \* Quarantine: ring[i], or NoBlock
  count,   \* Quarantine: count, which wraps
  live,    \* the blocks callers hold
  call,    \* the deallocate in progress
  lost,    \* history: slots left behind by a panic
  hist     \* history: frees, strays, blocks the ring has taken, slots whose
           \* guards were hit, the last delay, whether drop was called

vars == <<conf, mem, free, ring, count, live, call, lost, hist>>

stack == conf.layers

Epochs == conf.epochs

Depth == Len(stack)

Ids == 1..Slots

NoBlock == [ptr |-> -1, size |-> 0, align |-> 1, born |-> 0]

Idle == [at |-> 0, ptr |-> -1, size |-> 0, align |-> 1, drain |-> -1]

Init ==
  /\ conf \in Stacks
  /\ mem = [c \in Cells |-> Zero]
  /\ free = [i \in 1..Slots |-> i - 1]
  /\ ring = [i \in 0..(Epochs - 1) |-> NoBlock]
  /\ count = 0
  /\ live = {}
  /\ call = Idle
  /\ lost = {}
  /\ hist = [frees |-> 0, strays |-> 0, taken |-> 0, hit |-> {},
             delay |-> Epochs, dropped |-> FALSE]

-----------------------------------------------------------------------------
(* A caller's block, and what the caller may rely on: whether it was       *)
(* zeroed, and how many cells hold what it wrote.                          *)
Block(slot, l, disp, id, zeroed, known) ==
  [ptr |-> PointersFor(stack, slot, l, disp)[1], size |-> l.size, align |-> l.align,
   slot |-> slot, disp |-> disp, id |-> id, zeroed |-> zeroed, known |-> known]

FreshIds == Ids \ {b.id : b \in live}

Ready == call = Idle /\ ~hist.dropped

MayAllocate(l) == Ready /\ Room(stack, l) /\ free # <<>> /\ Cardinality(live) < MaxLive

(* allocate and allocate_zeroed.  The slots are those of a slab, the last  *)
(* one freed first.  A request that does not fit, or finds no free slot, is*)
(* refused and changes nothing.  The caller leaves a zeroed block as it is,*)
(* and fills another up to usable_size where that is reported.             *)
Allocate(l, disp, zeroed) ==
  /\ MayAllocate(l) /\ disp \in Displacements(stack, l)
  /\ LET slot == Head(free)
         b == Block(slot, l, disp, CHOOSE id \in FreshIds : TRUE, zeroed,
                    IF zeroed THEN 0 ELSE l.size)
         filled == IF zeroed THEN Fill(mem, Span(b.ptr, b.size), Zero)
                   ELSE Fill(mem, Span(b.ptr, UsableOr(stack, 1, b.size)), Data(b.id))
     IN /\ live' = live \cup {b}
        /\ mem' = WithGuards(filled, Guards(stack, slot, l, disp))
  /\ free' = Tail(free)
  /\ UNCHANGED <<conf, ring, count, call, lost, hist>>

(* External: a stray write over a word that guards a block in use, or, when*)
(* Canary is below Quarantine, over a canary of a freed block that waits in*)
(* the ring.                                                               *)
StrayWrite(b) ==
  /\ Ready /\ hist.strays < conf.strays /\ b \in live
  /\ \E c \in GuardCells(stack, b.slot, [size |-> b.size, align |-> b.align], b.disp) :
       mem' = Fill(mem, {c}, Junk)
  /\ hist' = [hist EXCEPT !.strays = @ + 1, !.hit = @ \cup {b.slot}]
  /\ UNCHANGED <<conf, free, ring, count, live, call, lost>>

StrayWriteAfterFree(i) ==
  /\ Ready /\ hist.strays < conf.strays /\ ring[i] # NoBlock
  /\ HasLayer(stack, "canary") /\ LayerAt(stack, "canary") > LayerAt(stack, "quarantine")
  /\ LET slot == SlotOf(ring[i].ptr)
     IN /\ \E c \in Span(slot * Stride, Stride) : mem[c] = Canary /\ mem' = Fill(mem, {c}, Junk)
        /\ hist' = [hist EXCEPT !.strays = @ + 1, !.hit = @ \cup {slot}]
  /\ UNCHANGED <<conf, free, ring, count, live, call, lost>>

-----------------------------------------------------------------------------
StartFree(b, survivors) ==
  /\ hist.frees < conf.frees
  /\ live' = survivors
  /\ call' = [at |-> 1, ptr |-> b.ptr, size |-> b.size, align |-> b.align, drain |-> -1]
  /\ hist' = [hist EXCEPT !.frees = @ + 1]

Deallocate(b) ==
  /\ Ready /\ b \in live
  /\ StartFree(b, live \ {b})
  /\ UNCHANGED <<conf, mem, free, ring, count, lost>>

(* grow and shrink, as the trait defaults do them: allocate, copy the      *)
(* smaller of the two sizes, deallocate the old block on self.             *)
Reallocate(b, l, disp) ==
  /\ b \in live /\ b.known = b.size /\ l.align = b.align /\ l.size # b.size
  /\ MayAllocate(l) /\ disp \in Displacements(stack, l)
  /\ LET slot == Head(free)
         len == IF l.size < b.size THEN l.size ELSE b.size
         new == Block(slot, l, disp, b.id, FALSE, len)
         copied == [c \in Cells |-> IF c \in Span(new.ptr, len)
                                    THEN mem[b.ptr + (c - new.ptr)] ELSE mem[c]]
     IN /\ StartFree(b, (live \ {b}) \cup {new})
        /\ mem' = WithGuards(copied, Guards(stack, slot, l, disp))
  /\ free' = Tail(free)
  /\ UNCHANGED <<conf, ring, count, lost>>

-----------------------------------------------------------------------------
At(layer) == call.at \in 1..Depth /\ stack[call.at] = layer

CallLayout == [size |-> call.size, align |-> call.align]

(* The layer calls the next one. *)
Descend(ptr, l) ==
  call' = [call EXCEPT !.at = @ + 1, !.ptr = ptr, !.size = l.size, !.align = l.align]

Waiting == {i \in DOMAIN ring : ring[i] # NoBlock}

RingSlots == {SlotOf(ring[i].ptr) : i \in Waiting}

(* A panic of a layer: the call is abandoned with its slot, and so is the  *)
(* rest of the ring when drop was draining it.                             *)
Panic ==
  /\ lost' = lost \cup {SlotOf(call.ptr)} \cup (IF call.drain >= 0 THEN RingSlots ELSE {})
  /\ ring' = IF call.drain >= 0 THEN [i \in DOMAIN ring |-> NoBlock] ELSE ring
  /\ call' = Idle
  /\ UNCHANGED <<conf, mem, free, count, live, hist>>

(* Only the bytes asked for. *)
ScrubOnlyLayout == Span(call.ptr, call.size)

ScrubCells == Span(call.ptr, UsableOr(stack, call.at + 1, call.size))

PoisonDeallocate ==
  /\ At("poison")
  /\ mem' = Fill(mem, ScrubCells, Poison)
  /\ Descend(call.ptr, CallLayout)
  /\ UNCHANGED <<conf, free, ring, count, live, lost, hist>>

ZeroizeDeallocate ==
  /\ At("zeroize")
  /\ mem' = Fill(mem, ScrubCells, Zero)
  /\ Descend(call.ptr, CallLayout)
  /\ UNCHANGED <<conf, free, ring, count, live, lost, hist>>

(* verify of both words, then both are zeroed. *)
VerifyPreOnly == mem[call.ptr - 1] = Canary

Verify == mem[call.ptr - 1] = Canary /\ mem[call.ptr + call.size] = Canary

CanaryDeallocate ==
  /\ At("canary")
  /\ \/ /\ Verify
        /\ mem' = Fill(mem, {call.ptr - 1, call.ptr + call.size}, Zero)
        /\ Descend(call.ptr - PrePad(call.align), CanaryLayout(CallLayout))
        /\ UNCHANGED <<conf, free, ring, count, live, lost, hist>>
     \/ ~Verify /\ Panic

(* The header is bound to the pointer it was written for, and bounds the   *)
(* displacement.                                                           *)
HeaderValid == LET h == mem[call.ptr - 1]
               IN h[1] = "header" /\ h[2] = call.ptr /\ h[3] <= (Ways - 1) * Line

JitterDeallocate ==
  /\ At("jitter")
  /\ \/ /\ ~Jittered(CallLayout)
        /\ Descend(call.ptr, CallLayout)
        /\ UNCHANGED <<conf, mem, free, ring, count, live, lost, hist>>
     \/ /\ Jittered(CallLayout) /\ HeaderValid
        /\ Descend(call.ptr - (Line + mem[call.ptr - 1][3]), JitterLayout(CallLayout))
        /\ UNCHANGED <<conf, mem, free, ring, count, live, lost, hist>>
     \/ Jittered(CallLayout) /\ ~HeaderValid /\ Panic

(* get_or_insert in place of replace: an occupied entry is kept. *)
RingKeepsOld(idx, new) == IF ring[idx] = NoBlock THEN [ring EXCEPT ![idx] = new] ELSE ring

RingWith(idx, new) == [ring EXCEPT ![idx] = new]

QuarantineDeallocate ==
  /\ At("quarantine")
  /\ LET idx == count % Epochs
         prior == ring[idx]
     IN /\ count' = (count + 1) % CountMod
        /\ ring' = RingWith(idx, [ptr |-> call.ptr, size |-> call.size,
                                  align |-> call.align, born |-> hist.taken])
        /\ IF prior = NoBlock
           THEN call' = Idle /\ hist' = [hist EXCEPT !.taken = @ + 1]
           ELSE /\ Descend(prior.ptr, prior)
                /\ hist' = [hist EXCEPT !.taken = @ + 1, !.delay = hist.taken - prior.born]
  /\ UNCHANGED <<conf, mem, free, live, lost>>

(* External: the slot returns to the free slots, a link in its first cell. *)
BottomDeallocate ==
  /\ call.at = Depth + 1
  /\ free' = <<SlotOf(call.ptr)>> \o free
  /\ mem' = Fill(mem, {call.ptr}, Link)
  /\ call' = IF call.drain < 0 THEN Idle ELSE [Idle EXCEPT !.drain = call.drain]
  /\ UNCHANGED <<conf, ring, count, live, lost, hist>>

-----------------------------------------------------------------------------
(* Drop of Quarantine empties the ring from index 0; a stack without one   *)
(* has nothing to give back.                                               *)
Drop ==
  /\ Ready
  /\ hist' = [hist EXCEPT !.dropped = TRUE]
  /\ call' = IF HasLayer(stack, "quarantine") THEN [Idle EXCEPT !.drain = 0] ELSE Idle
  /\ UNCHANGED <<conf, mem, free, ring, count, live, lost>>

DrainNext ==
  /\ call.at = 0 /\ call.drain \in DOMAIN ring
  /\ LET b == ring[call.drain]
     IN /\ ring' = RingWith(call.drain, NoBlock)
        /\ call' = IF b = NoBlock
                   THEN [call EXCEPT !.drain = @ + 1]
                   ELSE [at |-> LayerAt(stack, "quarantine") + 1, ptr |-> b.ptr, size |-> b.size,
                         align |-> b.align, drain |-> call.drain + 1]
  /\ UNCHANGED <<conf, mem, free, count, live, lost, hist>>

DrainDone ==
  /\ call.at = 0 /\ call.drain = Epochs
  /\ call' = Idle
  /\ UNCHANGED <<conf, mem, free, ring, count, live, lost, hist>>

Next ==
  \/ \E l \in conf.requests : \E disp \in Displacements(stack, l) :
       \/ \E zeroed \in BOOLEAN : Allocate(l, disp, zeroed)
       \/ \E b \in live : Reallocate(b, l, disp)
  \/ \E b \in live : StrayWrite(b) \/ Deallocate(b)
  \/ \E i \in DOMAIN ring : StrayWriteAfterFree(i)
  \/ PoisonDeallocate \/ ZeroizeDeallocate \/ CanaryDeallocate
  \/ JitterDeallocate \/ QuarantineDeallocate \/ BottomDeallocate
  \/ Drop \/ DrainNext \/ DrainDone

Spec == Init /\ [][Next]_vars
-----------------------------------------------------------------------------
FreeSlots == {free[i] : i \in DOMAIN free}

LiveSlots == {b.slot : b \in live}

Scrubber == CHOOSE i \in 1..Depth : stack[i] \in {"poison", "zeroize"}

HasScrubber == HasLayer(stack, "poison") \/ HasLayer(stack, "zeroize")

(* What callers may rely on in any composition of the wrappers: a block is *)
(* aligned as asked, inside its slot, zeroed when that was asked for, and  *)
(* keeps what was written or copied to it, all of usable_size being the    *)
(* caller's to use.                                                        *)
BlocksIntact ==
  \A b \in live :
    /\ b.ptr % b.align = 0
    /\ Span(b.ptr, UsableOr(stack, 1, b.size)) \subseteq SlotCells(b.slot)
    /\ \A c \in Span(b.ptr, b.known) : mem[c] = Data(b.id)
    /\ b.zeroed => \A c \in Span(b.ptr, b.size) : mem[c] = Zero

(* PoisonOnFree and ZeroizeOnFree wherever they are in the stack: outside  *)
(* blocks in use no data of a caller is left in memory, slack up to        *)
(* usable_size and the old block of a grow included, except in blocks that *)
(* have not reached the scrubbing layer yet (waiting in a Quarantine above *)
(* it, or given up by a panic); and a block shows no data of another.      *)
NoSecretSurvives ==
  HasScrubber =>
    \A c \in Cells :
      mem[c][1] = "data" =>
        LET slot == SlotOf(c)
        IN \/ \E b \in live : c \in Span(b.ptr, UsableOr(stack, 1, b.size)) /\ mem[c] = Data(b.id)
           \/ slot \in lost
           \/ call.at \in 1..Scrubber /\ slot = SlotOf(call.ptr)
           \/ /\ HasLayer(stack, "quarantine") /\ LayerAt(stack, "quarantine") < Scrubber
              /\ slot \in RingSlots

(* Canary and CacheJitter: a slot whose guards were overwritten never      *)
(* returns to the allocator below, whatever the other layers do to the     *)
(* block first; and a panic is never raised for an intact block.           *)
TamperingDetected ==
  /\ hist.hit \cap FreeSlots = {}
  /\ ~hist.dropped => lost \subseteq hist.hit
  /\ lost # {} => lost \cap hist.hit # {}

(* The ring of Quarantine: between calls every slot is in exactly one      *)
(* place, also after a panic of the layer below; no slot is freed twice,   *)
(* nor through a pointer other than its own; drop empties the ring; and a  *)
(* block leaves the ring after EPOCHS further frees, with one exception:   *)
(* where EPOCHS does not divide 2^w the wrap of the counter shortens one   *)
(* turn of the ring to 2^w % EPOCHS and lengthens the next.                *)
DelayedFree ==
  /\ call = Idle =>
       /\ Cardinality(LiveSlots) + Cardinality(RingSlots) + Len(free)
            + Cardinality(lost) = Slots
       /\ LiveSlots \cup RingSlots \cup FreeSlots \cup lost = 0..(Slots - 1)
       /\ Cardinality(RingSlots) = Cardinality(Waiting)
       /\ Cardinality(LiveSlots) = Cardinality(live)
       /\ hist.dropped => Waiting = {}
  /\ call.at = Depth + 1 => SlotOf(call.ptr) \notin FreeSlots /\ call.ptr % Stride = 0
  /\ LET short == CountMod % Epochs
     IN hist.delay \in (IF short = 0 THEN {Epochs} ELSE {Epochs, short, Epochs + short})
=============================================================================
