-------------------------------- MODULE Router --------------------------------
(***************************************************************************)
(* StdCompat<WithFallback<StackAlloc, SizeClassed<StackAlloc, N>>>: the    *)
(* primary is a stack, the secondary a size-classed allocator; a free is   *)
(* routed by address twice, first by WithFallback, then by SizeClassed.    *)
(* grow and shrink are the trait's defaults, so that a block may move from *)
(* one allocator to the other and is freed where it was.  Callers are any  *)
(* that free each block once, in any order; the build is the release build.*)
(***************************************************************************)
EXTENDS SizeClassOps, FiniteSets

CONSTANTS
  Builds,       \* [pbase, pcap, sbase, scap, sizes, slots]: how it is built,
                \* and a bound: the calls that allocate
  MaxLive,      \* bound: blocks held at a time
  MaxStrays     \* bound: links overwritten after a free

(* What callers of WithFallback::new have to see to, and what follows from *)
(* the two stacks' owning their memory: that the ranges are apart.  (The   *)
(* checked try_new cannot be called here: SizeClassed has no FixedRange.)  *)
RangesDisjoint(b) ==
  /\ b.pbase + b.pcap <= UsizeMax /\ b.sbase + b.scap <= UsizeMax
  /\ b.pbase + b.pcap <= b.sbase \/ b.sbase + b.scap <= b.pbase

ASSUME RouterAssumption ==
  /\ {MaxLive, MaxStrays, MaxClasses, LookupLimit} \subseteq Nat
  /\ \A b \in Builds : /\ {b.pbase, b.pcap, b.sbase, b.scap, b.slots, b.calls} \subseteq Nat
                        /\ b.sizes \in Seq(Nat)
                        /\ RangesDisjoint(b)
  /\ \A align \in Aligns : IsPowerOfTwo(align)     \* by NonZeroLayout

VARIABLES
  conf,      \* the build
  phase,     \* "new", "ready", "refused" or "dropped"
  primary,   \* StackAlloc
  backing,   \* StackAlloc under the size classes
  classes,   \* the UntypedSlabs
  mem,       \* mem[a]: what the cell at address a holds
  live,      \* the blocks callers hold
  hist       \* history: calls, strays, frees the stacks ignored

routerVars == <<conf, phase, primary, backing, classes, mem, live, hist>>

heap == <<primary, backing, classes, mem>>

Addresses == conf.pbase..(conf.pbase + conf.pcap - 1) \cup conf.sbase..(conf.sbase + conf.scap - 1)

Zero == <<"zero", 0>>
Data(id) == <<"data", id>>
Junk == LinkTo(conf.slots + 1)      \* a link outside every class

Span(ptr, len) == ptr..(ptr + len - 1)

RouterInit ==
  /\ conf \in Builds
  /\ phase = "new"
  /\ primary = NewStack /\ backing = NewStack /\ classes = <<>>
  /\ mem = [a \in Addresses |-> Zero]
  /\ live = {}
  /\ hist = [calls |-> 0, strays |-> 0, pignored |-> 0, bignored |-> 0]

-----------------------------------------------------------------------------
(* StackAlloc::new refuses an empty region; then SizeClassed is built, and *)
(* gives back what it had taken when a region or the number of classes is  *)
(* refused.  WithFallback::new checks nothing.                             *)
Construct ==
  /\ phase = "new"
  /\ LET b == BuildClasses(conf.sbase, conf.scap, conf.sizes, conf.slots)
         valid == conf.pcap > 0 /\ conf.scap > 0 /\ ValidClasses(conf.sizes, conf.slots)
         complete == Len(b.classes) = Len(conf.sizes) /\ Len(conf.sizes) <= MaxClasses
     IN /\ phase' = IF valid /\ complete THEN "ready" ELSE "refused"
        /\ classes' = IF valid /\ complete THEN b.classes ELSE <<>>
        /\ backing' = IF ~valid THEN backing
                      ELSE IF complete THEN b.backing
                      ELSE FreeRegionsReverse(b.backing, b.classes)
  /\ UNCHANGED <<conf, primary, mem, live, hist>>

(* Drop of SizeClassed gives its regions back to the backing. *)
Drop ==
  /\ phase = "ready"
  /\ phase' = "dropped"
  /\ backing' = FreeRegionsForward(backing, classes)
  /\ live' = {}
  /\ UNCHANGED <<conf, primary, classes, mem, hist>>

-----------------------------------------------------------------------------
(* What an allocator answers to a request: the block, where it is from, and*)
(* the state it leaves; "none" where all refuse.                           *)
PrimaryOffer(l) ==
  [home |-> "primary", class |-> 0, usable |-> l.size,
   ptr |-> conf.pbase + AlignedOff(conf.pbase, primary.cursor, l),
   primary |-> StackPush(primary, conf.pbase, l), classes |-> classes, backing |-> backing]

BackingOffer(tried, l) ==
  [home |-> "backing", class |-> 0, usable |-> l.size,
   ptr |-> conf.sbase + AlignedOff(conf.sbase, backing.cursor, l),
   primary |-> primary, classes |-> tried, backing |-> StackPush(backing, conf.sbase, l)]

ClassOffer(tried, i, slot) ==
  [home |-> "class", class |-> i, usable |-> classes[i].stride,
   ptr |-> SlotAddr(conf.sbase, classes[i], slot),
   primary |-> primary, classes |-> tried, backing |-> backing]

NoOffer(tried) ==
  [home |-> "none", class |-> 0, usable |-> 0, ptr |-> 0,
   primary |-> primary, classes |-> tried, backing |-> backing]

(* SizeClassed::allocate: one class is tried, then the backing.  A list    *)
(* found corrupt is given up even when the class then has no slot to offer.*)
SecondaryOffer(l) ==
  LET i == PickClass(classes, l)
      slot == IF i = 0 THEN -1 ELSE SlotFor(conf.sbase, classes[i], mem)
      tried == IF i = 0 THEN classes
               ELSE [classes EXCEPT ![i] = ClassAfterAllocate(conf.sbase, @, mem)]
  IN IF slot >= 0 THEN ClassOffer(tried, i, slot)
     ELSE IF StackHasRoom(backing, conf.sbase, conf.scap, l) THEN BackingOffer(tried, l)
     ELSE NoOffer(tried)

(* WithFallback::allocate *)
Offer(l) ==
  IF StackHasRoom(primary, conf.pbase, conf.pcap, l) THEN PrimaryOffer(l) ELSE SecondaryOffer(l)

TakeOffer(o) == primary' = o.primary /\ classes' = o.classes /\ backing' = o.backing

(* FixedRange::contains; the subtraction wraps. *)
InRange(base, cap, ptr) == ptr - base \in 0..(cap - 1)

(* Where WithFallback::deallocate, and SizeClassed::deallocate behind it   *)
(* with classes c, send a pointer.                                         *)
Route(c, ptr) ==
  IF InRange(conf.pbase, conf.pcap, ptr) THEN "primary"
  ELSE IF RouteDealloc(conf.sbase, c, ptr) # 0 THEN "class" ELSE "backing"

Ids == 1..MaxLive

FreshId == CHOOSE id \in Ids : \A b \in live : b.id # id

ZeroSized(align) == [id |-> FreshId, ptr |-> align, size |-> 0, align |-> align,
                     known |-> 0, holds |-> Zero, home |-> "dangling", class |-> 0]

(* A caller fills the block it has received, up to usable_size; a zeroed   *)
(* one it leaves as it is.                                                 *)
Received(l, zeroed, o) ==
  [id |-> FreshId, ptr |-> o.ptr, size |-> l.size, align |-> l.align, known |-> l.size,
   holds |-> IF zeroed THEN Zero ELSE Data(FreshId), home |-> o.home, class |-> o.class]

MayCall == phase = "ready" /\ hist.calls < conf.calls

Counted == hist' = [hist EXCEPT !.calls = @ + 1]

(* allocate and allocate_zeroed. *)
Allocate(l, zeroed) ==
  /\ MayCall /\ Cardinality(live) < MaxLive
  /\ LET o == Offer(l)
         b == Received(l, zeroed, o)
         span == Span(b.ptr, IF zeroed THEN b.size ELSE o.usable)
     IN /\ o.home # "none"
        /\ live' = live \cup {b}
        /\ mem' = [a \in DOMAIN mem |-> IF a \in span THEN b.holds ELSE mem[a]]
        /\ TakeOffer(o)
  /\ Counted
  /\ UNCHANGED <<conf, phase>>

AllocateFails(l) ==
  /\ MayCall
  /\ LET o == Offer(l) IN o.home = "none" /\ TakeOffer(o)
  /\ Counted
  /\ UNCHANGED <<conf, phase, mem, live>>

(* StdCompat serves a size of zero without memory. *)
AllocateZeroSized(align) ==
  /\ MayCall /\ Cardinality(live) < MaxLive
  /\ live' = live \cup {ZeroSized(align)}
  /\ Counted
  /\ UNCHANGED <<conf, phase, primary, backing, classes, mem>>

-----------------------------------------------------------------------------
(* deallocate of a block, from the state an allocation may have left: p, b,*)
(* c and m are the two stacks, the classes and the memory before the free. *)
Freed(block, p, b, c, m) ==
  LET i == RouteDealloc(conf.sbase, c, block.ptr)
      poff == block.ptr - conf.pbase
      boff == block.ptr - conf.sbase
  IN CASE Route(c, block.ptr) = "primary" ->
            [p |-> StackFree(p, poff), b |-> b, c |-> c, m |-> m,
             pignored |-> IF IsTop(p, poff) THEN 0 ELSE 1, bignored |-> 0]
       [] Route(c, block.ptr) = "class" ->
            [p |-> p, b |-> b,
             c |-> [c EXCEPT ![i] = ClassAfterFree(conf.sbase, @, block.ptr)],
             m |-> IF IsSlot(conf.sbase, c[i], block.ptr)
                   THEN [m EXCEPT ![block.ptr] = LinkTo(c[i].head)] ELSE m,
             pignored |-> 0, bignored |-> 0]
       [] OTHER ->
            [p |-> p, b |-> StackFree(b, boff), c |-> c, m |-> m,
             pignored |-> 0, bignored |-> IF IsTop(b, boff) THEN 0 ELSE 1]

TakeFreed(f) ==
  /\ primary' = f.p /\ backing' = f.b /\ classes' = f.c /\ mem' = f.m
  /\ hist' = [hist EXCEPT !.pignored = @ + f.pignored, !.bignored = @ + f.bignored]

Deallocate(block) ==
  /\ phase = "ready" /\ block.size > 0
  /\ TakeFreed(Freed(block, primary, backing, classes, mem))
  /\ live' = live \ {block}
  /\ UNCHANGED <<conf, phase>>

DeallocateZeroSized(block) ==
  /\ phase = "ready" /\ block.size = 0
  /\ live' = live \ {block}
  /\ UNCHANGED <<conf, phase, primary, backing, classes, mem, hist>>

(* The old block freed before its contents are copied. *)
FreedThenCopied(block, l, o) ==
  LET f == Freed(block, o.primary, o.backing, o.classes, mem)
      len == IF l.size < block.size THEN l.size ELSE block.size
  IN [f EXCEPT !.m = [a \in DOMAIN mem |-> IF a \in Span(o.ptr, len)
                                           THEN f.m[block.ptr + (a - o.ptr)] ELSE f.m[a]]]

(* The defaults of grow and shrink: the smaller of the sizes is copied to  *)
(* the new block, then the old one is freed.                               *)
CopiedThenFreed(block, l, o) ==
  LET len == IF l.size < block.size THEN l.size ELSE block.size
  IN Freed(block, o.primary, o.backing, o.classes,
           [a \in DOMAIN mem |-> IF a \in Span(o.ptr, len)
                                 THEN mem[block.ptr + (a - o.ptr)] ELSE mem[a]])

Moved(block, l, o) ==
  [id |-> block.id, ptr |-> o.ptr, size |-> l.size, align |-> block.align,
   known |-> IF block.known < l.size THEN block.known ELSE l.size,
   holds |-> block.holds, home |-> o.home, class |-> o.class]

Resize(block, l) ==
  /\ MayCall /\ block.size > 0 /\ block.size # l.size /\ block.align = l.align
  /\ LET o == Offer(l)
         f == CopiedThenFreed(block, l, o)
     IN /\ o.home # "none"
        /\ primary' = f.p /\ backing' = f.b /\ classes' = f.c /\ mem' = f.m
        /\ hist' = [hist EXCEPT !.calls = @ + 1, !.pignored = @ + f.pignored,
                                !.bignored = @ + f.bignored]
        /\ live' = (live \ {block}) \cup {Moved(block, l, o)}
  /\ UNCHANGED <<conf, phase>>

(* StdCompat: a grow from zero allocates, a shrink to zero frees. *)
GrowFromZero(block, l) ==
  /\ MayCall /\ block.size = 0 /\ block.align = l.align
  /\ LET o == Offer(l)
     IN /\ o.home # "none"
        /\ TakeOffer(o)
        /\ live' = (live \ {block}) \cup {Moved(block, l, o)}
  /\ Counted
  /\ UNCHANGED <<conf, phase, mem>>

ShrinkToZero(block) ==
  /\ phase = "ready" /\ block.size > 0
  /\ TakeFreed(Freed(block, primary, backing, classes, mem))
  /\ live' = (live \ {block}) \cup
       {[id |-> block.id, ptr |-> block.align, size |-> 0, align |-> block.align,
         known |-> 0, holds |-> block.holds, home |-> "dangling", class |-> 0]}
  /\ UNCHANGED <<conf, phase>>

-----------------------------------------------------------------------------
(* The slots on the free list of a class, as far as the links lead. *)
FreeSlots(c) ==
  LET at[k \in 1..c.slots] ==
        IF k = 1 THEN c.head
        ELSE IF at[k - 1] \in 1..c.slots THEN mem[SlotAddr(conf.sbase, c, at[k - 1] - 1)][2] ELSE 0
  IN {at[k] - 1 : k \in {j \in 1..c.slots : at[j] \in 1..c.slots}}

(* External: a caller writes through a pointer to a slot it has freed, and *)
(* leaves a link outside the class there.                                  *)
StrayWrite(i) ==
  /\ phase = "ready" /\ hist.strays < MaxStrays
  /\ \E idx \in FreeSlots(classes[i]) :
       mem' = [mem EXCEPT ![SlotAddr(conf.sbase, classes[i], idx)] = Junk]
  /\ hist' = [hist EXCEPT !.strays = @ + 1]
  /\ UNCHANGED <<conf, phase, primary, backing, classes, live>>

RouterNext ==
  \/ Construct \/ Drop
  \/ \E l \in Layout : AllocateFails(l) \/ \E zeroed \in BOOLEAN : Allocate(l, zeroed)
  \/ \E align \in Aligns : AllocateZeroSized(align)
  \/ \E i \in DOMAIN classes : StrayWrite(i)
  \/ \E block \in live :
       \/ Deallocate(block) \/ DeallocateZeroSized(block) \/ ShrinkToZero(block)
       \/ \E l \in Layout : Resize(block, l) \/ GrowFromZero(block, l)

RouterSpec == RouterInit /\ [][RouterNext]_routerVars
-----------------------------------------------------------------------------
From(home) == {b \in live : b.home = home}

InClass(i) == {b \in From("class") : b.class = i}

(* Blocks of three allocators, allocated, zeroed, moved between them by    *)
(* grow and shrink and freed in any order: each is aligned and keeps its   *)
(* contents, although callers write up to usable_size: no two overlap in   *)
(* what they asked for, and no free list is threaded through it.  (What a  *)
(* caller wrote beyond the size it asked for is not followed.)             *)
ContentsKept ==
  \A b \in live : b.size > 0 =>
    /\ b.ptr % b.align = 0
    /\ \A a \in Span(b.ptr, b.known) : a \in DOMAIN mem /\ mem[a] = b.holds

(* A free finds its way by address alone: at any time the block, were it   *)
(* freed now, would go to the allocator, and to the class, that served it, *)
(* although larger classes and the backing serve what others refuse; given *)
(* that callers have put the two ranges apart.                             *)
RoutedHome ==
  phase = "ready" =>
    \A b \in live : b.size > 0 =>
      /\ Route(classes, b.ptr) = b.home
      /\ RouteDealloc(conf.sbase, classes, b.ptr) = b.class \/ b.home = "primary"

(* A stack and the blocks it has served: one frame for each block in use   *)
(* and for each free it ignored, in order, each within the next.           *)
FramesMatch(st, base, blocks, others) ==
  /\ Len(st.frames) = Cardinality(blocks) + others
  /\ \A k \in 1..Len(st.frames) :
       LET end == IF k = Len(st.frames) THEN st.cursor ELSE st.frames[k + 1].prev
       IN /\ st.frames[k].prev <= st.frames[k].off /\ st.frames[k].off < end
          /\ k = 1 => st.frames[k].prev = 0
  /\ \A b \in blocks : \E k \in 1..Len(st.frames) : st.frames[k].off = b.ptr - base
  /\ st.frames = <<>> => st.cursor = 0

(* Frees out of order, which the stacks ignore ("cursor/frame stack stay   *)
(* consistent"), never cost more than the ignored blocks; every slot of a  *)
(* class is free, in use or uncarved, and lost only to an overwritten link,*)
(* which is counted; a construction that fails half way gives back every   *)
(* region it had taken.                                                    *)
NothingLost ==
  /\ phase = "ready" =>
       /\ FramesMatch(primary, conf.pbase, From("primary"), hist.pignored)
       /\ FramesMatch(backing, conf.sbase, From("backing"), Len(classes) + hist.bignored)
       /\ \A i \in DOMAIN classes :
            LET c == classes[i]
            IN /\ \A b \in InClass(i) : \A idx \in FreeSlots(c) : SlotAddr(conf.sbase, c, idx) # b.ptr
               /\ c.events <= hist.strays
               /\ hist.strays = 0 =>
                    Cardinality(FreeSlots(c)) + Cardinality(InClass(i)) = c.next
  /\ phase = "refused" => backing = NewStack
=============================================================================
