------------------------------ MODULE ArenaPool ------------------------------
(***************************************************************************)
(* BumpArena and its Scope over every backing, the ArenaPool that recycles *)
(* arenas, the C interface that puts one arena on a caller's buffer, and   *)
(* the backings used as allocators of their own.  One thread; the system   *)
(* calls below may fail at any time.  Callers keep the contract: a block is*)
(* not used after the scope, rewind, reset or give-back that ends it.      *)
(***************************************************************************)
EXTENDS Backing, FiniteSets

CONSTANTS
  Confs,       \* [use, platform, layers, size, meta, page, hp, nodes, addr, cap], and
               \* the bounds: faults, calls that allocate, arenas held at a time
  MaxAlign,    \* MAX_ALIGN, the alignment of an InlineBacked
  MaxBlocks    \* bound: blocks held in an arena

Mappings == {"mmap", "lazy", "locked", "huge"}
Buffers == {"static", "inline"}
Wrappers == {"split", "guard", "numa", "hpaligned"}

ASSUME ArenaPoolAssumption ==
  /\ MaxAlign \in Nat /\ MaxBlocks \in Nat
  /\ (MaxRegions + 1) * RegionSpan <= UsizeMax      \* mappings end in the address space
  /\ \A align \in Aligns : align < HugePage => HugePage % align = 0     \* powers of two
  /\ \A c \in Confs :
       /\ {c.size, c.meta, c.page, c.hp, c.addr, c.cap} \subseteq Nat
       /\ c.layers \in Seq(STRING) /\ c.layers # <<>>
       /\ c.layers[1] \in Mappings \cup Buffers \cup {"heap"}
       /\ \A i \in 2..Len(c.layers) :              \* wrappers, each once
            /\ c.layers[i] \in Wrappers /\ \A j \in 2..(i - 1) : c.layers[j] # c.layers[i]
            /\ c.layers[i] = "split" \/ c.layers[1] \in Mappings     \* I: OsBacked
       /\ c.layers[1] \in Buffers /\ c.addr = 0 => c.use = "c"

VARIABLES
  conf,    \* how arenas are made, and who uses them: "pool", "direct" or "c"
  os,      \* the mappings and the last-error slot
  idle,    \* the pool's idle arenas
  out,     \* arenas held by callers
  last,    \* whether the last constructor returned Ok, Err or was not called
  calls    \* history: calls that allocate

arenaVars == <<conf, os, idle, out, last, calls>>

ArenaInit ==
  /\ conf \in Confs
  /\ os = NewOs(conf.platform, conf.faults)
  /\ idle = <<>> /\ out = {}
  /\ last = "none" /\ calls = 0

NoArena == [marks |-> <<>>]

(* Each operation starts with no failure of its own. *)
Now == [os EXCEPT !.failed = {}]

Base(o, b) == o.maps[b.region].addr + b.base

-----------------------------------------------------------------------------
(* BumpArena::new refuses an empty range and one that ends past the address*)
(* space, and drops the backing.  A backing used directly has a cursor of  *)
(* its own and no such check.                                              *)
ArenaNew(o, b) ==
  IF conf.use # "direct" /\ (b.len = 0 \/ Base(o, b) + b.len > UsizeMax)
  THEN {[os |-> d, a |-> NoArena] : d \in DropBacking(o, b)}
  ELSE {[os |-> o, a |-> [b |-> b, cursor |-> 0, marks |-> <<>>, blocks |-> {}]]}

(* The factory, then BumpArena::new. *)
Mint(o) ==
  UNION {IF m.b = NoBacking THEN {[os |-> m.os, a |-> NoArena]} ELSE ArenaNew(m.os, m.b) :
           m \in BackingNew(o, conf)}

Receive(m) ==
  /\ os' = m.os
  /\ out' = IF m.a = NoArena THEN out ELSE out \cup {m.a}
  /\ last' = IF m.a = NoArena THEN "err" ELSE "ok"

Checkout ==
  /\ conf.use = "pool" /\ Cardinality(out) < conf.held
  /\ IF idle = <<>>
     THEN idle' = idle /\ \E m \in Mint(Now) : Receive(m)
     ELSE idle' = Front(idle) /\ out' = out \cup {Last(idle)} /\ os' = Now /\ last' = "none"
  /\ UNCHANGED <<conf, calls>>

(* A backing used without an arena. *)
Open ==
  /\ conf.use = "direct" /\ Cardinality(out) < conf.held
  /\ \E m \in Mint(Now) : Receive(m)
  /\ UNCHANGED <<conf, idle, calls>>

(* forge_bump_init: no null buffer, no empty one, none past isize::MAX. *)
CInit ==
  /\ conf.use = "c" /\ out = {}
  /\ IF conf.addr = 0 \/ conf.size = 0 \/ conf.size > UsizeMax \div 2
     THEN last' = "err" /\ os' = Now /\ UNCHANGED out
     ELSE \E m \in Mint(Now) : Receive(m)
  /\ UNCHANGED <<conf, idle, calls>>

-----------------------------------------------------------------------------
(* reset and rewind_to. *)
RewoundTo(a, mark) ==
  [a EXCEPT !.cursor = mark, !.blocks = {k \in @ : k.off + k.size <= mark}]

ResetArena(a) == RewoundTo(a, 0)

(* Whether the pool has room for an arena given back. *)
PoolHasRoomOrOne(pool) == Len(pool) <= conf.cap

PoolHasRoom(pool) == Len(pool) < conf.cap

(* give_back: the arena is reset and kept, or dropped at the cap. *)
GiveBack(a) ==
  /\ conf.use = "pool" /\ a.marks = <<>>
  /\ out' = out \ {a}
  /\ IF PoolHasRoom(idle)
     THEN idle' = Append(idle, ResetArena(a)) /\ os' = Now
     ELSE idle' = idle /\ os' \in DropBacking(Now, a.b)
  /\ last' = "none"
  /\ UNCHANGED <<conf, calls>>

(* The caller drops it; also forge_bump_destroy. *)
DropArena(a) ==
  /\ a.marks = <<>>
  /\ out' = out \ {a}
  /\ os' \in DropBacking(Now, a.b)
  /\ last' = "none"
  /\ UNCHANGED <<conf, idle, calls>>

(* prewarm: the states after at most k arenas; an error ends it and keeps  *)
(* the arenas made so far.                                                 *)
Prewarmed(n) ==
  LET target == IF conf.cap < Len(idle) + n THEN conf.cap ELSE Len(idle) + n
      after[k \in 0..n] ==
        IF k = 0 THEN {[os |-> Now, idle |-> idle, last |-> "none"]}
        ELSE UNION {IF s.last = "err" \/ Len(s.idle) >= target THEN {s}
                    ELSE {[os |-> m.os,
                           idle |-> IF m.a = NoArena THEN s.idle ELSE Append(s.idle, m.a),
                           last |-> IF m.a = NoArena THEN "err" ELSE "ok"] : m \in Mint(s.os)} :
                      s \in after[k - 1]}
  IN after[n]

Prewarm(n) ==
  /\ conf.use = "pool"
  /\ \E s \in Prewarmed(n) : os' = s.os /\ idle' = s.idle /\ last' = s.last
  /\ UNCHANGED <<conf, out, calls>>

(* clear drops every idle arena, first to last. *)
Clear ==
  /\ conf.use = "pool" /\ idle # <<>>
  /\ LET after[k \in 0..Len(idle)] ==
           IF k = 0 THEN {Now} ELSE UNION {DropBacking(o, idle[k].b) : o \in after[k - 1]}
     IN os' \in after[Len(idle)]
  /\ idle' = <<>> /\ last' = "none"
  /\ UNCHANGED <<conf, out, calls>>

(* release_idle gives the whole region of each idle arena back. *)
ReleaseIdle ==
  /\ conf.use = "pool" /\ idle # <<>> /\ IsOsBacked(Head(idle).b)
  /\ LET after[k \in 0..Len(idle)] ==
           IF k = 0 THEN {Now}
           ELSE UNION {ReleasePages(o, idle[k].b, 0, o.maps[idle[k].b.region].len) :
                         o \in after[k - 1]}
     IN os' \in after[Len(idle)]
  /\ last' = "none"
  /\ UNCHANGED <<conf, idle, out, calls>>

-----------------------------------------------------------------------------
(* HugePageAligned::promote_layout, when it is the allocator. *)
Promote(a, l) ==
  IF conf.use = "direct" /\ Contains(a.b.layers, "hpaligned") /\ l.align < HugePage
  THEN [l EXCEPT !.align = HugePage] ELSE l

(* InlineBacked::allocate refuses an alignment above its own. *)
AlignServed(a, l) == Bottom(a.b) = "inline" => l.align <= MaxAlign

(* The pages are committed, then the cursor moves. *)
CommitThenCursor(o, a, off, len, end) ==
  {[os |-> c.os, ok |-> c.ok, a |-> [a EXCEPT !.b = c.b, !.cursor = IF c.ok THEN end ELSE @]] :
     c \in Commit(o, a.b, off, len)}

(* allocate and alloc_uninit, with the offset of the block. *)
Bumped(o, a, layout) ==
  LET l == Promote(a, layout)
      base == Base(o, a.b)
      off == AlignedOff(base, a.cursor, l)
  IN IF ~AlignServed(a, l) \/ ~Fits(base, a.b.len, a.cursor, l)
     THEN {[os |-> o, ok |-> FALSE, a |-> a, off |-> 0]}
     ELSE {[os |-> c.os, ok |-> c.ok, a |-> c.a, off |-> off] :
             c \in CommitThenCursor(o, a, off, l.size, EndOff(base, a.cursor, l))}

Written(o, b, off, values) ==
  [o EXCEPT !.maps[b.region].mem =
     [i \in DOMAIN @ |-> IF i - b.base - off \in DOMAIN values
                         THEN values[i - b.base - off] ELSE @[i]]]

Constantly(value, len) == [i \in 0..(len - 1) |-> value]

Contents(o, b, off, len) == [i \in 0..(len - 1) |-> o.maps[b.region].mem[b.base + off + i]]

FreshId(a) == CHOOSE id \in 1..MaxBlocks : \A k \in a.blocks : k.id # id

(* An arena changes.  Of the bytes of no block only poison is told apart.  *)
Replace(a, b, o) ==
  LET used == UNION {(b.b.base + k.off)..(b.b.base + k.off + k.size - 1) : k \in b.blocks}
  IN /\ out' = (out \ {a}) \cup {b}
     /\ os' = [o EXCEPT !.maps[b.b.region].mem =
                 [i \in DOMAIN @ |-> IF i \in used \/ @[i] = Poison THEN @[i] ELSE Junk]]

(* A Scope has neither zeroed blocks nor grow and shrink. *)
ScopeOffers(a, plain) == a.marks # <<>> => plain

(* allocate, alloc, alloc_slice_copy and alloc_str of an arena, of a Scope,*)
(* of a backing and forge_bump_alloc; the caller fills the block.  A       *)
(* zero-sized value or an empty slice gets a dangling pointer: no step.    *)
(* A zeroed block is filled by the allocator.                              *)
Allocate(a, l, zeroed) ==
  /\ calls < conf.calls /\ Cardinality(a.blocks) < MaxBlocks
  /\ ScopeOffers(a, ~zeroed)
  /\ \E m \in Bumped(Now, a, l) :
       LET holds == IF zeroed THEN Zero ELSE FreshId(a)
           block == [id |-> FreshId(a), off |-> m.off, size |-> l.size, align |-> l.align,
                     known |-> l.size, holds |-> holds, depth |-> Len(a.marks)]
       IN IF m.ok
          THEN Replace(a, [m.a EXCEPT !.blocks = @ \cup {block}],
                       Written(m.os, m.a.b, m.off, Constantly(holds, l.size)))
          ELSE Replace(a, m.a, m.os)
  /\ calls' = calls + 1 /\ last' = "none"
  /\ UNCHANGED <<conf, idle>>

(* BumpArena::grow extends the last block in place. *)
IsLast(a, k, l) ==
  conf.use # "direct" /\ l.size > k.size /\ k.off + k.size = a.cursor /\ k.off + l.size <= a.b.len

Extended(o, a, k, l) ==
  {[os |-> c.os, ok |-> c.ok, a |-> c.a, off |-> k.off] :
     c \in CommitThenCursor(o, a, k.off, l.size, k.off + l.size)}

(* grow, and the defaults of grow and shrink: a new block, and the smaller *)
(* of the two sizes copied.  An error leaves the old block.                *)
Resize(a, k, l) ==
  /\ conf.use # "c" /\ calls < conf.calls /\ ScopeOffers(a, FALSE) /\ k.align = l.align /\ k.size # l.size
  /\ \E m \in IF IsLast(a, k, l) THEN Extended(Now, a, k, l) ELSE Bumped(Now, a, l) :
       LET kept == IF l.size < k.size THEN l.size ELSE k.size
           resized == [k EXCEPT !.off = m.off, !.size = l.size,
                                !.known = IF @ < l.size THEN @ ELSE l.size]
       IN IF m.ok
          THEN Replace(a, [m.a EXCEPT !.blocks = (@ \ {k}) \cup {resized}],
                       Written(m.os, m.a.b, m.off, Contents(m.os, m.a.b, k.off, kept)))
          ELSE Replace(a, m.a, m.os)
  /\ calls' = calls + 1 /\ last' = "none"
  /\ UNCHANGED <<conf, idle>>

(* deallocate does nothing: the caller only forgets the block. *)
Deallocate(a, k) ==
  /\ conf.use # "c"
  /\ Replace(a, [a EXCEPT !.blocks = @ \ {k}], Now)
  /\ last' = "none"
  /\ UNCHANGED <<conf, idle, calls>>

(* forge_bump_free poisons the block and reclaims nothing. *)
CFree(a, k) ==
  /\ conf.use = "c"
  /\ Replace(a, [a EXCEPT !.blocks = @ \ {k}],
             Written(Now, a.b, k.off, Constantly(Poison, k.size)))
  /\ last' = "none"
  /\ UNCHANGED <<conf, idle, calls>>

Rewind(a, b) ==
  /\ Replace(a, b, Now)
  /\ last' = "none"
  /\ UNCHANGED <<conf, idle, calls>>

(* reset of an arena or of an InlineBacked, and forge_bump_reset. *)
Reset(a) ==
  /\ conf.use # "direct" \/ Bottom(a.b) = "inline"
  /\ a.marks = <<>>
  /\ Rewind(a, ResetArena(a))

(* rewind_to, with the cursor read at some time before. *)
RewindTo(a, mark) ==
  /\ conf.use = "pool" /\ a.marks = <<>> /\ mark <= a.cursor
  /\ Rewind(a, RewoundTo(a, mark))

OpenScope(a) ==
  /\ conf.use = "pool" /\ Len(a.marks) < 2
  /\ Rewind(a, [a EXCEPT !.marks = Append(@, a.cursor)])

(* Drop of a Scope: the references it gave out have ended. *)
CloseScope(a) ==
  /\ a.marks # <<>>
  /\ Rewind(a, [a EXCEPT !.cursor = Last(a.marks), !.marks = Front(@),
                         !.blocks = {k \in @ : k.depth < Len(a.marks)}])

ArenaNext ==
  \/ Checkout \/ Open \/ CInit \/ Clear \/ ReleaseIdle
  \/ \E n \in 0..2 : Prewarm(n)
  \/ \E a \in out :
       \/ GiveBack(a) \/ DropArena(a) \/ Reset(a) \/ OpenScope(a) \/ CloseScope(a)
       \/ \E mark \in {0} \cup {k.off + k.size : k \in a.blocks} : RewindTo(a, mark)
       \/ \E l \in Layout, zeroed \in BOOLEAN : Allocate(a, l, zeroed)
       \/ \E k \in a.blocks :
            Deallocate(a, k) \/ CFree(a, k) \/ \E l \in Layout : Resize(a, k, l)

ArenaSpec == ArenaInit /\ [][ArenaNext]_arenaVars
-----------------------------------------------------------------------------
(* Whatever the system calls do, and however scopes, rewinds, resets and   *)
(* the pool move the cursor: a block in use is aligned, lies in the range  *)
(* of its arena below the cursor, on pages that are mapped, committed and  *)
(* not guards, and holds what the caller put there.                        *)
LiveMemoryUsable ==
  \A a \in out : \A k \in a.blocks :
    LET m == os.maps[a.b.region]
    IN /\ a.b.region \in DOMAIN os.maps \ os.lost
       /\ (Base(os, a.b) + k.off) % k.align = 0
       /\ k.off + k.size <= a.cursor /\ a.cursor <= a.b.len
       /\ \A i \in (a.b.base + k.off)..(a.b.base + k.off + k.size - 1) :
            i < m.backed /\ i \notin m.guards
       /\ \A i \in (a.b.base + k.off)..(a.b.base + k.off + k.known - 1) : m.mem[i] = k.holds

Regions(arenas) == {a.b.region : a \in arenas} \cup {a.b.meta : a \in arenas}

(* The pool keeps at most cap arenas, each as good as new, and nothing     *)
(* leaks: construction, prewarm, give_back and clear, failing anywhere,    *)
(* leave mapped what the arenas own and what the system refused to unmap;  *)
(* no two arenas share a region; and what an arena was asked to be - locked*)
(* in memory, fenced by two guard pages - it is.                           *)
PoolExact ==
  LET all == out \cup ToSet(idle)
  IN /\ Len(idle) <= conf.cap
     /\ \A a \in ToSet(idle) : a.cursor = 0 /\ a.marks = <<>> /\ a.blocks = {}
     /\ Cardinality({a.b.region : a \in all}) = Cardinality(out) + Len(idle)
     /\ DOMAIN os.maps = (Regions(all) \cup os.lost) \ {0}
     /\ Regions(all) \cap os.lost = {}
     /\ \A a \in all : LET m == os.maps[a.b.region]
                       IN /\ m.locked = (Bottom(a.b) = "locked")
                          /\ a.b.committed = m.backed
                          /\ (m.guards # {}) = Contains(a.b.layers, "guard")
                          /\ \A i \in 0..(m.len - 1) :
                               i \in m.guards <=> i \notin a.b.base..(a.b.base + a.b.len - 1)

(* What a constructor cannot refuse. *)
Admissible(o, c) ==
  LET unit == IF c.layers[1] = "huge" THEN RoundingGranularity(o, c.hp)
              ELSE IF c.layers[1] \in Mappings THEN Page ELSE 1
      len == AlignUp(c.size, unit)
      Has(layer) == Contains(c.layers, layer)
  IN /\ c.use # "direct" \/ Has("heap") => c.size > 0
     /\ Has("heap") => ~NoRoom(o, c.size)
     /\ Has("guard") => /\ IsPowerOfTwo(c.page) /\ Page % c.page = 0
                        /\ len > 2 * c.page /\ len % c.page = 0
     /\ Has("numa") => c.nodes # {}
     /\ Has("hpaligned") => IsPowerOfTwo(c.hp) /\ c.hp >= Page
     /\ c.layers[1] \in Buffers => c.addr + c.size <= UsizeMax
     /\ c.use = "c" => c.addr > 0 /\ c.size <= UsizeMax \div 2

(* A constructor fails when one of its own calls has failed or it was asked*)
(* for what cannot be, never because of an error an earlier call left in   *)
(* the slot; and it succeeds only when none failed.  The slot then holds an*)
(* error of this construction, after a failed lock that of the lock, even  *)
(* when the unmap fails as well.                                           *)
FailureExplained ==
  /\ last = "err" =>
       /\ os.failed \ {"unmap", "unlock"} # {} \/ ~Admissible(os, conf)
       /\ os.failed \ {"heap"} # {} => os.err \in os.failed
       /\ "lock" \in os.failed /\ Len(conf.layers) = 1 => os.err = "lock"
  /\ last = "ok" => os.failed = {}

(* release_idle never asks for pages that were not committed, although the *)
(* watermark moves with each allocation and a region is released as a      *)
(* whole.                                                                  *)
NoBadRelease == "release of uncommitted pages" \notin os.failed
=============================================================================
