# forge-alloc in TLA+

A verification project for forge-alloc, a library of composable allocators in
Rust: backings that own memory, layouts that carve it into blocks, and wrappers
that watch or harden another allocator. The modules here are translated from the
source, model-checked with TLC on small instances, and, for the parts where it
matters most, proved with TLAPS for every instance.

Paths below are relative to `src/crates/forge-alloc/src/` unless they name
another crate.

## 1. The system

### Parts

| Part | State | Operations | What makes it correct |
|---|---|---|---|
| Core traits (`forge-alloc-core`) | none | `allocate`, `deallocate`, `grow`, `shrink`, `reset`, `FixedRange`, `OsBacked`, `FreelistProtection` | a block belongs to one caller from `allocate` to `deallocate` |
| `Slab` (`layout/slab.rs`) | `free_head`, `next_uncarved`, links written into free slots, `corruption_events` | `allocate`, `deallocate`, drop | no slot twice; none lost; a damaged link is noticed, an undamaged one is not accused; the leak report of drop is right |
| `SlabOwner` / `SlabRemote` (`layout/slab_owner.rs`) | a slab only the owner touches; a bounded queue behind a mutex; `remote_queue_len`; `closed`; the adaptive threshold | owner: `allocate`, `deallocate`, `drain`, drop; remotes: `try_deallocate`, `deallocate` (spins) | a slot on its way home is in exactly one place; nothing enters a closed queue; `allocate` does not fail over queued slots; a full queue is drained; a spinning remote returns |
| `GenerationalSlab` (`layout/generational.rs`) | slots with a generation and a value or a link; `free_head`, `len` | `insert`, `get`, `get_mut`, `remove`, `contains`, drop | a handle reaches its own value or nothing, across the wrap-around of generations; slots are reused or retired, never lost; drop disposes of the live values |
| `ExtendableSlab` (`layout/extendable_slab.rs`) | a vector of slabs behind a mutex, `first_open_hint` | `allocate` (three phases, the mutex released around `mmap`), `deallocate` | no block twice under racing growth; growth only when full, and bounded |
| `BumpArena`, `Scope` (`layout/bump.rs`) | cursor, backing | `allocate`, `alloc_*`, `grow`, `reset`, `rewind_to`, `scope` | blocks disjoint, aligned, inside; a scope returns the cursor to its mark |
| `SharedBumpArena` (`layout/shared_bump.rs`) | atomic cursor | `allocate` (compare-exchange loop) | the same under threads |
| `StackAlloc` (`layout/stack_alloc.rs`) | cursor and frames | `allocate`, `deallocate` (last in, first out) | the frames and the cursor agree |
| `ArenaPool`, `SizeClassed`, `WithFallback` | idle arenas; slabs per class; two allocators | `checkout`/`give_back`/`prewarm`; routing | caps hold; a free reaches the allocator that made the block |
| Backings (`backing/`) | cursor, commit watermark, OS error of the thread | bump allocation, `commit`, `release_pages`, `protect` | memory is committed before it is handed out |
| Wrappers (`hardening/`) | `Quarantine`: ring and counter; `Statistics`, `Watermark`: atomics; `Canary`, `PoisonOnFree`, `ZeroizeOnFree`: bytes around and in a block; `GuardPage`, `SplitMetadata`, `CacheJitter`, `HugePageAligned`, `NumaLocal`: placement; `Faulty`: injected failures | forwarded `allocate` / `deallocate` | delay, count and mark without changing what the inner allocator promises |
| `forge-alloc-capi`, `forge-containers` | a C handle on a `BumpArena`; a growing column buffer | C functions; `push`, `reserve` | as their inner allocator |

### How they interact

Calls go inward: a wrapper calls its inner allocator, a layout its backing.
`SlabOwner` and `ExtendableSlab` own slabs and call the same `allocate` and
`deallocate` a user would. Threads meet in four places only: the queue of
`SlabOwner` (mutex, relaxed length mirror, closed flag), the vector of
`ExtendableSlab` (mutex and hint), the cursor of `SharedBumpArena` and the
counters of `Statistics`, `Watermark` and the fault policies. There are no
callbacks besides the watermark handler, no messages and no persistent state.
What comes nearest to a timeout is the remote's spin on a full queue. Failure
comes from two sides: system calls (`mmap`, `mprotect`, `mlock`, commit) that may
fail at any point of a construction or an allocation, and callers' stray writes,
to which the wrappers answer with panics that unwind through other wrappers.

### What is hard

* pushes that race the owner's drop, and decisions taken on a length read
  without the mutex;
* a mutex released around a system call, with the world changed after it;
* relaxed loads that return old values;
* links stored in memory that callers can still write to, in a slab that may be
  moved;
* counters that wrap after more steps than any test makes;
* frees routed by address alone, for blocks that moved between allocators;
* constructors of several system calls that fail half way, and a last-error slot
  of the thread in which an older failure may be left;
* wrappers in any order, each with its own view of a block's size and place;
* long sequences of frees and reuses through two sources of slots.

`PROJECT.json` lists these hazards line by line, with the properties that watch
each.

## 2. Modules

| Module | Models |
|---|---|
| `SlotPool` | abstract: the no-aliasing contract of `Allocator` / `Deallocator` |
| `SlabOps` | the slab as a value, its methods as operators; free-list protection |
| `Slab` | one slab and its caller; the inductive invariant |
| `BatchPolicy` | the drain threshold, fixed or adaptive |
| `SlabOwner` | owner, remotes and queue; composes `SlabOps` and `BatchPolicy` |
| `GenerationalSlab` | values behind handles; the inductive invariant |
| `ExtendableSlab` | a growing vector of slabs, shared by threads; uses `SlabOps` |
| `BumpOps` | the checked arithmetic of the bump allocators |
| `SharedBump` | the compare-exchange loop; uses `BumpOps` |
| `FaultPolicy` | the policies of fault injection |
| `Observers` | `Watermark<Statistics<Faulty<I, P>>>` called by threads; composes `FaultPolicy` |
| `WrapperOps` | what each wrapper adds to a layout, a pointer and memory, for a stack of them |
| `Hardened` | uses `WrapperOps`: stacks of `Quarantine`, `Canary`, `PoisonOnFree`, `ZeroizeOnFree`, `CacheJitter` over slots |
| `StackOps` | `StackAlloc` as a value; uses `BumpOps` |
| `SizeClassOps` | `SizeClassed` over a `StackAlloc`; uses `StackOps` |
| `Router` | `StdCompat<WithFallback<StackAlloc, SizeClassed<StackAlloc>>>`; composes both |
| `Backing` | system calls and the thread's error slot; mapped, locked, huge-page, heap, static and inline backings; `SplitMetadata`, `GuardPage`, `NumaLocal`, `HugePageAligned` |
| `ArenaPool` | `BumpArena`, `Scope`, `ArenaPool`, the C interface, backings used directly; composes `Backing` and `BumpOps` |
| `SlabOpsProofs` | lemmas on the slab's list that three of the proof modules share |
| `SlabProofs`, `SlabOwnerProofs`, `ExtendableSlabProofs`, `BumpProofs`, `LayoutProofs`, `ObserversProofs`, `HardenedProofs` | theorems; `BumpProofs` is about `SharedBump` and `Router`, `LayoutProofs` about `GenerationalSlab` and `ArenaPool` |
| `MC...` and `*.cfg` | instances for TLC |

A definition whose comment describes a slip ("allocate carving one slot too
many") is not used by any specification. Each is a plausible bug in the
definition that follows it; putting it in the place of that definition makes TLC
report the property it is paired with in `PROJECT.json`.

### Slab

`slab` is a record with the fields of the struct; `mem[s]` is what the bytes of
slot `s` hold, a `FreeLink` or the caller's payload. Indices are 0-based and
links 1-based with 0 for the end, as in the source. A MAC is the pair it signs,
so it is ideal: collisions of the 32-bit tag are left out. `Allocate` follows the
source: the layout test, then the head (tag and range checked), then the uncarved
tail, and a bad head abandons the whole list and counts one event. That is the
release build; a debug build panics at the same place.

`held[s]` counts the outstanding allocations of a slot, so that a slot handed
out twice can be seen. `Move` changes the address of a slab on an inline
backing. `StrayWrite` is a caller that writes through a pointer it has freed.
With a MAC it may write any index, but no tag that verifies: a link the same slot
held earlier, written back with its tag, is not tried, and the code would take it
for intact, since the tag covers the slot and the index only. Without a MAC only an
index outside the slab can be told from a link, and the model has only those
writes: an in-range index written over a link of an unprotected slab aliases slots
by design (`NoProtection`). `Drop` is the debug build's leak report for a `T` with a
destructor.

### SlabOwner

One step per access to shared state: taking the mutex, `closed` set and queue
taken as two steps of one critical section, push and mirror update as two steps
of another, the relaxed load of the mirror, the read of `closed` after a refusal.
The mirror only grows between two resets, and only the owner resets it, so a
relaxed load returns any value between the last one the owner saw and the
current one: `seen .. mirror`. Drained entries are pushed one by one, with the
mutex free. Callers move pointers between threads (`HandOver`, `HandBack`) and
keep the contract: each slot is freed once, by its holder. Left out: the
lifetime of the shared `Arc` (the slab outlives every handle by construction),
and a poisoned mutex.

### GenerationalSlab

Values are numbered by their insert. A handle cannot be forged, so `remove` and
`get` are tried with issued handles, all of them, however old: `remove` accepts any
that has the generation of its slot, also when the slot is free. The rest is
history, which restricts no step: `issued` has every handle with the value it was
issued for, `live` the values inserted and not removed, `retired` the slots that
their latest remove took out of use, `revived` those that a stale handle brought
back, `relinked` those removed while they were on the free list (finding 1). The
properties of the passing run say how far that damage goes:
`GetExact` excepts the handles of revived slots, and no others, although revived
slots are linked with the rest; `NoSlotLost` holds until a slot is relinked;
`TypeOK` and `DropExact` hold throughout. The model is of one slab: handles of
another are not tried.

### ExtendableSlab

A step is a critical section. `Phase1...` is the first, with its two walks;
`Phase2` is the mapping, without the mutex, which may fail; `Phase3...` is the
second critical section. `held` is indexed by segment and slot; `Deallocate` may
run between any two phases. `peak` is history.

### SharedBump

`stored` holds every value the cursor has had. A relaxed load, and a
compare-exchange that fails (for a reason or spuriously), returns any of them not
older than what the thread has already seen: coherence, and nothing more.
Addresses are the base plus an offset, so that alignment of the address and of
the offset differ, and sums are compared with `UsizeMax` as the checked additions
do.

### Observers

Every atomic is a variable of its own (`st.allocs`, `st.frees`, `st.bytes`,
`st.peak`, `wm.allocated`, the fired levels, the policy's counter) and every
relaxed read-modify-write a step, in the order of the source: `Watermark` calls
`Statistics`, which calls `Faulty`, which asks its policy (one step, or the load
and compare-exchange loop of `FailAfter`) and then the inner allocator; counts are
added on the way out of `allocate` and subtracted on the way in to `deallocate`.
`CheckCapacity` computes the percentage from the capacity of the moment, the gate
from the capacity at construction. The inner allocator is external: it serves a
number of bytes, may grow once and may report corruption. Values are not stale
here: every decision is taken on the result of a read-modify-write, or on the
capacity.

### Hardened

Memory is cells of eight bytes, the size of a canary, a jitter header and a link.
`conf.layers` is the stack, outermost first, each wrapper at most once. The
geometry is in `WrapperOps`: the layout each layer passes on (`LayoutsFor`), the
pointer it returns (`PointersFor`), the words it writes (`GuardsOf`) and the size
it reports (`UsableSize`). `Allocate` builds on it; a `Deallocate`
descends one layer per step (`PoisonDeallocate`, `CanaryDeallocate`, ...), each
with the pointer and the layout the layer above gave it. A check that fails
panics: the call unwinds, the slot is in `lost`, and the caller may go on.
`QuarantineDeallocate` puts the block in the ring, advances `count` modulo
`CountMod`, and sends the evicted block down. `Drop` drains the ring through the
same steps. `StrayWrite` damages a cell next to a block; `StrayWriteAfterFree`
one of a block that waits in the ring. Header codes and canaries are ideal: a damaged one
is never taken for a good one. The displacement of `CacheJitter` is any the
source's arithmetic can give.

### Router

Cells of four bytes, the size of a link of a size class. `mem` holds what a
caller wrote or a link, so that a list threaded through a block in use shows as
lost contents; what a caller wrote beyond the size it asked for is not followed.
`Construct` takes the class regions one by one and gives them back in reverse if
one fails, or if there are more classes than the lookup table can name.
`WithFallback::new`, the only constructor this composition has (`SizeClassed` is no
`FixedRange`), checks nothing: that the two ranges are apart is the documented
contract of callers (`layout/fallback.rs:37-41`) and an assumption on `Builds`. The
stacks stand on memory that is writable throughout, so that their `commit` does not
fail; a commit that does is in `ArenaPool`. An `Offer` is what the primary stack, then the smallest
class that fits, then the backing answer to a request, with the state it leaves;
`Allocate` takes it. `Deallocate` is routed by address. `Resize` is the
default `grow` and `shrink` of the trait: allocate, copy the smaller size, free the
old block wherever that is; a failure leaves the old block alone. The zero-size
paths of `StdCompat` are actions of their own. The build is the release build,
where `StackAlloc` ignores a free that is not the top frame: such frames are
counted in `hist` and not in what must come back.

### Backing and ArenaPool

An operation of `Backing` maps a system state to the set of its outcomes, one
for each way its system calls can go; `faults` bounds the failures without cause.
A mapping has a length, a part that is `backed` (committed), guard pages and
bytes; `os.err` is the thread's last-error slot, `os.failed` what failed in the
operation at hand, `os.lost` mappings the system refused to unmap. Linux, macOS,
other unix and Windows differ in what `mmap`, `mprotect` and the release of pages do, as the
`cfg` attributes of the source have it. A construction walks the stack of
layers, and each layer that fails drops what it was given.

An arena in `ArenaPool` is a backing, a cursor, the marks of its open scopes and
the blocks callers may still use; `RewindTo`, `Reset`, `CloseScope` and `GiveBack`
end those above the mark. `Allocate` commits before it moves the cursor.
`Resize` is `grow` in place for the last block, or allocate, copy and free.
`Checkout`, `GiveBack`, `Prewarm`, `Clear` and `ReleaseIdle` are the pool's methods;
`CInit`, `CFree` and the others under `conf.use = "c"` the C functions; under
`"direct"` the backing itself is the allocator. The arithmetic of `BumpOps` is
the one every `allocate` of the backings and arenas repeats, and is mapped to
each of them.

## 3. Runs

| Run | Instance | Shows |
|---|---|---|
| `slab` | 3 slots, 2 addresses, 2 stray writes, with and without MAC | `ImplementsSlotPool`, `ExhaustedMeansAllHeld`, `NoFalseAlarm`, `DropReportExact`, `TypeOK` |
| `slab_owner` | 3 slots, queue of 2, 2 remotes, fixed thresholds 1 and 2 and the adaptive one | `ExactlyOnePlace`, `MirrorExact`, `ClosedMeansEmpty`, `NoSpuriousFailure`, `TypeOK` |
| `slab_owner_live` | the same with 1 remote, fair | `SpinEndsAfterDrop`, `FullQueueServiced` |
| `slab_owner_high` | threshold 64, queue of 2, fair | `FullQueueServiced` fails |
| `generational` | 3 slots, generations modulo 3, 8 inserts, any issued handle removed | `GetExact`, `NoSlotLost`, `RetiredStaysRetired`, `DropExact`, `TypeOK` |
| `generational_stale` | 2 slots, modulo 3, 6 inserts | `HandlesNeverAlias` fails |
| `extendable` | 2 threads, 2 slots a segment, 4 segments | `ImplementsSlotPool`, `GrowsOnlyWhenFull`, `GrowthBounded`, `TypeOK` |
| `shared_bump` | 2 threads, 6 bytes at 4, 5 and 9 of 15, sizes 1 and 3, alignments 1, 2, 4 | `Disjoint`, `WellPlaced`, `RefusalIsFinal`, `TypeOK` |
| `observers` | 2 threads, 6 stacks: every policy; thresholds in order, swapped, equal, above 100; capacity fixed, growing, none | `NeverOverstated`, `ExactAtRest`, `RisingEdges`, `FaultsOnSchedule` |
| `hardened` | 6 stacks of up to 3 wrappers over 4 slots, a counter modulo 4 with rings of 1 to 3 | `BlocksIntact`, `NoSecretSurvives`, `TamperingDetected`, `DelayedFree` |
| `router` | 3 builds that succeed, 6 that are refused; up to 3 blocks, 4 allocations, 1 stray write | `ContentsKept`, `RoutedHome`, `NothingLost` |
| `arena_pool` | 35 configurations of backing, wrappers, platform and use, up to 3 mappings, 2 failing system calls | `LiveMemoryUsable`, `PoolExact`, `FailureExplained`, `NoBadRelease` |

**Bounds.** Three slots are enough for a list with a head, a middle and an end
while another slot is held. Two stray writes damage two links of one list, or a
link again after the list was rebuilt. A queue of two with three slots gets
full, empty and partly full with a free in progress; the table `<<1, 2>>` with a
cooldown of one has both ends and a tick that is skipped. Generations modulo 3
with eight inserts let two slots wrap, retire, be revived by stale handles, be
relinked and retire again, while the third is linked with them; with four inserts
one slot is retired, relinked to itself and read through an old handle. Two threads and four segments let both install while the other waits, and
go on. A region of six bytes at the highest address makes rounding overflow.
Three calls of two threads cross a threshold together, free below it and cross it
again, and run `FailAfter(2)` out under contention. A counter modulo 4 with rings
of 3, 2 and 1 has a wrap that jumps and wraps that do not; six frees fill the
ring, pass the wrap and evict after it. Four allocations with a primary of one cell
exhaust the primary and a class, overflow to the backing, and reuse a list of two
slots with an overwritten link; one build has a class past `LookupLimit`, whose
requests go to the backing; with a primary of two or three cells, three of them
free its frames out of order. In `arena_pool` a configuration is either rich in failures (two, with one
allocation and two arenas: every pair of calls of a construction, of its undoing
and of `prewarm`) or rich in allocations (three, with one failure: a block, a
scope, a block grown over a page boundary whose commit fails); `Page` 2,
`HugePage` 4 and `UsizeMax` 200 make rounding, a second page and overflow happen
at sizes up to 12. `MaxStray`, `MaxInserts`, `MaxSegments`, `MaxCalls`,
`MaxRearms`, `MaxCorrupt`, `MaxLive`, `MaxStrays`, `MaxRegions`, `MaxBlocks` and the bounds in a
configuration (`frees`, `strays`, `faults`, `calls`, `held`) bound behaviours; the
others are parameters of the program.

**Deadlock** is not checked where the system may stop: after drop, or when a
bound on calls is reached. Threads and remotes are symmetric; the runs with
liveness use no symmetry.

**Fairness** (`SlabOwner!FairSpec`). Threads are scheduled (weak fairness of their
steps). A thread that waits for the mutex gets it when it is free again and again
(strong fairness of `OwnerLock`, `RemoteLock`): what a futex gives with
probability one, not by a queue. A store becomes visible (strong fairness of a
load that reads the current mirror), as the memory model promises in finite time.
`try_lock` is not unlucky for ever (strong fairness of an attempt that finds the
mutex free): critical sections are a few instructions, and the code says "we'll
catch up next time". And the owner keeps calling `allocate` or `deallocate` until
it is dropped: without that no property about draining can hold, since nothing
but the owner's calls drains. `drain()` itself is not assumed to be called.

## 4. Proofs

Proved with TLAPS, for every value of the constants under the named assumptions
of the modules.

**Slab** (`SlabProofs`). `SlabImplementsSlotPool`, `NothingLost`, `AlarmsAreReal`,
`TypeCorrect`. None of these is inductive: they say nothing of the list in
memory. `IndInv` adds it. The history `rank` gives each listed slot its place
(1 at the end, `depth` at the head). `ListShape`: places are distinct, the head
has the highest, and each listed link is `Intact` (leads one place down, signed
for its own slot) or `Broken` (overwritten in a way `allocate` can tell).
`Ownership`: held at most once, never held and listed, nothing uncarved is
either. `Accounting`: until an event, every carved slot is held or listed.
`Alarms`: a link that is not intact is paid for by a stray write not yet
counted. `Move` preserves it because nonces are indices.

`DropReportIsExact` adds the walk of `drop` (`SlabOpsProofs`): on a list whose
places are distinct and descend, a walk visits one place per step and so ends
after `depth` steps; with `Accounting`, the count equals the cursor exactly when
nothing is held. The prover has no induction over data here; such facts are
proved by looking at the least number for which they fail (`LeastNat`).

**SlabOps** (`SlabOpsProofs`). `Sound(slab, own)` says that the list is a chain
without repetition of exactly the carved slots that nobody owns. The lemmas say
what `allocate` and `deallocate` do to it, whoever the owners are, so that the
owner with its remotes and the segments of a vector use the same facts.

**SlabOwner** (`SlabOwnerProofs`), for any number of remotes, any capacities and
any policy. `MirrorIsExact`, `NothingEntersAClosedQueue`, `AllocateDrainsFirst`,
`SlotsAreInOnePlace`, `TypeCorrect`. `IndInv` adds to the types: `MutexHeld` (the
holder of the mutex, read off the program counters), `MirrorLag` (the mirror is
behind by exactly the entry just pushed, between push and store, and else exact),
`Closing` (the flag is set inside drop's critical section only, and drop leaves an
empty queue), `HasSlot`, and `MissedAreComing`: the slots queued at the first miss
are followed through queue and batch to the head of the free list the second
attempt finds. `SlabShape` keeps links in range, so that a head other than 0 can
be followed. For `SlotsAreInOnePlace`, `At(s, k)` names the places outside the
slab (callers, calls in progress, indices of the queue and of the batch); a slot
is at one of them at most, and the slab is `Sound` for the slots that are at none.
`Clerk` says when a call holds a slot at all.

**ExtendableSlab** (`ExtendableSlabProofs`), for any number of threads and any
capacities. `ImplementsPool`, `GrowthNeedsFullSegments`, `GrowthBoundedAlways`,
`TypesAlways`. `SegmentsSound`: every segment is `Sound` for what callers hold of
it, and nobody holds a block of a segment that is not there. The two bounds are
not inductive as stated, since a thread that decided to map a segment adds it
later: `Room` and `Growth` count the segments on their way in with those in the
vector. `PeakHolds` ties `peak` to what is held when a walk finds every segment
full.

**SharedBump** (`BumpProofs`). `TypeCorrect`, `BlocksAreDisjoint`, `BlocksAreWellPlaced`,
`CursorOnlyAdvances`, `RefusalsAreFinal`, for any number of threads. The
invariant orders the blocks by the exchanges that made them and puts every value
a thread has seen below the cursor; a successful exchange starts where the
previous one ended. `RefusalsAreFinal` rests on the monotonicity of rounding up,
proved as a lemma.

**Router** (`BumpProofs`), for every build (bases, capacities, any sequence of
class sizes), any layouts with alignments that are powers of two, any number of
calls, blocks and overwritten links; assumed of a build is that its ranges are apart
and end inside the address space, which callers answer for. `RouterContents`,
`RouterRoutes`, `RouterLosesNothing`, from `RouterInvariant`. What a caller can see is not
inductive: a block that overlaps nothing now can be overlapped later by a frame or
by a link of a list that already leads into it. `Struct` says where everything is:

* `StackOk`: the frames of a stack lie in order between bounds that start at 0 and
  end at the cursor. `Regions`: the class regions are the first frames of the
  backing, at multiples of their stride, which is a power of two.
* `StackBlocks`: each block of a stack has a frame of its own above those, and the
  frames without a block are those of ignored frees, counted. Only the top frame is
  ever popped, so a free in any order keeps this.
* `ClassOk`: the free list of a class is a sequence `fl[lo..hi]` of distinct carved
  slots, each linked in memory to the one before; its end is either the end of the
  list or an overwritten link, and then an event is still to come. Each block of the
  class has a slot that is not listed. While no link was overwritten, listed and used
  slots add up to the carved ones.

From these, two blocks are `Apart` whoever serves them, and a write to a free slot
(a link, a stray) or to a new block reaches no other block: `Contents` is kept.
Routing by address is `Regions` again: a slot's address lies in its region, and a
block of the backing above all of them. One lemma per effect (a push, a pop, an
ignored free, a slot taken from the list or carved, a list given up, a slot freed),
each for any state, and one per action on top. `Resize` is an allocation, a copy and
a free, and uses both lemmas in turn. The construction loop is a function by
recursion on the classes; that the function exists and what it holds after each class
is proved by the least index where it fails, as is that giving the regions back in
reverse empties the backing.

**GenerationalSlab** (`LayoutProofs`), for every capacity, every width of the
generation and any handles passed to `remove`. `GenerationalTypeCorrect`,
`HandlesAreExact`, `RetirementIsFinal`, `DropIsExact`, `NothingIsLost`, from
`GenerationalInvariant`. A stale handle can ruin the free list, so the invariant
has to say what stays in order beside the ruin. `Clean` slots are those never
revived, and all slots as long as none was relinked. `ListShape`: a clean slot that
is the head or a link is listed, and is so once at most, whatever the slots that
lead to it; links to other slots are any used slots. That is kept because a step
moves the head into a link or a link into the head and creates only links to the
slot it removes, and because a listed slot that was never revived is older than no
handle, so that `remove` refuses them all. `HandleAge`: outside retired and revived
slots a handle is at most as young as its slot, and as young only while the slot
holds its value. `LiveShape`: live values, slots and handles correspond one to one.
Wrap-around is where `HandleAge` would break, and where the slot is retired. For
`NothingIsLost`, `ListShape` alone would allow a circle of listed slots away from
the head; `Reached` excludes it, while no slot is relinked, with a place for each
listed slot, counted from the end.

**ArenaPool** (`LayoutProofs`), for every stack of backings and wrappers, every
size, cap, page and huge page size, number of calls and of failures, and every way
the system calls go. `ArenaBlocks`, `ArenaPoolExact`, `ArenaFailures`,
`ArenaReleases`, from `ArenaInvariant`. The assumptions on a configuration are the
crate's own types: a mapping, a buffer or the heap at the bottom, each wrapper once,
`GuardPage`, `NumaLocal` and `HugePageAligned` over a mapping only (`OsBacked`);
alignments and page sizes are powers of two, and mappings end in the address space.

None of the four is inductive. That a block lies on committed pages needs the
commit watermark to be what the system was told, that it is no guard needs the range
between the guards, and that it stays its arena's own needs every mapping to have one
owner. `ArenaInv` says so:

* `BackingOk`, for the first k layers of a backing under construction and for all of
  them afterwards: the watermark is the committed length of the mapping, the lock and
  the guards are as the layers ask, and the usable range is what lies between the
  guards.
* `Holds`: what is mapped is what is in use and what the system refused to unmap;
  `Sound`: the arenas of the callers and of the pool share no mapping, the mapping of
  `SplitMetadata` included.
* `CursorOk`, `BlocksOk`: marks ascend up to the cursor; a block lies below the cursor
  and below every mark set after it, apart from the others, on committed pages that are
  no guards, and keeps its contents. A block dies with the mark or the rewind that
  passes it, so nothing else is needed when the cursor moves back.
* `LastOk`: what failed in the last operation, and what the slot holds then.

One lemma per system call says which mappings it leaves alone and what it tells; one
per bottom layer and per wrapper says that a construction ends with one more layer in
order (`Built`) or with everything given back and the failure explained, so that the
failures of the clean-up are covered too; one per action puts the arena back in its
place. `checkout`, `prewarm`, `clear` and `release_idle` go through layers or arenas one
after the other, any of which may fail: these are functions by recursion on the place,
and what holds after each place is proved by the least one where it fails.
`ArenaPoolExact` counts regions: arenas with different holders have different regions,
so there are as many as arenas.

**Observers** (`ObserversProofs`), for any number of threads, sizes and
configurations. `NeverOverstatedAlways`, `ExactAtRestAlways`,
`FaultsOnScheduleAlways`, `RisingEdgesAlways`. A counter is what callers hold plus
what the threads between two updates are about to add or subtract. `Books` states
that for each counter, as a sum over threads; a sum is the cardinality of a set of
units (`Total`), so that one thread's step changes it by one term
(`TotalUpdate`). `Highs`: a high-water mark or a corruption count not recorded yet
is in the hands of a thread about to record it. `Schedule`: what the policy has
used up, against what was granted and refused. `Handlers` and `Crossings`: a
handler was called once for each time its bit was set, or is about to be, and a
level above the threshold with the bit clear is in the hands of a thread that is
still to check it.

**Hardened** (`HardenedProofs`), for every stack, in any order, every number of
slots, layouts, line, ways, `EPOCHS` and counter width. `BlocksIntactAlways`,
`NoSecretSurvivesAlways`, `TamperingDetectedAlways`, `DelayedFreeAlways`. The
assumptions are that a wrapper occurs once, and that the smaller of an alignment
and the line or the stride divides the larger (all are powers of two).

* The geometry is proved first, over all stacks: layouts and pointers nest from
  layer to layer (`Nested`), every pointer is aligned as its layer asks
  (`PointersAligned`), a guard word of layer j is inside what the layers below
  see and outside what j and those above see (`GuardPlace`), two guards never
  meet (`GuardsDistinct`), the data up to `usable_size` touches no guard
  (`DataSpanFree`), and from the scrubbing layer `usable_size` reaches all of it
  (`ScrubReaches`).
* Then one lemma for each layer: what it does to a block on its way down, as the
  next layer will see it (`ScrubbedOn`, `CanaryOn`, `JitterOn`, `PassedOn`), when
  its check fails (`CanaryAlarm`, `JitterAlarm`), and what a stray write does to
  it (`StruckWhileLive`, `StruckWhileReturning`).
* `IndInv`. None of the four properties is inductive: they speak of blocks in use
  and of free slots, and a block spends its dangerous time between the two.
  `OnePlace` puts each slot with a caller, in the ring, in the call, in the free
  list or among the lost. `LiveIntact`, `RingKept`, `CallKept` and `FreeClean` say
  what memory holds in each of these: a block seen from layer k has the pointer
  and layout layer k expects, the guards of k and below as they were written or a
  hit that is still visible, and no data past the scrubbing layer; a free slot has
  neither data nor canary. `Draining` follows drop through the ring, `LostHit` the
  panics. `Ages` gives each entry of the ring the count at which it went in, in
  this turn of the counter or the one before its wrap.
* A step changes one slot, so `StepKeeps` leaves only that slot to look at.

**Only model-checked.** Liveness (`SpinEndsAfterDrop`, `FullQueueServiced`), which
this prover has no rules for. Every invariant and every other action property of the
passing runs is a theorem.

## 5. Findings

1. `GenerationalSlab::remove` compares generations only. A retired slot is at
   generation 0 again; a kept copy of the handle it was issued with at
   generation 0 passes the test, and the retired slot goes on the free list,
   against the type's documentation. From there the slot is issued at generations
   1, 2, ... once more, and handles kept from the first cycle read values they were
   not issued for: the reuse that retirement is documented to close, and the trace
   of `generational_stale`. What is proved of the code as it is: only handles of
   that slot are affected. A relinked slot can also be removed by a second stale
   handle, of generation 1, while it is at the head of the free list. Its link then
   leads to itself, the rest of the list is cut off, and after one more insert the
   head is an occupied slot: `insert` is at the branch its comment calls not
   reachable via the safe API (`layout/generational.rs:291`), panics in a debug
   build and refuses in a release build, with slots free. `NoSlotLost` without
   `relinked = {}` has that trace.
2. A threshold above the queue's capacity means that a busy owner never drains;
   a remote's `deallocate` then spins for as long as the owner's slab has free
   slots. The lowest adaptive level is 8, so an adaptive owner with a queue
   below 8 is in the same position. (`slab_owner_high`)

Disagreements met while modelling that no run is spent on:

* A comment of `ExtendableSlab::allocate` (`layout/extendable_slab.rs:296`) says
  that the new segment is the only one with space; a concurrent free makes
  another. Harmless: the next walk goes back.
* `hardening/quarantine.rs:138` says that the counter's wrap is harmless. When
  `EPOCHS` does not divide 2^w one turn of the ring is shortened to 2^w mod
  `EPOCHS` frees. `DelayedFree` states the exact exception.
* The documentation of `WithFallback` says that activity of the secondary does
  not move the thresholds of a `Watermark` around it; `Watermark::allocate` counts
  every success.
* `SizeClassed` gives its regions back in reverse when construction fails, and
  forward in `drop`: over a `StackAlloc` only the last is popped.
* `GuardPage` over a lazily committed mapping on Windows: the documentation says
  it faults at the first write; `VirtualProtect` refuses pages that are not
  committed, so construction is refused.
* A constructor that `GuardPage` rejects may leave the error of the unmap in the
  slot, where `LockedMmapBacked` restores the error of the lock.
  `FailureExplained` allows for it.

## 6. Not modelled

* `System`, `CachePadded`, `BumpDeallocator`: no state. `AlignedColBuffer`: a
  length over an allocator's `grow`, which is modelled. `testing.rs`, benchmarks
  and fuzz targets: no logic of the library.
* Hints (`madvise`, huge-page advice, NUMA preference that is not an error) and
  calls that only read (`page_size`, `current_numa_node`, `usable_size` where it
  changes nothing).
* Panics in destructors, poisoned mutexes, allocation failure inside the standard
  library's containers, collisions of MACs, canaries and header codes, and the
  bytes callers store beyond what tells blocks apart.
* `reset` through `PoisonOnFree`, `Canary` and the like: the allocator of slots
  under `Hardened` has none. `commit` is not forwarded by a `BumpArena` used as a
  `FixedRange`, so a lazily committed mapping under one is not composed further.
* `WithFallback::try_new` and `ranges_disjoint`, for a secondary with a range of its
  own: one comparison of four numbers and no state. A replayed link under a MAC.
* Debug builds, except where a debug assertion is a property (`MirrorExact`,
  `NeverOverstated`, `DropReportExact`).

## 7. Open ends

1. `Hardened` over a layout other than slots, so that `reset` reaches the wrappers.
