------------------------------- MODULE Backing -------------------------------
(***************************************************************************)
(* The backings of forge-alloc and the wrappers that sit on them:          *)
(* MmapBacked, LockedMmapBacked, HugePageBacked, HeapBytes, StaticBacked,  *)
(* InlineBacked; SplitMetadata, GuardPage, NumaLocal, HugePageAligned.     *)
(*                                                                         *)
(* os is what the calling thread sees of the operating system: the         *)
(* mappings and the thread's last-error slot.  Every system call may fail. *)
(* An operation is the set of its outcomes, one for each way its calls can *)
(* go; b = NoBacking is Err(AllocError).                                   *)
(***************************************************************************)
EXTENDS BumpOps, SequencesExt

CONSTANTS
  Page,         \* page_size()
  HugePage,     \* the huge page size
  RegionSpan,   \* distance between mappings, a multiple of HugePage
  MaxRegions    \* bound: mappings at a time

ASSUME BackingAssumption ==
  /\ {Page, HugePage, RegionSpan, MaxRegions} \subseteq Nat
  /\ Page > 0 /\ HugePage > 0 /\ HugePage % Page = 0 /\ RegionSpan % HugePage = 0

(* faults bounds the system calls that may yet fail without need. *)
NewOs(platform, faults) ==
  [platform |-> platform, maps |-> <<>>, lost |-> {}, err |-> "none", failed |-> {},
   faults |-> faults]

NoBacking == [layers |-> <<>>]

(* What a byte holds: the data of a block (its number), or one of these.   *)
(* Bytes of no block in use are not told apart.                            *)
Zero == 0
Junk == -1
Poison == -2

(* usize::is_power_of_two: no odd divisor other than 1. *)
IsPowerOfTwo(n) == n > 0 /\ \A d \in 2..n : n % d = 0 => d % 2 = 0

-----------------------------------------------------------------------------
(* System calls.  A failure is put into the slot right after the call;     *)
(* failed collects the failures of the operation under way.                *)
Failing(os, call) == [os EXCEPT !.err = call, !.failed = @ \cup {call}]

MayFail(os, call) ==
  IF os.faults > 0 THEN {Failing([os EXCEPT !.faults = @ - 1], call)} ELSE {}

(* A synthetic EINVAL for what no system call was asked to do. *)
SyntheticEinval(os) == {[os |-> Failing(os, "einval"), b |-> NoBacking]}

Mapping(addr, len, backed) ==
  [addr |-> addr, len |-> len, backed |-> backed, locked |-> FALSE, guards |-> {},
   mem |-> [i \in 0..(len - 1) |-> Junk]]

FreeRegions(os) == (1..MaxRegions) \ DOMAIN os.maps

(* Address space for one more mapping of this length. *)
NoRoom(os, len) == FreeRegions(os) = {} \/ len + Page > RegionSpan

(* Where the system puts a region: on a page, or on a huge page. *)
RegionAddr(r, layer) == r * RegionSpan + (IF layer = "huge" THEN 0 ELSE Page)

(* One more region, and the backing that owns it. *)
Mapped(os, layer, addr, len, backed) ==
  LET r == Min(FreeRegions(os))
      made == Mapping(IF addr = 0 THEN RegionAddr(r, layer) ELSE addr, len, backed)
  IN [os |-> [os EXCEPT !.maps = [q \in DOMAIN @ \cup {r} |-> IF q = r THEN made ELSE @[q]]],
      b |-> [layers |-> <<layer>>, region |-> r, meta |-> 0, base |-> 0, len |-> len,
             committed |-> backed]]

OsMap(os, layer, len, backed) ==
  {[os |-> f, b |-> NoBacking] :
     f \in MayFail(os, "map") \cup (IF NoRoom(os, len) THEN {Failing(os, "map")} ELSE {})}
  \cup (IF NoRoom(os, len) THEN {} ELSE {Mapped(os, layer, 0, len, backed)})

(* A mapping whose unmap is refused is lost to the process. *)
OsUnmap(os, r) ==
  {[os EXCEPT !.maps = Restrict(@, DOMAIN @ \ {r})]}
  \cup {[f EXCEPT !.lost = @ \cup {r}] : f \in MayFail(os, "unmap")}

(* os_map_huge: some systems offer no huge pages to ask for. *)
OsMapHuge(os, len) ==
  IF os.platform = "unix" THEN SyntheticEinval(os) ELSE OsMap(os, "huge", len, len)

OsUnmapHuge(os, r) == OsUnmap(os, r)

OsLock(os, r) == {[os EXCEPT !.maps[r].locked = TRUE]} \cup MayFail(os, "lock")

OsUnlock(os, r) == {[os EXCEPT !.maps[r].locked = FALSE]} \cup MayFail(os, "unlock")

(* Windows protects and resets committed pages only. *)
Uncommitted(os, r, off, len) == os.platform = "windows" /\ off + len > os.maps[r].backed

OsProtectNone(os, r, off, len) ==
  IF Uncommitted(os, r, off, len) THEN {Failing(os, "protect")}
  ELSE {[os EXCEPT !.maps[r].guards = @ \cup off..(off + len - 1)]} \cup MayFail(os, "protect")

(* The contents of released pages are not to be relied on. *)
Discarded(os, r, off, len) ==
  {[os EXCEPT !.maps[r].mem = [i \in DOMAIN @ |-> IF i \in off..(off + len - 1)
                                                  THEN Junk ELSE @[i]]]}
  \cup MayFail(os, "release")

OsReleasePages(os, r, off, len) ==
  IF Uncommitted(os, r, off, len) THEN {Failing(os, "release of uncommitted pages")}
  ELSE Discarded(os, r, off, len)

(* Huge pages are always committed; an old Linux refuses. *)
OsReleasePagesHuge(os, r, off, len) == Discarded(os, r, off, len)

(* apply_policy: mbind, on Linux only. *)
OsMbind(os) == {os} \cup (IF os.platform = "linux" THEN MayFail(os, "mbind") ELSE {})

(* The watermark moved before the call. *)
OsCommitWatermarkFirst(os, b, off, len) ==
  LET paged == AlignUp(off + len, Page)
      end == IF paged < os.maps[b.region].len THEN paged ELSE os.maps[b.region].len
      moved == [b EXCEPT !.committed = end]
  IN IF os.platform # "windows" \/ end <= b.committed THEN {[os |-> os, b |-> b, ok |-> TRUE]}
     ELSE {[os |-> [os EXCEPT !.maps[b.region].backed = end], b |-> moved, ok |-> TRUE]}
          \cup {[os |-> f, b |-> moved, ok |-> FALSE] : f \in MayFail(os, "commit")}

(* os_commit, on Windows: from the watermark to the end of the last page.  *)
(* The watermark moves when the call has succeeded.                        *)
OsCommit(os, b, off, len) ==
  LET paged == AlignUp(off + len, Page)
      end == IF paged < os.maps[b.region].len THEN paged ELSE os.maps[b.region].len
  IN IF os.platform # "windows" \/ end <= b.committed THEN {[os |-> os, b |-> b, ok |-> TRUE]}
     ELSE {[os |-> [os EXCEPT !.maps[b.region].backed = end],
            b |-> [b EXCEPT !.committed = end], ok |-> TRUE]}
          \cup {[os |-> f, b |-> b, ok |-> FALSE] : f \in MayFail(os, "commit")}

-----------------------------------------------------------------------------
(* The constructors of the backings. *)
(* lazy_commit reserves only, on Windows. *)
CommittedAtStart(os, layer, len) == IF os.platform = "windows" /\ layer = "lazy" THEN 0 ELSE len

MmapNew(os, layer, size) ==
  LET len == AlignUp(size, Page)
  IN IF size = 0 \/ size + Page - 1 > UsizeMax THEN SyntheticEinval(os)
     ELSE OsMap(os, layer, len, CommittedAtStart(os, layer, len))

(* An x86 macOS has superpages of one size, whatever was asked for. *)
RoundingGranularity(os, hp) == IF os.platform = "macos" /\ hp < HugePage THEN HugePage ELSE hp

HugeNew(os, size, hp) ==
  LET round == RoundingGranularity(os, hp)
  IN IF size = 0 \/ hp < Page \/ ~IsPowerOfTwo(hp) \/ size + round - 1 > UsizeMax
     THEN SyntheticEinval(os)
     ELSE OsMapHuge(os, AlignUp(size, round))

(* The global allocator records no error. *)
HeapNew(os, size) ==
  {[os |-> [f EXCEPT !.err = os.err], b |-> NoBacking] : f \in MayFail(os, "heap")}
  \cup (IF size = 0 \/ NoRoom(os, size) THEN {[os |-> os, b |-> NoBacking]}
        ELSE {Mapped(os, "heap", 0, size, size)})

(* A borrowed buffer (StaticBacked), or one inside the value (InlineBacked);*)
(* MaxRegions bounds them with the mappings.                               *)
BufferNew(os, layer, size, addr) ==
  IF FreeRegions(os) = {} THEN {} ELSE {Mapped(os, layer, addr, size, size)}

Bottom(b) == b.layers[1]

(* Drop.  A locked region is unlocked before it is unmapped. *)
DropMmap(os, r) == OsUnmap(os, r)

DropLocked(os, r) == UNION {DropMmap(o, r) : o \in OsUnlock(os, r)}

DropHuge(os, r) == OsUnmapHuge(os, r)

(* The global allocator takes a block back without fail; a buffer stays    *)
(* with its owner.                                                         *)
DropHeap(os, r) == {[os EXCEPT !.maps = Restrict(@, DOMAIN @ \ {r})]}

(* SplitMetadata drops its metadata first. *)
DropMeta(os, b) == IF b.meta # 0 THEN DropMmap(os, b.meta) ELSE {os}

DropBacking(os, b) ==
  UNION {CASE Bottom(b) = "locked" -> DropLocked(o, b.region)
           [] Bottom(b) \in {"mmap", "lazy"} -> DropMmap(o, b.region)
           [] Bottom(b) = "huge" -> DropHuge(o, b.region)
           [] OTHER -> DropHeap(o, b.region) : o \in DropMeta(os, b)}

(* A constructor that fails drops what it was given. *)
Rejected(os, b) == {[os |-> o, b |-> NoBacking] : o \in DropBacking(os, b)}

(* LockedMmapBacked::new: a region that cannot be locked is unmapped, and  *)
(* the error of the lock is put back into the slot.                        *)
LockedNew(os, size) ==
  UNION {IF o.b = NoBacking THEN {o}
         ELSE UNION {IF l.maps[o.b.region].locked THEN {[o EXCEPT !.os = l]}
                     ELSE {[os |-> [u EXCEPT !.err = l.err], b |-> NoBacking] :
                             u \in OsUnmap(l, o.b.region)} :
                       l \in OsLock(o.os, o.b.region)} :
           o \in MmapNew(os, "locked", size)}

(* SplitMetadata::new. *)
SplitNew(os, b, metaSize) ==
  UNION {IF m.b = NoBacking THEN Rejected(m.os, b)
         ELSE {[os |-> m.os, b |-> [b EXCEPT !.layers = Append(@, "split"), !.meta = m.b.region]]} :
           m \in MmapNew(os, "mmap", metaSize)}

(* The slot left as an earlier call may have filled it. *)
KeepError(os) == os

(* protect returns nothing: GuardPage::new reads the slot, cleared before. *)
ClearError(os) == [os EXCEPT !.err = "none"]

GuardFits(os, b, page) ==
  LET m == os.maps[b.region]
  IN /\ IsPowerOfTwo(page) /\ m.len >= 2 * page + 1
     /\ m.addr % page = 0 /\ m.len % page = 0

GuardNew(os, b, page) ==
  LET len == os.maps[b.region].len
      guarded == [b EXCEPT !.layers = Append(@, "guard"), !.base = page, !.len = len - 2 * page]
      TailGuard(o) == UNION {IF t.err # "none" THEN Rejected(t, b) ELSE {[os |-> t, b |-> guarded]} :
                          t \in OsProtectNone(o, b.region, len - page, page)}
  IN IF ~GuardFits(os, b, page) THEN Rejected(os, b)
     ELSE UNION {IF o.err # "none" THEN Rejected(o, b) ELSE TailGuard(o) :
                   o \in OsProtectNone(ClearError(os), b.region, 0, page)}

(* NumaLocal::new: mbind_args refuses an empty node set. *)
NumaNew(os, b, nodes) ==
  IF nodes = {} THEN Rejected(os, b)
  ELSE UNION {IF "mbind" \in o.failed THEN Rejected(o, b)
              ELSE {[os |-> o, b |-> [b EXCEPT !.layers = Append(@, "numa")]]} :
                o \in OsMbind(os)}

HugeAlignedNew(os, b, hp) ==
  IF ~IsPowerOfTwo(hp) \/ hp < Page THEN Rejected(os, b)
  ELSE {[os |-> os, b |-> [b EXCEPT !.layers = Append(@, "hpaligned")]]}

(* c.layers, from the bottom up. *)
BottomNew(os, c) ==
  CASE c.layers[1] \in {"mmap", "lazy"} -> MmapNew(os, c.layers[1], c.size)
    [] c.layers[1] = "locked" -> LockedNew(os, c.size)
    [] c.layers[1] = "huge" -> HugeNew(os, c.size, c.hp)
    [] c.layers[1] = "heap" -> HeapNew(os, c.size)
    [] OTHER -> BufferNew(os, c.layers[1], c.size, c.addr)

Wrap(os, b, layer, c) ==
  CASE layer = "split" -> SplitNew(os, b, c.meta)
    [] layer = "guard" -> GuardNew(os, b, c.page)
    [] layer = "numa" -> NumaNew(os, b, c.nodes)
    [] OTHER -> HugeAlignedNew(os, b, c.hp)

BackingNew(os, c) ==
  LET built[k \in 1..Len(c.layers)] ==
        IF k = 1 THEN BottomNew(os, c)
        ELSE UNION {IF o.b = NoBacking THEN {o} ELSE Wrap(o.os, o.b, c.layers[k], c) :
                      o \in built[k - 1]}
  IN built[Len(c.layers)]

-----------------------------------------------------------------------------
(* FixedRange::commit: forwarded down to the mapping, except by GuardPage, *)
(* which does not override the default, and by backings that need none.    *)
Commit(os, b, off, len) ==
  IF Bottom(b) \in {"mmap", "lazy", "locked"} /\ ~Contains(b.layers, "guard")
  THEN OsCommit(os, b, off, len)
  ELSE {[os |-> os, b |-> b, ok |-> TRUE]}

(* What HugePageAligned lets through: whole huge pages. *)
ReleaseRange(os, b, off, len) ==
  LET start == os.maps[b.region].addr + off
      first == AlignUp(start, HugePage)
      last == ((start + len) \div HugePage) * HugePage
  IN IF ~Contains(b.layers, "hpaligned") THEN [off |-> off, len |-> len]
     ELSE [off |-> off + (first - start), len |-> IF last <= first THEN 0 ELSE last - first]

(* MmapBacked::release_pages with no regard to the watermark. *)
ReleasableAll(os, b, range) == range.len

(* MmapBacked::release_pages clamps to the watermark on Windows. *)
Releasable(os, b, range) ==
  IF os.platform = "windows" /\ Bottom(b) # "huge"
  THEN LET end == range.off + range.len
           low == IF end < b.committed THEN end ELSE b.committed
       IN IF low > range.off THEN low - range.off ELSE 0
  ELSE range.len

ReleasePages(os, b, off, len) ==
  LET range == ReleaseRange(os, b, off, len)
      amount == Releasable(os, b, range)
  IN CASE Bottom(b) = "locked" \/ amount = 0 -> {os}
       [] Bottom(b) = "huge" -> OsReleasePagesHuge(os, b.region, range.off, amount)
       [] OTHER -> OsReleasePages(os, b.region, range.off, amount)

IsOsBacked(b) == Bottom(b) \in {"mmap", "lazy", "locked", "huge"} /\ ~Contains(b.layers, "guard")
=============================================================================
