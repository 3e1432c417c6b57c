----------------------------- MODULE SizeClassOps -----------------------------
(***************************************************************************)
(* layout/size_classed.rs: SizeClassed<B, CLASSES> over a StackAlloc.  The *)
(* class regions are the first frames of the stack, larger requests are    *)
(* frames above them.  Memory is an array of cells of 4 bytes, the size of *)
(* a FreeLink; a free slot holds its link in its first cell.               *)
(***************************************************************************)
EXTENDS StackOps

CONSTANTS
  MaxClasses,     \* CLASS_LOOKUP_NONE, 255: the table holds class indices in a byte
  LookupLimit     \* 2^31 bytes in cells: the table has an entry for each power up to it

LinkTo(n) == <<"link", n>>

(* usize::is_power_of_two: no odd divisor other than 1. *)
IsPowerOfTwo(n) == n > 0 /\ \A d \in 2..n : n % d = 0 => d % 2 = 0

(* For n > 0: exactly one power of two is in this range. *)
NextPowerOfTwo(n) == CHOOSE p \in n..(2 * n - 1) : IsPowerOfTwo(p)

(* UntypedSlab::new *)
NewClass(off, stride, slots) ==
  [off |-> off, stride |-> stride, slots |-> slots, head |-> 0, next |-> 0, events |-> 0]

(* with_class_sizes refuses no slots or classes, and sizes that are too    *)
(* small for a link, not powers of two or not ascending.                   *)
ValidClasses(sizes, slots) ==
  /\ sizes # <<>> /\ slots > 0
  /\ \A i \in DOMAIN sizes : /\ sizes[i] >= 1 /\ IsPowerOfTwo(sizes[i])
                             /\ i > 1 => sizes[i - 1] < sizes[i]

(* The regions are taken from the backing class by class until one fails. *)
BuildClasses(base, capacity, sizes, slots) ==
  LET f[i \in 0..Len(sizes)] ==
        IF i = 0 THEN [backing |-> NewStack, classes |-> <<>>]
        ELSE LET region == [size |-> sizes[i] * slots, align |-> sizes[i]]
                 b == f[i - 1]
             IN IF Len(b.classes) < i - 1 \/ ~StackHasRoom(b.backing, base, capacity, region)
                THEN b
                ELSE [backing |-> StackPush(b.backing, base, region),
                      classes |-> Append(b.classes,
                        NewClass(AlignedOff(base, b.backing.cursor, region), sizes[i], slots))]
  IN f[Len(sizes)]

(* The regions given back from the first to the last: as drop does. *)
FreeRegionsForward(backing, classes) ==
  LET f[i \in 0..Len(classes)] == IF i = 0 THEN backing ELSE StackFree(f[i - 1], classes[i].off)
  IN f[Len(classes)]

(* The regions given back in reverse: when construction fails half way. *)
FreeRegionsReverse(backing, classes) ==
  LET n == Len(classes)
      f[i \in 0..n] == IF i = 0 THEN backing ELSE StackFree(f[i - 1], classes[n + 1 - i].off)
  IN f[n]

-----------------------------------------------------------------------------
(* pick_class: the class of the next power of two of the larger of size and*)
(* alignment, or of the first above it; 0 when there is none, or when the  *)
(* lookup table ends before it.                                            *)
PickClass(classes, layout) ==
  LET req == NextPowerOfTwo(IF layout.size > layout.align THEN layout.size ELSE layout.align)
      fitting == {i \in DOMAIN classes :
                    req <= classes[i].stride /\ classes[i].stride <= LookupLimit}
  IN IF fitting = {} THEN 0 ELSE CHOOSE i \in fitting : \A j \in fitting : i <= j

SlotAddr(base, class, idx) == base + class.off + idx * class.stride

(* allocate_slot: the head of the list, unless its link points outside the *)
(* class; then the list is given up.  Next an uncarved slot.               *)
LinkIntact(class, link) == link <= class.slots

TakesHead(base, class, mem) ==
  class.head # 0 /\ LinkIntact(class, mem[SlotAddr(base, class, class.head - 1)][2])

SlotFor(base, class, mem) ==    \* the index of the slot, or -1
  IF TakesHead(base, class, mem) THEN class.head - 1
  ELSE IF class.next < class.slots THEN class.next ELSE -1

ClassAfterAllocate(base, class, mem) ==
  IF TakesHead(base, class, mem)
  THEN [class EXCEPT !.head = mem[SlotAddr(base, class, class.head - 1)][2]]
  ELSE [class EXCEPT !.head = 0,
                     !.events = IF class.head # 0 THEN @ + 1 ELSE @,
                     !.next = IF @ < class.slots THEN @ + 1 ELSE @]

(* The region tested one cell too far. *)
RouteInclusive(base, classes, ptr) ==
  LET holding == {i \in DOMAIN classes :
                    ptr - (base + classes[i].off) \in 0..(classes[i].slots * classes[i].stride)}
  IN IF holding = {} THEN 0 ELSE CHOOSE i \in holding : \A j \in holding : i <= j

(* route_dealloc: the first class whose region holds the pointer; 0 for the*)
(* backing.  The subtraction wraps, so an address below the region is out. *)
RouteDealloc(base, classes, ptr) ==
  LET holding == {i \in DOMAIN classes :
                    ptr - (base + classes[i].off) \in 0..(classes[i].slots * classes[i].stride - 1)}
  IN IF holding = {} THEN 0 ELSE CHOOSE i \in holding : \A j \in holding : i <= j

(* free_slot: the old head goes into the slot.  A pointer that is no slot  *)
(* is counted and ignored.                                                 *)
IsSlot(base, class, ptr) == (ptr - (base + class.off)) % class.stride = 0

ClassAfterFree(base, class, ptr) ==
  IF IsSlot(base, class, ptr)
  THEN [class EXCEPT !.head = (ptr - (base + class.off)) \div class.stride + 1]
  ELSE [class EXCEPT !.events = @ + 1]
=============================================================================
