------------------------------- MODULE BumpOps -------------------------------
(***************************************************************************)
(* The arithmetic every bump allocator of the library does before it moves *)
(* its cursor: layout/bump.rs, layout/stack_alloc.rs, layout/shared_bump.rs.*)
(* The address is aligned, not the offset; every addition is checked.      *)
(***************************************************************************)
EXTENDS Integers

CONSTANTS
  UsizeMax,    \* usize::MAX
  Aligns,      \* alignments a layout may ask for
  Sizes        \* sizes a layout may ask for

ASSUME BumpOpsAssumption ==
  /\ UsizeMax \in Nat
  /\ Aligns \subseteq Nat \ {0}     \* powers of two, by NonZeroLayout
  /\ Sizes \subseteq Nat \ {0}

Layout == [size : Sizes, align : Aligns]

(* (a + align - 1) & !(align - 1), for a power of two. *)
AlignUp(a, align) == ((a + align - 1) \div align) * align

(* The offset aligned instead of the address. *)
AlignedOffset(base, cur, layout) == AlignUp(cur, layout.align)

(* Where the block of a layout starts and ends when the cursor is at cur:  *)
(* offsets from base.                                                      *)
AlignedOff(base, cur, layout) == AlignUp(base + cur, layout.align) - base

EndOff(base, cur, layout) == AlignedOff(base, cur, layout) + layout.size

(* None of the checked additions overflows and the block ends inside the   *)
(* region.                                                                 *)
Fits(base, capacity, cur, layout) ==
  /\ base + cur + layout.align - 1 <= UsizeMax
  /\ EndOff(base, cur, layout) <= UsizeMax
  /\ EndOff(base, cur, layout) <= capacity
=============================================================================
