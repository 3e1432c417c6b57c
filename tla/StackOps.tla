------------------------------- MODULE StackOps -------------------------------
(***************************************************************************)
(* layout/stack_alloc.rs: StackAlloc<B>, a cursor and a stack of frames.   *)
(* A frame is the offset of its block and the cursor before it.            *)
(***************************************************************************)
EXTENDS BumpOps, SequencesExt

(* The backings are writable throughout, so that their commit, called in   *)
(* allocate before the frame is recorded, does nothing and does not fail.  *)
NewStack == [cursor |-> 0, frames |-> <<>>]

StackHasRoom(st, base, capacity, layout) == Fits(base, capacity, st.cursor, layout)

(* allocate, where there is room: the frame keeps the cursor to return to. *)
StackPush(st, base, layout) ==
  [cursor |-> EndOff(base, st.cursor, layout),
   frames |-> Append(st.frames, [off |-> AlignedOff(base, st.cursor, layout),
                                 prev |-> st.cursor])]

(* deallocate in a release build: a block that is not the top frame is     *)
(* ignored.                                                                *)
IsTop(st, off) == st.frames # <<>> /\ Last(st.frames).off = off

(* The top frame popped whatever the block. *)
StackPopAlways(st, off) ==
  IF st.frames = <<>> THEN st
  ELSE [cursor |-> Last(st.frames).prev, frames |-> Front(st.frames)]

StackFree(st, off) ==
  IF IsTop(st, off)
  THEN [cursor |-> Last(st.frames).prev, frames |-> Front(st.frames)]
  ELSE st
=============================================================================
