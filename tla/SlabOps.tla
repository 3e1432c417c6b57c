------------------------------- MODULE SlabOps -------------------------------
(***************************************************************************)
(* The data structure of layout/slab.rs, Slab<T, B, M>: a region of        *)
(* Capacity slots, a free list threaded through the memory of the free     *)
(* slots and a cursor over the slots never carved yet.  A slab is a value  *)
(* (a record) and its methods are operators on that value, so that         *)
(* SlabOwner and ExtendableSlab, which own slabs, use the same             *)
(* definitions.                                                            *)
(*                                                                         *)
(* Slot indices are 0-based, list links are 1-based and 0 ends the list,   *)
(* as in the source.  A MAC is ideal: it is the pair of the values that    *)
(* were signed, and NoTag is a tag that verifies for no link.              *)
(***************************************************************************)
EXTENDS Integers, FiniteSets

CONSTANT Capacity    \* slots of the slab; with_protection refuses 0

ASSUME CapacityAssumption == Capacity \in Nat \ {0}

Slots == 0 .. (Capacity - 1)

NoSlot == -1         \* Err(AllocError)

NoTag == <<-1, -1>>

(* FreelistProtection::sign and verify.  NoProtection signs everything with *)
(* the same word and accepts every tag.                                    *)
Sign(protected, next_idx, nonce) ==
  IF protected THEN <<next_idx, nonce>> ELSE NoTag

Verify(protected, link, nonce) ==
  protected => link.mac = <<link.next_idx, nonce>>

(* What a slot's bytes hold while a caller owns it (or before it is first  *)
(* carved): the index may pass for a link's, the tag does not verify.      *)
Payload == [next_idx |-> 0, mac |-> NoTag]

(* Slab::with_protection, from a backing placed at address base. *)
NewSlab(protected, base) ==
  [ protected         |-> protected,
    base              |-> base,
    free_head         |-> 0,
    next_uncarved     |-> 0,
    mem               |-> [s \in Slots |-> Payload],
    corruption_events |-> 0 ]

(* Nonce taken from the slot's address instead of its index. *)
NonceIsAddress(slab, idx) == slab.base + idx

(* The value that binds a link to its slot.  A slab built on an inline     *)
(* backing changes its address when it is moved; the index does not change.*)
Nonce(slab, idx) == idx

(* deallocate linking the slot to nothing: the rest of the list is lost. *)
PushForgetsList(slab, idx) ==
  [slab EXCEPT
     !.mem[idx]  = [next_idx |-> 0, mac |-> Sign(slab.protected, 0, Nonce(slab, idx))],
     !.free_head = idx + 1]

(* Slab::deallocate: sign a link to the old head, write it into the slot,  *)
(* make the slot the head.                                                 *)
Push(slab, idx) ==
  [slab EXCEPT
     !.mem[idx]  = [next_idx |-> slab.free_head,
                    mac |-> Sign(slab.protected, slab.free_head, Nonce(slab, idx))],
     !.free_head = idx + 1]

(* The link followed without checking its tag. *)
HeadUnverified(slab) ==
  slab.free_head # 0 /\ slab.mem[slab.free_head - 1].next_idx <= Capacity

(* The link followed without checking its range. *)
HeadUnbounded(slab) ==
  LET idx == slab.free_head - 1
  IN  slab.free_head # 0 /\ Verify(slab.protected, slab.mem[idx], Nonce(slab, idx))

(* The head's link may be followed: its tag verifies and it stays inside   *)
(* the slab.                                                               *)
HeadIntact(slab) ==
  LET idx == slab.free_head - 1
  IN  /\ slab.free_head # 0
      /\ Verify(slab.protected, slab.mem[idx], Nonce(slab, idx))
      /\ slab.mem[idx].next_idx <= Capacity

(* Pop the head.  Its memory is the caller's from here on. *)
TakeHead(slab) ==
  LET idx == slab.free_head - 1
  IN  [slab EXCEPT !.free_head = slab.mem[idx].next_idx,
                   !.mem[idx]  = Payload]

(* A head that may not be followed makes the slab forget its whole list. *)
Abandon(slab) ==
  [slab EXCEPT !.free_head = 0,
               !.corruption_events = @ + (IF slab.free_head = 0 THEN 0 ELSE 1)]

Carve(slab) == [slab EXCEPT !.next_uncarved = @ + 1]

Result(slab, slot) == [slab |-> slab, slot |-> slot]

(* allocate carving one slot too many. *)
AllocatePastEnd(slab, fits) ==
  IF ~fits
    THEN Result(slab, NoSlot)
  ELSE IF HeadIntact(slab)
    THEN Result(TakeHead(slab), slab.free_head - 1)
  ELSE IF slab.next_uncarved <= Capacity
    THEN Result(Carve(Abandon(slab)), slab.next_uncarved)
  ELSE Result(Abandon(slab), NoSlot)

(* Slab::allocate.  fits is FALSE for a layout larger or more aligned than *)
(* a slot, which is refused before anything is touched.                    *)
Allocate(slab, fits) ==
  IF ~fits
    THEN Result(slab, NoSlot)
  ELSE IF HeadIntact(slab)
    THEN Result(TakeHead(slab), slab.free_head - 1)
  ELSE IF slab.next_uncarved < Capacity
    THEN Result(Carve(Abandon(slab)), slab.next_uncarved)
  ELSE Result(Abandon(slab), NoSlot)

-----------------------------------------------------------------------------
(* The walk Slab::drop makes over the list, which trusts next_idx and      *)
(* stops at 0, at an index outside the slab, or after Capacity + 1 links.  *)
Walk(slab) ==
  LET Head[n \in 0 .. Capacity] ==
        IF n = 0 THEN slab.free_head
        ELSE IF Head[n - 1] \in 1 .. Capacity
             THEN slab.mem[Head[n - 1] - 1].next_idx
             ELSE Head[n - 1]
  IN  Head

(* A count that starts behind the head. *)
FreelistLenBehindHead(slab) ==
  LET head == Walk(slab)
  IN  Cardinality({n \in 1 .. Capacity : head[n] \in 1 .. Capacity})

(* freelist_len of Slab::drop. *)
FreelistLen(slab) ==
  LET head == Walk(slab)
  IN  Cardinality({n \in 0 .. Capacity : head[n] \in 1 .. Capacity})

(* The slots on the list. *)
FreeSlots(slab) ==
  LET head == Walk(slab)
  IN  {s \in Slots : \E n \in 0 .. Capacity : head[n] = s + 1}
=============================================================================
