--------------------------------- MODULE Slab ---------------------------------
(***************************************************************************)
(* layout/slab.rs as a state machine: one Slab<T, B, M> and the caller     *)
(* that allocates from it, frees what it holds, moves the slab, and may    *)
(* write through a pointer it has already freed.                           *)
(***************************************************************************)
EXTENDS SlabOps

CONSTANTS
  Bases,      \* addresses the slab may be moved to
  MaxStray    \* bound on the stray writes of a behaviour

ASSUME SlabAssumption ==
  /\ Bases \subseteq Int /\ Bases # {}
  /\ MaxStray \in Nat

VARIABLES
  slab,       \* the Slab value
  held,       \* held[s]: how many outstanding allocations returned slot s
  strays,     \* stray writes so far
  dropped,    \* Slab::drop has run and the region is back with the backing
  imbalance,  \* what Slab::drop computed
  rank,       \* history: place of a slot on the free list, 0 when not on it
  depth       \* history: length of the free list

vars == <<slab, held, strays, dropped, imbalance, rank, depth>>

history == <<rank, depth>>

Init ==
  /\ \E p \in BOOLEAN, b \in Bases : slab = NewSlab(p, b)
  /\ held = [s \in Slots |-> 0]
  /\ strays = 0
  /\ dropped = FALSE
  /\ imbalance = FALSE
  /\ rank = [s \in Slots |-> 0]
  /\ depth = 0

-----------------------------------------------------------------------------
(* The three outcomes of Slab::allocate that change the slab, told apart   *)
(* by what becomes of the list, and the refusals.                          *)

AllocateFromList ==
  /\ ~dropped
  /\ HeadIntact(slab)
  /\ slab' = Allocate(slab, TRUE).slab
  /\ LET s == Allocate(slab, TRUE).slot
     IN  /\ held' = [held EXCEPT ![s] = @ + 1]
         /\ rank' = [rank EXCEPT ![s] = 0]
  /\ depth' = depth - 1
  /\ UNCHANGED <<strays, dropped, imbalance>>

AllocateByCarving ==
  /\ ~dropped
  /\ ~HeadIntact(slab)
  /\ slab.next_uncarved < Capacity
  /\ slab' = Allocate(slab, TRUE).slab
  /\ held' = [held EXCEPT ![Allocate(slab, TRUE).slot] = @ + 1]
  /\ rank' = [s \in Slots |-> 0]
  /\ depth' = 0
  /\ UNCHANGED <<strays, dropped, imbalance>>

AllocateFails ==
  /\ ~dropped
  /\ ~HeadIntact(slab)
  /\ slab.next_uncarved >= Capacity
  /\ slab' = Allocate(slab, TRUE).slab
  /\ rank' = [s \in Slots |-> 0]
  /\ depth' = 0
  /\ UNCHANGED <<held, strays, dropped, imbalance>>

(* Slab::deallocate, called by the holder of the slot. *)
Deallocate(s) ==
  /\ ~dropped
  /\ held[s] > 0
  /\ slab' = Push(slab, s)
  /\ held' = [held EXCEPT ![s] = @ - 1]
  /\ rank' = [rank EXCEPT ![s] = depth + 1]
  /\ depth' = depth + 1
  /\ UNCHANGED <<strays, dropped, imbalance>>

(* The caller moves the slab value: an inline backing moves with it. *)
Move(b) ==
  /\ ~dropped
  /\ slab' = [slab EXCEPT !.base = b]
  /\ UNCHANGED <<held, strays, dropped, imbalance, history>>

(* A write through a pointer freed earlier overwrites a link.  The written *)
(* bytes are no tag of this slab; without a MAC only an index outside the  *)
(* slab can be told from a link.  (Writing back a link the slot had held   *)
(* before, tag and all, is left out: the tag is of the slot and the index, *)
(* and the code takes such a link for intact.)                             *)
StrayWrite(s, n) ==
  /\ ~dropped
  /\ strays < MaxStray
  /\ rank[s] > 0
  /\ slab.protected \/ n > Capacity
  /\ slab' = [slab EXCEPT !.mem[s] = [next_idx |-> n, mac |-> NoTag]]
  /\ strays' = strays + 1
  /\ UNCHANGED <<held, dropped, imbalance, history>>

(* Slab::drop: count the list, give the region back, report a mismatch. *)
Drop ==
  /\ ~dropped
  /\ imbalance' = (FreelistLen(slab) # slab.next_uncarved)
  /\ dropped' = TRUE
  /\ UNCHANGED <<slab, held, strays, history>>

Next ==
  \/ AllocateFromList
  \/ AllocateByCarving
  \/ AllocateFails
  \/ \E s \in Slots : Deallocate(s)
  \/ \E b \in Bases : Move(b)
  \/ \E s \in Slots, n \in 0 .. (Capacity + 1) : StrayWrite(s, n)
  \/ Drop

Spec == Init /\ [][Next]_vars

-----------------------------------------------------------------------------
Link == [next_idx : 0 .. (Capacity + 1), mac : Int \X Int]

SlabType ==
  [ protected : BOOLEAN, base : Bases, free_head : 0 .. Capacity,
    next_uncarved : 0 .. Capacity, mem : [Slots -> Link], corruption_events : Nat ]

(* Type correctness of the slab: the head and every index on the list stay *)
(* inside the region, in spite of moves and of stray writes.               *)
TypeOK ==
  /\ slab \in SlabType
  /\ held \in [Slots -> Nat]
  /\ strays \in 0 .. MaxStray
  /\ dropped \in BOOLEAN
  /\ imbalance \in BOOLEAN
  /\ rank \in [Slots -> Nat]
  /\ depth \in Nat

(* Slab::allocate never returns a slot that a caller still holds, whatever *)
(* was written over the links of free slots: the slab implements the pool. *)
Pool == INSTANCE SlotPool WITH grants <- held
ImplementsSlotPool == Pool!Spec

(* The same as an invariant of the slab's own state. *)
NoAliasing == \A s \in Slots : held[s] <= 1

(* allocate refuses a fitting request only when every slot is in use: no   *)
(* sequence of frees and reuses loses a slot, unless a corrupted link was  *)
(* detected and the list abandoned.                                        *)
ExhaustedMeansAllHeld ==
  (/\ slab.free_head = 0
   /\ slab.next_uncarved = Capacity
   /\ slab.corruption_events = 0)
  => \A s \in Slots : held[s] = 1

(* The corruption counter never counts an event nobody caused: moving the  *)
(* slab between a free and the next allocate does not break the MACs.      *)
NoFalseAlarm == slab.corruption_events <= strays

(* The leak report of Slab::drop is exact when no link was overwritten: it *)
(* fires if and only if a slot is still held.                              *)
DropReportExact ==
  dropped /\ strays = 0 => (imbalance <=> \E s \in Slots : held[s] > 0)

-----------------------------------------------------------------------------
(* The strengthening that makes the invariants above inductive: what the   *)
(* free list looks like in memory.                                         *)

(* The link of a listed slot is the one deallocate wrote: it leads to the  *)
(* slot one place down, or nowhere from the first place.                   *)
Intact(s) ==
  LET link == slab.mem[s]
  IN  /\ link.mac = Sign(slab.protected, link.next_idx, s)
      /\ link.next_idx \in 0 .. Capacity
      /\ IF rank[s] = 1 THEN link.next_idx = 0
                        ELSE /\ link.next_idx > 0
                             /\ rank[link.next_idx - 1] = rank[s] - 1

(* Or it was overwritten in a way allocate can tell. *)
Broken(s) == IF slab.protected THEN slab.mem[s].mac = NoTag
                               ELSE slab.mem[s].next_idx > Capacity

(* The slots on the list have the ranks 1 to depth, the head the highest. *)
ListShape ==
  /\ \A s \in Slots : rank[s] <= depth
  /\ \A s, u \in Slots : rank[s] = rank[u] /\ rank[s] > 0 => s = u
  /\ slab.free_head = 0 => depth = 0
  /\ slab.free_head # 0 => rank[slab.free_head - 1] = depth /\ depth > 0
  /\ \A s \in Slots : rank[s] > 0 => Intact(s) \/ Broken(s)

(* A slot is held at most once, and never held and listed, nor uncarved.   *)
Ownership ==
  \A s \in Slots :
    /\ held[s] <= 1
    /\ held[s] > 0 => rank[s] = 0
    /\ held[s] > 0 \/ rank[s] > 0 => s < slab.next_uncarved

(* Until a list is abandoned every carved slot is held or listed. *)
Accounting ==
  slab.corruption_events = 0 =>
    \A s \in Slots : s < slab.next_uncarved => held[s] > 0 \/ rank[s] > 0

(* A link that is not intact was paid for by a stray write not yet counted.*)
Alarms ==
  /\ slab.corruption_events <= strays
  /\ (\E s \in Slots : rank[s] > 0 /\ ~Intact(s)) => slab.corruption_events < strays

IndInv == TypeOK /\ ListShape /\ Ownership /\ Accounting /\ Alarms
=============================================================================
