--------------------------- MODULE GenerationalSlab ---------------------------
(***************************************************************************)
(* layout/generational.rs: GenerationalSlab<T, B, G>, values behind        *)
(* handles.  A handle names a slot and the generation it was issued at;    *)
(* remove advances the generation, so that older handles stop working, and *)
(* retires a slot whose generation comes round to zero.                    *)
(*                                                                         *)
(* Inserted values are numbered, so that two inserts are never confused.   *)
(* Handles are only those insert has issued, their fields being private;   *)
(* callers keep every one of them and may pass any of them to remove, at   *)
(* any time.                                                               *)
(***************************************************************************)
EXTENDS Integers, FiniteSets

CONSTANTS
  Capacity,       \* slots; with_generation refuses 0
  Modulus,        \* 2^32 or 2^64: generations wrap here
  MaxInserts      \* bound on the inserts of a behaviour

ASSUME GenerationalAssumption ==
  /\ Capacity \in Nat \ {0}
  /\ Modulus \in Nat \ {0}
  /\ MaxInserts \in Nat

Slots == 0 .. (Capacity - 1)

None == -1           \* Option::None, for an index and for a value

VARIABLES
  generation,  \* generation[i]: GenerationalSlot::generation
  state,       \* state[i]: the value of SlotState::Occupied, or None for Free
  next_free,   \* next_free[i]: the link of SlotState::Free
  free_head,
  len,         \* slots used at least once
  inserts,     \* number of inserts, and name of the latest value
  issued,      \* history: every handle, with the value it was issued for
  live,        \* history: values inserted and not removed
  retired,     \* history: slots whose latest remove retired them
  revived,     \* history: retired slots that a later remove relinked
  relinked,    \* history: slots removed while they were on the free list
  over,        \* GenerationalSlab::drop has run
  dropped      \* the values it dropped

history == <<inserts, issued, live, retired, revived, relinked>>
vars == <<generation, state, next_free, free_head, len, history, over, dropped>>

Handle == [index : Slots, generation : 0 .. (Modulus - 1), value : 1 .. MaxInserts]

(* GenerationalSlab::with_generation. *)
Init ==
  /\ generation = [i \in Slots |-> 0]
  /\ state = [i \in Slots |-> None]
  /\ next_free = [i \in Slots |-> None]
  /\ free_head = None
  /\ len = 0
  /\ inserts = 0 /\ issued = {} /\ live = {}
  /\ retired = {} /\ revived = {} /\ relinked = {}
  /\ over = FALSE /\ dropped = {}

(* An increment that does not wrap. *)
PlainInc(g) == g + 1

(* GenerationInt::wrapping_inc. *)
WrappingInc(g) == (g + 1) % Modulus

-----------------------------------------------------------------------------
(* insert into slot i, at the generation the slot has. *)
Occupy(i) ==
  /\ inserts < MaxInserts
  /\ inserts' = inserts + 1
  /\ state' = [state EXCEPT ![i] = inserts']
  /\ issued' = issued \cup
       {[index |-> i, generation |-> generation[i], value |-> inserts']}
  /\ live' = live \cup {inserts'}
  /\ UNCHANGED <<generation, next_free, retired, revived, relinked, over, dropped>>

(* insert takes the head of the free list. *)
InsertReused ==
  /\ ~over
  /\ free_head # None
  /\ state[free_head] = None
  /\ free_head' = next_free[free_head]
  /\ len' = len
  /\ Occupy(free_head)

(* insert takes the next slot never used. *)
InsertFresh ==
  /\ ~over
  /\ free_head = None
  /\ len < Capacity
  /\ len' = len + 1
  /\ free_head' = free_head
  /\ Occupy(len)

(* insert returns Err: the head of the free list is occupied, or there is  *)
(* no slot left.                                                           *)
InsertFails ==
  \/ free_head # None /\ state[free_head] # None
  \/ free_head = None /\ len >= Capacity

(* get and get_mut. *)
Get(h) == IF generation[h.index] = h.generation THEN state[h.index] ELSE None

(* remove: the generation is the only thing compared. *)
Accepts(h) == generation[h.index] = h.generation

(* remove without retirement: every removed slot goes on the free list. *)
UnlinkAlways(h) ==
  /\ next_free' = [next_free EXCEPT ![h.index] = free_head]
  /\ free_head' = h.index

(* remove linking the slot to nothing: the rest of the list is lost. *)
UnlinkForgetsTail(h) ==
  /\ next_free' = [next_free EXCEPT ![h.index] = None]
  /\ free_head' = IF WrappingInc(generation[h.index]) = 0 THEN free_head ELSE h.index

(* remove puts the slot on the free list, or retires it when the advanced  *)
(* generation is zero.                                                     *)
Unlink(h) ==
  IF WrappingInc(generation[h.index]) = 0
    THEN /\ next_free' = [next_free EXCEPT ![h.index] = None]
         /\ free_head' = free_head
    ELSE /\ next_free' = [next_free EXCEPT ![h.index] = free_head]
         /\ free_head' = h.index

(* On the free list, or about to be: used, empty and not retired. *)
Listed(i) == i < len /\ state[i] = None /\ i \notin retired

(* What the histories keep of a remove: a slot is retired when its         *)
(* generation wraps, and revived when it is then removed again.            *)
Recorded(i) ==
  /\ live' = live \ {state[i]}
  /\ relinked' = IF Listed(i) THEN relinked \cup {i} ELSE relinked
  /\ IF WrappingInc(generation[i]) = 0
       THEN retired' = retired \cup {i} /\ revived' = revived
       ELSE retired' = retired \ {i} /\ revived' = revived \cup (retired \cap {i})

(* The generation left as it was. *)
KeepGeneration(h) == generation[h.index]

NextGeneration(h) == WrappingInc(generation[h.index])

(* remove, by any handle of the generation the slot has, whether the slot  *)
(* holds a value or is free.                                               *)
RemoveHandle(h) ==
  /\ ~over
  /\ h \in issued
  /\ Accepts(h)
  /\ generation' = [generation EXCEPT ![h.index] = NextGeneration(h)]
  /\ Unlink(h)
  /\ state' = [state EXCEPT ![h.index] = None]
  /\ Recorded(h.index)
  /\ UNCHANGED <<len, inserts, issued, over, dropped>>

(* Drop visiting the slots below len - 1 only. *)
DropStopsShort ==
  /\ ~over
  /\ over' = TRUE
  /\ dropped' = {state[i] : i \in {j \in 0 .. (len - 2) : state[j] # None}}
  /\ state' = [i \in Slots |-> IF i < len - 1 THEN None ELSE state[i]]
  /\ next_free' = [i \in Slots |-> IF state[i] = None THEN next_free[i] ELSE None]
  /\ UNCHANGED <<generation, free_head, len, history>>

(* GenerationalSlab::drop drops what every occupied slot holds. *)
Drop ==
  /\ ~over
  /\ over' = TRUE
  /\ dropped' = {state[i] : i \in {j \in Slots : state[j] # None}}
  /\ state' = [i \in Slots |-> None]
  /\ next_free' = [i \in Slots |-> IF state[i] = None THEN next_free[i] ELSE None]
  /\ UNCHANGED <<generation, free_head, len, history>>

Next ==
  \/ InsertReused
  \/ InsertFresh
  \/ \E h \in issued : RemoveHandle(h)
  \/ Drop

Spec == Init /\ [][Next]_vars

-----------------------------------------------------------------------------
(* Type correctness: indices stay inside the slab and generations inside   *)
(* their width.                                                            *)
TypeOK ==
  /\ generation \in [Slots -> 0 .. (Modulus - 1)]
  /\ state \in [Slots -> 1 .. MaxInserts \cup {None}]
  /\ next_free \in [Slots -> Slots \cup {None}]
  /\ free_head \in Slots \cup {None}
  /\ len \in 0 .. Capacity
  /\ inserts \in 0 .. MaxInserts
  /\ issued \subseteq Handle
  /\ live \subseteq 1 .. MaxInserts
  /\ {retired, revived, relinked} \subseteq SUBSET Slots
  /\ over \in BOOLEAN
  /\ dropped \subseteq 1 .. MaxInserts

(* A handle reaches the value it was issued for while that value is in the *)
(* slab, and nothing ever after, through any mix of inserts, removes by any*)
(* handle and wrap-arounds.  The exception is the handles of a slot that   *)
(* was retired and then removed again (HandlesNeverAlias): the damage stays*)
(* in that slot, although it is linked to slots that never wrapped.        *)
GetExact ==
  ~over => \A h \in issued :
    h.index \notin revived => Get(h) = IF h.value \in live THEN h.value ELSE None

(* insert fails only when every slot holds a value or is retired: remove   *)
(* never loses a slot, nor the tail of the free list, unless a slot was    *)
(* removed while it was on the list, which links it to itself.             *)
NoSlotLost ==
  ~over /\ relinked = {} /\ InsertFails =>
    \A i \in Slots : state[i] # None \/ i \in retired

(* A retired slot is not returned to the free list and not reissued, as    *)
(* long as no stale handle of it is removed; what is removed elsewhere,    *)
(* revived slots included, never brings it back.                           *)
RetiredStaysRetired ==
  \A i \in retired \ revived : free_head # i /\ state[i] = None

(* drop disposes of the values still in the slab, each once, and of no     *)
(* other.                                                                  *)
DropExact == over => dropped = live /\ \A i \in Slots : state[i] = None

(* The documented promise of retirement: the slot "is never returned to the*)
(* freelist, so it can never be re-issued at a generation a stale handle   *)
(* holds".  Then no handle reaches a value it was not issued for.          *)
HandlesNeverAlias == ~over => \A h \in issued : Get(h) \in {h.value, None}

-----------------------------------------------------------------------------
(* The strengthening that makes the invariants above inductive. *)

(* Links to such a slot are in order: it was never revived, or no slot was *)
(* ever put on the list twice.                                             *)
Clean(i) == i \notin revived \/ relinked = {}

(* Heads and links are used slots.  One that is clean is listed, and is the*)
(* head or the link of a free slot once at most.                           *)
ListShape ==
  /\ free_head # None => free_head < len /\ (Clean(free_head) => Listed(free_head))
  /\ \A i \in Slots : next_free[i] # None => next_free[i] < len
  /\ \A i \in Slots : state[i] = None /\ next_free[i] # None /\ Clean(next_free[i]) =>
       Listed(next_free[i]) /\ next_free[i] # free_head
  /\ \A i, j \in Slots :
       /\ state[i] = None /\ state[j] = None
       /\ next_free[i] = next_free[j] /\ next_free[i] # None /\ Clean(next_free[i])
       => i = j

(* A handle is at most as young as its slot, and as young only while the   *)
(* slot holds its value; retired and revived slots have wrapped.           *)
HandleAge ==
  \A h \in issued :
    /\ h.value <= inserts
    /\ h.index < len
    /\ h.index \notin retired \cup revived =>
         /\ h.generation <= generation[h.index]
         /\ h.generation = generation[h.index] => state[h.index] = h.value

(* The live values are those in the slots, and each has its one handle. *)
LiveShape ==
  /\ \A h, k \in issued : h.value = k.value => h = k
  /\ \A v \in live : \E h \in issued : h.value = v
  /\ \A h \in issued : h.value \in live =>
       /\ state[h.index] = h.value
       /\ h.index \notin revived => h.generation = generation[h.index]
  /\ \A i \in Slots : state[i] # None => state[i] \in live
  /\ \A i \in Slots : i >= len =>
       state[i] = None /\ next_free[i] = None /\ i \notin retired \cup revived
  /\ \A i, j \in Slots : state[i] # None /\ state[i] = state[j] => i = j

IndInv ==
  /\ TypeOK
  /\ ~over => ListShape /\ HandleAge /\ LiveShape
  /\ RetiredStaysRetired
  /\ DropExact
=============================================================================
