------------------------------ MODULE SharedBump ------------------------------
(***************************************************************************)
(* layout/shared_bump.rs: SharedBumpArena<B>, a bump cursor advanced by    *)
(* threads with a weak compare-exchange.  All accesses are relaxed, so a   *)
(* load, and a compare-exchange that fails, may return an old value of the *)
(* cursor, though never one older than the thread has already seen.        *)
(***************************************************************************)
EXTENDS BumpOps, Sequences

CONSTANTS
  Threads,
  Bases,      \* addresses the backing may be at
  Capacity    \* bytes of the backing; SharedBumpArena::new refuses 0

ASSUME SharedBumpAssumption ==
  /\ Capacity \in Nat \ {0}
  /\ Bases \subseteq Nat
  /\ \A b \in Bases : b + Capacity <= UsizeMax

VARIABLES
  base,     \* backing.base()
  cursor,   \* the atomic
  stored,   \* history: the values the cursor has had
  cur,      \* cur[t]: the value thread t works from; the last one it saw
  layout,   \* layout[t]: the request of its call in progress, or NoCall
  blocks    \* the blocks handed out, in the order of the exchanges

vars == <<base, cursor, stored, cur, layout, blocks>>

NoCall == [size |-> 0, align |-> 1]   \* no layout has size 0

Init ==
  /\ base \in Bases
  /\ cursor = 0
  /\ stored = {0}
  /\ cur = [t \in Threads |-> 0]
  /\ layout = [t \in Threads |-> NoCall]
  /\ blocks = <<>>

(* allocate begins with a relaxed load of the cursor. *)
Load(t, l) ==
  /\ layout[t] = NoCall
  /\ \E v \in stored : v >= cur[t] /\ cur' = [cur EXCEPT ![t] = v]
  /\ layout' = [layout EXCEPT ![t] = l]
  /\ UNCHANGED <<base, cursor, stored, blocks>>

(* No comparison with the end of the region. *)
RoomUnbounded(t) == base + cur[t] + layout[t].align - 1 <= UsizeMax

(* A block that ends with the region refused. *)
RoomStrict(t) == Fits(base, Capacity - 1, cur[t], layout[t])

(* Whether the request fits behind the value the thread works from. *)
Room(t) == Fits(base, Capacity, cur[t], layout[t])

(* The request does not fit behind the value the thread works from: Err. *)
Refuse(t) ==
  /\ layout[t] # NoCall /\ ~Room(t)
  /\ layout' = [layout EXCEPT ![t] = NoCall]
  /\ UNCHANGED <<base, cursor, stored, cur, blocks>>

(* The cursor stored without the comparison. *)
StoreBlindly(t) == TRUE

(* compare_exchange_weak may succeed only on the value the thread expects. *)
Expected(t) == cursor = cur[t]

CasSucceeds(t) ==
  /\ layout[t] # NoCall /\ Room(t)
  /\ Expected(t)
  /\ cursor' = EndOff(base, cur[t], layout[t])
  /\ stored' = stored \cup {cursor'}
  /\ cur' = [cur EXCEPT ![t] = cursor']
  /\ blocks' = Append(blocks,
       [off |-> AlignedOff(base, cur[t], layout[t]), layout |-> layout[t]])
  /\ layout' = [layout EXCEPT ![t] = NoCall]
  /\ UNCHANGED base

(* It fails on another value, or for no reason, and the loop goes round    *)
(* with the value it returned.                                             *)
CasFails(t) ==
  /\ layout[t] # NoCall /\ Room(t)
  /\ \E v \in stored : v >= cur[t] /\ cur' = [cur EXCEPT ![t] = v]
  /\ UNCHANGED <<base, cursor, stored, layout, blocks>>

Next == \E t \in Threads :
  \/ \E l \in Layout : Load(t, l)
  \/ Refuse(t)
  \/ CasSucceeds(t)
  \/ CasFails(t)

Spec == Init /\ [][Next]_vars

-----------------------------------------------------------------------------
(* Type correctness, and every thread works from a value the cursor had. *)
TypeOK ==
  /\ base \in Bases
  /\ cursor \in 0 .. Capacity
  /\ stored \subseteq 0 .. Capacity
  /\ cur \in [Threads -> stored]
  /\ layout \in [Threads -> Layout \cup {NoCall}]
  /\ blocks \in Seq([off : 0 .. Capacity, layout : Layout])

End(b) == b.off + b.layout.size

(* The blocks handed to racing threads do not overlap. *)
Disjoint ==
  \A i, j \in DOMAIN blocks :
    i # j => \/ End(blocks[i]) <= blocks[j].off
             \/ End(blocks[j]) <= blocks[i].off

(* Every block lies inside the backing, below the cursor, and its address  *)
(* has the alignment that was asked for, wherever the backing is.          *)
WellPlaced ==
  /\ cursor <= Capacity
  /\ \A i \in DOMAIN blocks :
       /\ End(blocks[i]) <= cursor
       /\ (base + blocks[i].off) % blocks[i].layout.align = 0

(* The debug assertions on the cursor: it only moves forward. *)
CursorAdvances == [][cursor' >= cursor]_cursor

(* allocate refuses from an old value of the cursor only what the cursor   *)
(* has no room for either: a stale load is no reason to fail.              *)
RefusalIsFinal ==
  [][\A t \in Threads : Refuse(t) => ~Fits(base, Capacity, cursor, layout[t])]_vars
=============================================================================
