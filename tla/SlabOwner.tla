------------------------------ MODULE SlabOwner ------------------------------
(***************************************************************************)
(* layout/slab_owner.rs: one SlabOwner, which alone touches the slab, and  *)
(* SlabRemote handles on other threads, which return slots through a       *)
(* bounded queue behind a mutex.  The owner learns the length of the queue *)
(* from an atomic mirror that it reads without the mutex.                  *)
(*                                                                         *)
(* A step is one access to shared state: taking the mutex, a critical      *)
(* section or the part of one that another thread can observe, a load of   *)
(* an atomic.  The owner's own work on the slab is one step per slab call. *)
(* Callers keep the contract of the API: a slot is freed once, by whoever  *)
(* holds it.  Pointers travel between threads by means outside the crate.  *)
(***************************************************************************)
EXTENDS SlabOps, BatchPolicy

CONSTANTS
  Remotes,   \* threads that own a SlabRemote
  Policies   \* batch policies an owner may be built with

ASSUME OwnerAssumption ==
  /\ "owner" \notin Remotes /\ "none" \notin Remotes
  /\ Policies \subseteq [kind : {"fixed", "adaptive"}, n : Nat]

VARIABLES
  (* SlabInner *)
  slab,        \* the slab, touched by the owner only
  lock,        \* holder of the mutex around remote_queue, or "none"
  queue,       \* remote_queue: slots on their way back
  mirror,      \* remote_queue_len
  closed,      \* set once by SlabOwner::drop
  (* the owner *)
  policy,      \* batch_policy
  adaptive,    \* Cell<AdaptiveState>
  opc,         \* where the owner is in its current call
  call,        \* the call: its operation and argument
  pending,     \* entries moved out of the queue, not yet back in the slab
  seen,        \* the oldest value a relaxed load of the mirror may return
  (* the remotes *)
  rpc,         \* where each remote is in its current call
  rslot,       \* the slot each remote is returning
  spins,       \* the call is deallocate (it spins), not try_deallocate
  (* the callers *)
  owned,       \* slots held by code on the owner's thread
  away,        \* away[r]: slots held by code on remote r's thread
  forfeited,   \* slots given up by deallocate after the owner was dropped
  missed       \* history: slots queued when allocate first found no slot

inner   == <<slab, lock, queue, mirror, closed>>
owner   == <<policy, adaptive, opc, call, pending, seen>>
remote  == <<rpc, rslot, spins>>
callers == <<owned, away, forfeited>>
vars    == <<inner, owner, remote, callers, missed>>

Idle == [op |-> "none", slot |-> NoSlot, fits |-> TRUE]

(* SlabOwner::with_batch_policy and one remote() per remote thread. *)
Init ==
  /\ slab = NewSlab(FALSE, 0)
  /\ lock = "none" /\ queue = <<>> /\ mirror = 0 /\ closed = FALSE
  /\ policy \in Policies
  /\ adaptive = InitialAdaptive
  /\ opc = "idle" /\ call = Idle /\ pending = <<>> /\ seen = 0
  /\ rpc = [r \in Remotes |-> "idle"]
  /\ rslot = [r \in Remotes |-> NoSlot]
  /\ spins = [r \in Remotes |-> FALSE]
  /\ owned = {} /\ away = [r \in Remotes |-> {}] /\ forfeited = {}
  /\ missed = {}

QueuedSlots  == {queue[i] : i \in DOMAIN queue}
PendingSlots == {pending[i] : i \in DOMAIN pending}

-----------------------------------------------------------------------------
(* Calls of the owner: SlabOwner::allocate, deallocate, drain, drop.       *)

OwnerCalls(c, pc) ==
  /\ opc = "idle"
  /\ call' = c
  /\ opc' = pc
  /\ UNCHANGED <<inner, policy, adaptive, pending, seen, remote, away, forfeited, missed>>

StartAllocate(fits) ==
  /\ OwnerCalls([op |-> "allocate", slot |-> NoSlot, fits |-> fits], "load")
  /\ UNCHANGED owned

StartDeallocate(s) ==
  /\ s \in owned
  /\ OwnerCalls([op |-> "deallocate", slot |-> s, fits |-> TRUE], "load")
  /\ owned' = owned \ {s}

StartDrain ==
  /\ OwnerCalls([op |-> "drain", slot |-> NoSlot, fits |-> TRUE], "lock")
  /\ UNCHANGED owned

StartDrop ==
  /\ OwnerCalls([op |-> "drop", slot |-> NoSlot, fits |-> TRUE], "lock")
  /\ UNCHANGED owned

(* MaybeDrainLoad comparing with <= instead of <. *)
MaybeDrainLoadStrict ==
  /\ opc = "load"
  /\ \E n \in seen .. mirror :
       /\ seen' = n
       /\ adaptive' = Tick(policy, adaptive, n)
       /\ opc' = IF n <= Threshold(policy, adaptive') THEN "body" ELSE "trylock"
  /\ UNCHANGED <<inner, policy, call, pending, remote, callers, missed>>

(* maybe_drain, fast path: a relaxed load of the mirror, which may return  *)
(* any value stored since the owner last synchronised with the queue.      *)
MaybeDrainLoad ==
  /\ opc = "load"
  /\ \E n \in seen .. mirror :
       /\ seen' = n
       /\ adaptive' = Tick(policy, adaptive, n)
       /\ opc' = IF n < Threshold(policy, adaptive') THEN "body" ELSE "trylock"
  /\ UNCHANGED <<inner, policy, call, pending, remote, callers, missed>>

(* maybe_drain, slow path: try_lock, and no drain on contention. *)
MaybeDrainTryLock ==
  /\ opc = "trylock"
  /\ IF lock = "none" THEN lock' = "owner" /\ opc' = "locked"
                      ELSE lock' = lock /\ opc' = "body"
  /\ UNCHANGED <<slab, queue, mirror, closed, policy, adaptive, call, pending,
                 seen, remote, callers, missed>>

(* OwnerLock as a try_lock: allocate's second drain skipped on contention. *)
OwnerLockOrSkip ==
  /\ opc = "lock"
  /\ IF lock = "none"
       THEN lock' = "owner" /\ opc' = IF call.op = "drop" THEN "close" ELSE "locked"
       ELSE lock' = lock /\ opc' = IF call.op = "retry" THEN "retry" ELSE "lock"
  /\ UNCHANGED <<slab, queue, mirror, closed, policy, adaptive, call, pending,
                 seen, remote, callers, missed>>

(* The blocking lock of drain() and of drop(). *)
OwnerLock ==
  /\ opc = "lock" /\ lock = "none"
  /\ lock' = "owner"
  /\ opc' = IF call.op = "drop" THEN "close" ELSE "locked"
  /\ UNCHANGED <<slab, queue, mirror, closed, policy, adaptive, call, pending,
                 seen, remote, callers, missed>>

(* drop(), first half of the critical section: publish closed. *)
DropClose ==
  /\ opc = "close"
  /\ closed' = TRUE
  /\ opc' = "locked"
  /\ UNCHANGED <<slab, lock, queue, mirror, policy, adaptive, call, pending,
                 seen, remote, callers, missed>>

(* TakeQueue with the reset of the mirror forgotten. *)
TakeQueueKeepsMirror ==
  /\ opc = "locked"
  /\ pending' = queue
  /\ queue' = <<>>
  /\ mirror' = mirror
  /\ seen' = mirror
  /\ lock' = "none"
  /\ opc' = "process"
  /\ UNCHANGED <<slab, closed, policy, adaptive, call, remote, callers, missed>>

(* TakeQueue reading the entries without removing them. *)
TakeQueueCopies ==
  /\ opc = "locked"
  /\ pending' = queue
  /\ seen' = mirror
  /\ lock' = "none"
  /\ opc' = "process"
  /\ UNCHANGED <<slab, queue, mirror, closed, policy, adaptive, call, remote,
                 callers, missed>>

(* The critical section of drain, maybe_drain and drop: move the queue out,*)
(* reset the mirror, release the mutex.  Only drop resets the mirror of an *)
(* empty queue; the other two assert that it is 0 and return.              *)
TakeQueue ==
  /\ opc = "locked"
  /\ pending' = queue
  /\ queue' = <<>>
  /\ mirror' = IF queue = <<>> /\ call.op # "drop" THEN mirror ELSE 0
  /\ seen' = mirror'
  /\ lock' = "none"
  /\ opc' = "process"
  /\ UNCHANGED <<slab, closed, policy, adaptive, call, remote, callers, missed>>

(* Where a drain returns to: allocate and deallocate come here once from   *)
(* maybe_drain, allocate a second time from drain().                       *)
AfterDrain ==
  CASE call.op = "drain" -> "idle"
    [] call.op = "drop"  -> "dropped"
    [] call.op = "retry" -> "retry"
    [] OTHER             -> "body"

(* With the mutex released, each entry goes back to the local free list. *)
ProcessEntry ==
  /\ opc = "process"
  /\ IF pending = <<>>
       THEN /\ opc' = AfterDrain
            /\ call' = IF AfterDrain = "idle" THEN Idle ELSE call
            /\ UNCHANGED <<slab, pending>>
       ELSE /\ slab' = Push(slab, Head(pending))
            /\ pending' = Tail(pending)
            /\ UNCHANGED <<opc, call>>
  /\ UNCHANGED <<lock, queue, mirror, closed, policy, adaptive, seen, remote,
                 callers, missed>>

(* SlabOwner::allocate: the attempt on the slab.  The first miss drains    *)
(* and tries again, the second is the caller's error.                      *)
AllocateBody ==
  /\ \/ opc = "body" /\ call.op = "allocate"
     \/ opc = "retry"
  /\ LET r == Allocate(slab, call.fits)
     IN  /\ slab' = r.slab
         /\ \/ /\ r.slot # NoSlot
               /\ owned' = owned \cup {r.slot}
               /\ opc' = "idle" /\ call' = Idle
               /\ missed' = {}
            \/ /\ r.slot = NoSlot /\ opc = "body"
               /\ opc' = "lock" /\ call' = [call EXCEPT !.op = "retry"]
               /\ missed' = IF call.fits THEN QueuedSlots ELSE {}
               /\ UNCHANGED owned
            \/ /\ r.slot = NoSlot /\ opc = "retry"
               /\ opc' = "idle" /\ call' = Idle
               /\ missed' = {}
               /\ UNCHANGED owned
  /\ UNCHANGED <<lock, queue, mirror, closed, policy, adaptive, pending, seen,
                 remote, away, forfeited>>

(* SlabOwner::deallocate: straight to the local free list. *)
DeallocateBody ==
  /\ opc = "body" /\ call.op = "deallocate"
  /\ slab' = Push(slab, call.slot)
  /\ opc' = "idle" /\ call' = Idle
  /\ UNCHANGED <<lock, queue, mirror, closed, policy, adaptive, pending, seen,
                 remote, callers, missed>>

-----------------------------------------------------------------------------
(* Calls of a remote: SlabRemote::try_deallocate and deallocate.           *)

StartRemote(r, s, spin) ==
  /\ rpc[r] = "idle" /\ s \in away[r]
  /\ rpc' = [rpc EXCEPT ![r] = "lock"]
  /\ rslot' = [rslot EXCEPT ![r] = s]
  /\ spins' = [spins EXCEPT ![r] = spin]
  /\ away' = [away EXCEPT ![r] = @ \ {s}]
  /\ UNCHANGED <<inner, owner, owned, forfeited, missed>>

RemoteLock(r) ==
  /\ rpc[r] = "lock" /\ lock = "none"
  /\ lock' = r
  /\ rpc' = [rpc EXCEPT ![r] = "check"]
  /\ UNCHANGED <<slab, queue, mirror, closed, owner, rslot, spins, callers, missed>>

(* Refuses without the test of closed. *)
RefusesOnlyFull == Len(queue) >= QueueCapacity

(* Refuses with > for >=: one entry too many. *)
RefusesLate == closed \/ Len(queue) > QueueCapacity

(* Under the mutex: a closed or a full queue gives the pointer back. *)
Refuses == closed \/ Len(queue) >= QueueCapacity

RemoteRefused(r) ==
  /\ rpc[r] = "check" /\ Refuses
  /\ lock' = "none"
  /\ IF spins[r]
       THEN /\ rpc' = [rpc EXCEPT ![r] = "recheck"]
            /\ UNCHANGED <<rslot, away>>
       ELSE /\ rpc' = [rpc EXCEPT ![r] = "idle"]
            /\ rslot' = [rslot EXCEPT ![r] = NoSlot]
            /\ away' = [away EXCEPT ![r] = @ \cup {rslot[r]}]
  /\ UNCHANGED <<slab, queue, mirror, closed, owner, spins, owned, forfeited, missed>>

RemotePush(r) ==
  /\ rpc[r] = "check" /\ ~Refuses
  /\ queue' = Append(queue, rslot[r])
  /\ rslot' = [rslot EXCEPT ![r] = NoSlot]
  /\ rpc' = [rpc EXCEPT ![r] = "store"]
  /\ UNCHANGED <<slab, lock, mirror, closed, owner, spins, callers, missed>>

(* Update the mirror, then release the mutex. *)
RemoteStore(r) ==
  /\ rpc[r] = "store"
  /\ mirror' = Len(queue)
  /\ lock' = "none"
  /\ rpc' = [rpc EXCEPT ![r] = "idle"]
  /\ UNCHANGED <<slab, queue, closed, owner, rslot, spins, callers, missed>>

(* RemoteRecheck without the test of closed: retry for ever. *)
RemoteRecheckNeverGivesUp(r) ==
  /\ rpc[r] = "recheck"
  /\ rpc' = [rpc EXCEPT ![r] = "lock"]
  /\ UNCHANGED <<inner, owner, rslot, spins, callers, missed>>

(* deallocate after a refusal: give up if the owner is gone, else retry.   *)
(* closed is read without the mutex.                                       *)
RemoteRecheck(r) ==
  /\ rpc[r] = "recheck"
  /\ IF closed
       THEN /\ rpc' = [rpc EXCEPT ![r] = "idle"]
            /\ rslot' = [rslot EXCEPT ![r] = NoSlot]
            /\ forfeited' = forfeited \cup {rslot[r]}
       ELSE /\ rpc' = [rpc EXCEPT ![r] = "lock"]
            /\ UNCHANGED <<rslot, forfeited>>
  /\ UNCHANGED <<inner, owner, spins, owned, away, missed>>

-----------------------------------------------------------------------------
(* Callers hand a pointer to another thread, in either direction. *)
HandOver(s, r) ==
  /\ s \in owned
  /\ owned' = owned \ {s}
  /\ away' = [away EXCEPT ![r] = @ \cup {s}]
  /\ UNCHANGED <<inner, owner, remote, forfeited, missed>>

HandBack(s, r) ==
  /\ s \in away[r]
  /\ away' = [away EXCEPT ![r] = @ \ {s}]
  /\ owned' = owned \cup {s}
  /\ UNCHANGED <<inner, owner, remote, forfeited, missed>>

OwnerStep ==
  \/ MaybeDrainLoad \/ MaybeDrainTryLock \/ OwnerLock \/ DropClose
  \/ TakeQueue \/ ProcessEntry \/ AllocateBody \/ DeallocateBody

RemoteStep(r) ==
  RemoteLock(r) \/ RemoteRefused(r) \/ RemotePush(r) \/ RemoteStore(r)
  \/ RemoteRecheck(r)

Next ==
  \/ \E fits \in BOOLEAN : StartAllocate(fits)
  \/ \E s \in Slots : StartDeallocate(s)
  \/ StartDrain
  \/ StartDrop
  \/ OwnerStep
  \/ \E r \in Remotes, s \in Slots, spin \in BOOLEAN : StartRemote(r, s, spin)
  \/ \E r \in Remotes : RemoteStep(r)
  \/ \E s \in Slots, r \in Remotes : HandOver(s, r) \/ HandBack(s, r)

Spec == Init /\ [][Next]_vars

(* Threads are scheduled; a thread waiting for the mutex gets it if it is  *)
(* released again and again; the mirror's stores become visible to the     *)
(* owner; try_lock is not unlucky for ever; and, the premise of the        *)
(* liveness properties, the owner keeps making calls until it is dropped.  *)
Fairness ==
  /\ WF_vars(OwnerStep)
  /\ SF_vars(OwnerLock)
  /\ SF_vars(MaybeDrainLoad /\ seen' = mirror)
  /\ SF_vars(MaybeDrainTryLock /\ lock = "none")
  /\ WF_vars((\E fits \in BOOLEAN : StartAllocate(fits))
             \/ (\E s \in Slots : StartDeallocate(s)))
  /\ \A r \in Remotes : WF_vars(RemoteStep(r)) /\ SF_vars(RemoteLock(r))

FairSpec == Spec /\ Fairness

-----------------------------------------------------------------------------
Call ==
  [op : {"none", "allocate", "retry", "deallocate", "drain", "drop"},
   slot : Slots \cup {NoSlot}, fits : BOOLEAN]

(* Type correctness of the owner, its queue and the adaptive state: the    *)
(* queue never outgrows its capacity and the adaptive step stays inside    *)
(* the table of levels.                                                    *)
TypeOK ==
  /\ slab.free_head \in 0 .. Capacity /\ slab.next_uncarved \in 0 .. Capacity
  /\ lock \in Remotes \cup {"owner", "none"}
  /\ queue \in Seq(Slots) /\ Len(queue) <= QueueCapacity
  /\ mirror \in 0 .. QueueCapacity
  /\ closed \in BOOLEAN
  /\ policy \in Policies
  /\ adaptive \in AdaptiveState
  /\ opc \in {"idle", "load", "trylock", "lock", "close", "locked", "process",
              "body", "retry", "dropped"}
  /\ call \in Call
  /\ pending \in Seq(Slots)
  /\ seen \in 0 .. mirror
  /\ rpc \in [Remotes -> {"idle", "lock", "check", "store", "recheck"}]
  /\ rslot \in [Remotes -> Slots \cup {NoSlot}]
  /\ spins \in [Remotes -> BOOLEAN]
  /\ owned \subseteq Slots
  /\ away \in [Remotes -> SUBSET Slots]
  /\ forfeited \subseteq Slots
  /\ missed \subseteq Slots

(* A slot on its way from a caller back to the free list is never lost and *)
(* never in two places: exactly one of the uncarved tail, the free list,   *)
(* the callers, a free in progress, the queue and the drained batch has    *)
(* it, through every interleaving of frees, drains and drop.               *)
Places(s) ==
  (IF s >= slab.next_uncarved THEN {<<"uncarved", 0>>} ELSE {})
  \cup (IF s \in FreeSlots(slab) THEN {<<"free", 0>>} ELSE {})
  \cup (IF s \in owned THEN {<<"owned", 0>>} ELSE {})
  \cup (IF s \in forfeited THEN {<<"forfeited", 0>>} ELSE {})
  \cup (IF call.slot = s THEN {<<"call", 0>>} ELSE {})
  \cup {<<"away", r>>  : r \in {q \in Remotes : s \in away[q]}}
  \cup {<<"rslot", r>> : r \in {q \in Remotes : rslot[q] = s}}
  \cup {<<"queue", i>> : i \in {j \in DOMAIN queue : queue[j] = s}}
  \cup {<<"pending", i>> : i \in {j \in DOMAIN pending : pending[j] = s}}

ExactlyOnePlace == \A s \in Slots : Cardinality(Places(s)) = 1

(* remote_queue_len is the length of the queue whenever the mutex is free, *)
(* and never above it: what the debug assertions of drain and maybe_drain  *)
(* rely on when they find the queue empty.                                 *)
MirrorExact ==
  /\ mirror <= Len(queue)
  /\ lock = "none" => mirror = Len(queue)

(* No push slips past SlabOwner::drop: once drop has left its critical     *)
(* section the queue and its mirror are empty for good, as drop asserts.   *)
ClosedMeansEmpty ==
  closed /\ lock # "owner" => queue = <<>> /\ mirror = 0

(* SlabOwner::allocate fails only after it has had back every slot that    *)
(* was queued when its first attempt missed: its second attempt is about   *)
(* to fail only if there was none.                                         *)
NoSpuriousFailure ==
  opc = "retry" /\ Allocate(slab, call.fits).slot = NoSlot => missed = {}

(* SlabRemote::deallocate never spins on an owner that is gone. *)
SpinEndsAfterDrop ==
  \A r \in Remotes : (closed /\ rpc[r] # "idle") ~> (rpc[r] = "idle")

(* A full queue does not stay full while the owner keeps calling allocate  *)
(* or deallocate, so that a spinning SlabRemote::deallocate gets its turn. *)
FullQueueServiced ==
  (Len(queue) = QueueCapacity) ~> (Len(queue) < QueueCapacity)
=============================================================================
