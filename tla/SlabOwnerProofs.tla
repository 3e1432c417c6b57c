--------------------------- MODULE SlabOwnerProofs ---------------------------
(***************************************************************************)
(* SlabOwner and SlabRemote, for any number of remotes, any capacities and *)
(* any batch policy: the mutex is held as the program counters say, the    *)
(* mirror is exact whenever the mutex is free, nothing is queued after     *)
(* drop, allocate does not fail over slots it found queued, and every slot *)
(* is in exactly one place on its way.                                     *)
(***************************************************************************)
EXTENDS SlabOwner, SlabOpsProofs

(* The slab itself: its links stay in range, so that every head but 0 can  *)
(* be followed.                                                            *)
Link == [next_idx : 0 .. Capacity, mac : {NoTag}]

SlabValue ==
  [ protected : {FALSE}, base : {0}, free_head : 0 .. Capacity,
    next_uncarved : 0 .. Capacity, mem : [Slots -> Link],
    corruption_events : Nat ]

SlabShape == slab \in SlabValue

(* Who holds the mutex, read off the program counters. *)
MutexHeld ==
  /\ lock = "owner" <=> opc \in {"close", "locked"}
  /\ \A r \in Remotes : lock = r <=> rpc[r] \in {"check", "store"}

(* A thread returning a slot has one to return. *)
HasSlot ==
  /\ opc # "idle" /\ call.op = "deallocate" => call.slot \in Slots
  /\ \A r \in Remotes : rpc[r] \in {"lock", "check", "recheck"} => rslot[r] \in Slots

(* The mirror lags by the entry just pushed, and by nothing else. *)
MirrorLag ==
  /\ \A r \in Remotes : rpc[r] = "store" => mirror + 1 = Len(queue)
  /\ (\A r \in Remotes : rpc[r] # "store") => mirror = Len(queue)

(* Only drop closes, only inside its critical section, and it empties the  *)
(* queue before it leaves.                                                 *)
Closing ==
  /\ opc = "close" => call.op = "drop"
  /\ closed => call.op = "drop" /\ opc \in {"locked", "process", "dropped"}
  /\ closed => \A r \in Remotes : rpc[r] # "store"
  /\ closed /\ lock # "owner" => queue = <<>>

(* Where the slots queued at the first miss are on their way to the second *)
(* attempt.                                                                *)
MissedAreComing ==
  missed # {} =>
    /\ call.op = "retry" /\ call.fits
    /\ opc \in {"lock", "locked", "process", "retry"}
    /\ opc \in {"lock", "locked"} => queue # <<>>
    /\ opc = "process" => pending # <<>> \/ slab.free_head # 0
    /\ opc = "retry" => slab.free_head # 0

IndInv ==
  TypeOK /\ SlabShape /\ MutexHeld /\ HasSlot /\ MirrorLag /\ Closing /\ MissedAreComing

-----------------------------------------------------------------------------
LEMMA SlotRange ==
  /\ \A s \in Slots : s \in Nat /\ s # NoSlot /\ s + 1 \in 0 .. Capacity /\ s + 1 # 0
  /\ \A n \in 0 .. Capacity : n # 0 => n - 1 \in Slots
  /\ \A n \in 0 .. Capacity : n < Capacity => n \in Slots /\ n + 1 \in 0 .. Capacity
BY CapacityAssumption DEF Slots, NoSlot

LEMMA SlabFields ==
  ASSUME NEW x \in SlabValue
  PROVE  /\ x.free_head \in 0 .. Capacity
         /\ x.next_uncarved \in 0 .. Capacity
         /\ x.corruption_events \in Nat
         /\ x.mem \in [Slots -> Link]
         /\ \A s \in Slots : x.mem[s].next_idx \in 0 .. Capacity
BY DEF SlabValue, Link

LEMMA SlabUnprotected ==
  ASSUME NEW x \in SlabValue
  PROVE  ~x.protected
BY DEF SlabValue

LEMMA ResultFields ==
  ASSUME NEW x, NEW s
  PROVE  Result(x, s).slab = x /\ Result(x, s).slot = s
BY DEF Result

(* Slab::deallocate keeps the slab well formed and leaves a head. *)
LEMMA PushShape ==
  ASSUME NEW x \in SlabValue, NEW s \in Slots
  PROVE  Push(x, s) \in SlabValue /\ Push(x, s).free_head # 0
  <1> DEFINE link == [next_idx |-> x.free_head, mac |-> Sign(x.protected, x.free_head, s)]
             m == [x.mem EXCEPT ![s] = link]
  <1>1. Sign(x.protected, x.free_head, s) = NoTag
    BY SlabUnprotected DEF Sign
  <1>2. m \in [Slots -> Link]
    BY <1>1, SlabFields DEF Link
  <1>3. Push(x, s) = [x EXCEPT !.mem = m, !.free_head = s + 1]
    BY DEF Push, Nonce, SlabValue
  <1>4. s + 1 \in 0 .. Capacity /\ s + 1 # 0
    BY SlotRange
  <1> HIDE DEF m
  <1> QED BY <1>2, <1>3, <1>4 DEF SlabValue

LEMMA TakeHeadShape ==
  ASSUME NEW x \in SlabValue, x.free_head # 0
  PROVE  HeadIntact(x) /\ TakeHead(x) \in SlabValue
  <1> DEFINE h == x.free_head - 1
             m == [x.mem EXCEPT ![h] = Payload]
             n == x.mem[h].next_idx
  <1>1. Payload \in Link
    BY CapacityAssumption DEF Link, Payload
  <1>2. h \in Slots
    BY SlabFields, SlotRange
  <1>3. m \in [Slots -> Link]
    BY <1>1, SlabFields
  <1>4. n \in 0 .. Capacity /\ n <= Capacity
    BY <1>2, SlabFields, CapacityAssumption
  <1>5. TakeHead(x) = [x EXCEPT !.free_head = n, !.mem = m]
    BY DEF TakeHead, SlabValue
  <1>6. HeadIntact(x)
    BY <1>4, SlabUnprotected DEF HeadIntact, Verify
  <1> HIDE DEF m, n
  <1> QED BY <1>3, <1>4, <1>5, <1>6 DEF SlabValue

LEMMA AbandonShape ==
  ASSUME NEW x \in SlabValue
  PROVE  Abandon(x) \in SlabValue /\ Abandon(x).next_uncarved = x.next_uncarved
  <1> DEFINE n == x.corruption_events + (IF x.free_head = 0 THEN 0 ELSE 1)
  <1>1. n \in Nat /\ 0 \in 0 .. Capacity
    BY SlabFields, CapacityAssumption
  <1>2. Abandon(x) = [x EXCEPT !.free_head = 0, !.corruption_events = n]
    BY DEF Abandon, SlabValue
  <1> HIDE DEF n
  <1> QED BY <1>1, <1>2 DEF SlabValue

LEMMA CarveShape ==
  ASSUME NEW x \in SlabValue, x.next_uncarved < Capacity
  PROVE  Carve(x) \in SlabValue
  <1> DEFINE n == x.next_uncarved + 1
  <1>1. n \in 0 .. Capacity
    BY SlabFields, SlotRange
  <1>2. Carve(x) = [x EXCEPT !.next_uncarved = n]
    BY DEF Carve, SlabValue
  <1> HIDE DEF n
  <1> QED BY <1>1, <1>2 DEF SlabValue

(* Slab::allocate keeps it well formed, returns one of its slots or none,  *)
(* and returns one if there is a head.                                     *)
LEMMA AllocateShape ==
  ASSUME NEW x \in SlabValue, NEW fits \in BOOLEAN
  PROVE  /\ Allocate(x, fits).slab \in SlabValue
         /\ Allocate(x, fits).slot \in Slots \cup {NoSlot}
         /\ fits /\ x.free_head # 0 => Allocate(x, fits).slot # NoSlot
  <1> DEFINE r == Allocate(x, fits)
  <1> SUFFICES /\ r.slab \in SlabValue
               /\ r.slot \in Slots \cup {NoSlot}
               /\ fits /\ x.free_head # 0 => r.slot # NoSlot
    OBVIOUS
  <1>1. CASE ~fits
    <2>1. r.slab = x /\ r.slot = NoSlot
      BY <1>1, ResultFields DEF Allocate
    <2> HIDE DEF r
    <2> QED BY <1>1, <2>1
  <1>2. CASE fits /\ x.free_head # 0
    <2>1. r = Result(TakeHead(x), x.free_head - 1)
      BY <1>2, TakeHeadShape DEF Allocate
    <2> HIDE DEF r
    <2>2. r.slab = TakeHead(x) /\ r.slot = x.free_head - 1
      BY <2>1, ResultFields
    <2>3. x.free_head - 1 \in Slots
      BY <1>2, SlabFields, SlotRange
    <2> QED BY <1>2, <2>2, <2>3, TakeHeadShape, SlotRange
  <1>3. CASE fits /\ x.free_head = 0
    <2>1. ~HeadIntact(x)
      BY <1>3 DEF HeadIntact
    <2>2. CASE x.next_uncarved < Capacity
      <3>1. r = Result(Carve(Abandon(x)), x.next_uncarved)
        BY <1>3, <2>1, <2>2 DEF Allocate
      <3> HIDE DEF r
      <3>2. r.slab = Carve(Abandon(x)) /\ r.slot = x.next_uncarved
        BY <3>1, ResultFields
      <3>3. Carve(Abandon(x)) \in SlabValue /\ x.next_uncarved \in Slots
        BY <2>2, AbandonShape, CarveShape, SlabFields, SlotRange
      <3> QED BY <1>3, <3>2, <3>3
    <2>3. CASE ~(x.next_uncarved < Capacity)
      <3>1. r = Result(Abandon(x), NoSlot)
        BY <1>3, <2>1, <2>3 DEF Allocate
      <3> HIDE DEF r
      <3>2. r.slab = Abandon(x) /\ r.slot = NoSlot
        BY <3>1, ResultFields
      <3> QED BY <1>3, <3>2, AbandonShape
    <2> QED BY <2>2, <2>3
  <1> QED BY <1>1, <1>2, <1>3

(* The adaptive law stays inside its table. *)
LEMMA TickShape ==
  ASSUME NEW p, NEW a \in AdaptiveState, NEW n \in Nat
  PROVE  Tick(p, a, n) \in AdaptiveState
  <1>1. Len(Levels) \in Nat /\ CooldownTicks \in Nat
    BY BatchAssumption
  <1>2. a.step \in 0 .. (Len(Levels) - 1) /\ a.cooldown \in 0 .. CooldownTicks
    BY DEF AdaptiveState
  <1>3. /\ a.cooldown > 0 => [a EXCEPT !.cooldown = @ - 1] \in AdaptiveState
        /\ a.step > 0 => [step |-> a.step - 1, cooldown |-> CooldownTicks] \in AdaptiveState
        /\ a.step < Len(Levels) - 1 =>
             [step |-> a.step + 1, cooldown |-> CooldownTicks] \in AdaptiveState
    <2> DEFINE top == Len(Levels) - 1
    <2>1. top \in Int
      BY <1>1
    <2>2. a \in [step : 0 .. top, cooldown : 0 .. CooldownTicks]
      BY DEF AdaptiveState
    <2> HIDE DEF top
    <2>3. /\ a.cooldown > 0 => [a EXCEPT !.cooldown = @ - 1]
                                \in [step : 0 .. top, cooldown : 0 .. CooldownTicks]
          /\ a.step > 0 => [step |-> a.step - 1, cooldown |-> CooldownTicks]
                                \in [step : 0 .. top, cooldown : 0 .. CooldownTicks]
          /\ a.step < top => [step |-> a.step + 1, cooldown |-> CooldownTicks]
                                \in [step : 0 .. top, cooldown : 0 .. CooldownTicks]
      BY <1>1, <2>1, <2>2
    <2> QED BY <2>3 DEF top, AdaptiveState
  <1>4. Adapt(a, n) \in AdaptiveState
    BY <1>3 DEF Adapt
  <1> QED BY <1>4 DEF Tick

-----------------------------------------------------------------------------
LEMMA IdleCall == Idle \in Call
BY DEF Idle, Call

(* The owner is built with an empty slab, an empty queue, a free mutex.    *)
LEMMA InitInv == Init => IndInv
  <1> SUFFICES ASSUME Init PROVE IndInv
    OBVIOUS
  <1>1. Payload \in Link /\ 0 \in 0 .. Capacity
    BY CapacityAssumption DEF Payload, Link
  <1>2. SlabShape /\ slab.free_head = 0 /\ slab.next_uncarved = 0
    BY <1>1 DEF Init, NewSlab, SlabShape, SlabValue
  <1>3. InitialAdaptive \in AdaptiveState
    BY BatchAssumption DEF InitialAdaptive, AdaptiveState
  <1>4. TypeOK
    <2>1. queue \in Seq(Slots) /\ pending \in Seq(Slots) /\ Len(queue) = 0 /\ mirror = 0 /\ seen = 0
      BY DEF Init
    <2>2. spins \in [Remotes -> BOOLEAN] /\ closed \in BOOLEAN
      BY DEF Init
    <2>3. /\ rpc \in [Remotes -> {"idle", "lock", "check", "store", "recheck"}]
          /\ rslot \in [Remotes -> Slots \cup {NoSlot}]
          /\ away \in [Remotes -> SUBSET Slots]
      BY DEF Init
    <2>4. 0 \in 0 .. QueueCapacity /\ 0 <= QueueCapacity /\ 0 \in 0 .. 0
      BY BatchAssumption
    <2>5. call \in Call /\ adaptive \in AdaptiveState /\ policy \in Policies
      BY <1>3, IdleCall DEF Init
    <2> QED BY <1>1, <1>2, <2>1, <2>2, <2>3, <2>4, <2>5 DEF Init, TypeOK
  <1>5. MutexHeld /\ HasSlot /\ MirrorLag /\ Closing /\ MissedAreComing
    BY OwnerAssumption
       DEF Init, MutexHeld, HasSlot, MirrorLag, Closing, MissedAreComing, Idle
  <1> QED BY <1>2, <1>4, <1>5 DEF IndInv

(* The calls of the owner. *)
LEMMA StartAllocateInv ==
  ASSUME IndInv, NEW fits \in BOOLEAN, StartAllocate(fits)
  PROVE  IndInv'
  <1>0. /\ TypeOK /\ SlabShape /\ MutexHeld /\ HasSlot
        /\ MirrorLag /\ Closing /\ MissedAreComing
    BY DEF IndInv
  <1>1. TypeOK' /\ SlabShape'
    BY <1>0, BatchAssumption
       DEF StartAllocate, OwnerCalls, inner, remote, TypeOK, SlabShape, Call
  <1>2. MutexHeld' /\ HasSlot'
    BY <1>0, OwnerAssumption
       DEF StartAllocate, OwnerCalls, inner, remote, TypeOK, Call, MutexHeld,
           HasSlot
  <1>3. MirrorLag' /\ Closing'
    BY <1>0, OwnerAssumption
       DEF StartAllocate, OwnerCalls, inner, remote, TypeOK, Call, MutexHeld,
           MirrorLag, Closing
  <1>4. MissedAreComing'
    BY <1>0
       DEF StartAllocate, OwnerCalls, inner, remote, TypeOK, Call,
           MissedAreComing
  <1> QED BY <1>1, <1>2, <1>3, <1>4 DEF IndInv

LEMMA StartDeallocateInv ==
  ASSUME IndInv, NEW s \in Slots, StartDeallocate(s)
  PROVE  IndInv'
  <1>0. /\ TypeOK /\ SlabShape /\ MutexHeld /\ HasSlot
        /\ MirrorLag /\ Closing /\ MissedAreComing
    BY DEF IndInv
  <1>1. TypeOK' /\ SlabShape'
    BY <1>0, BatchAssumption
       DEF StartDeallocate, OwnerCalls, inner, remote, TypeOK, SlabShape, Call
  <1>2. MutexHeld' /\ HasSlot'
    BY <1>0, OwnerAssumption
       DEF StartDeallocate, OwnerCalls, inner, remote, TypeOK, Call, MutexHeld,
           HasSlot
  <1>3. MirrorLag' /\ Closing'
    BY <1>0, OwnerAssumption
       DEF StartDeallocate, OwnerCalls, inner, remote, TypeOK, Call, MutexHeld,
           MirrorLag, Closing
  <1>4. MissedAreComing'
    BY <1>0
       DEF StartDeallocate, OwnerCalls, inner, remote, TypeOK, Call,
           MissedAreComing
  <1> QED BY <1>1, <1>2, <1>3, <1>4 DEF IndInv

LEMMA StartDrainInv ==
  ASSUME IndInv, StartDrain
  PROVE  IndInv'
  <1>0. /\ TypeOK /\ SlabShape /\ MutexHeld /\ HasSlot
        /\ MirrorLag /\ Closing /\ MissedAreComing
    BY DEF IndInv
  <1>1. TypeOK' /\ SlabShape'
    BY <1>0, BatchAssumption
       DEF StartDrain, OwnerCalls, inner, remote, TypeOK, SlabShape, Call
  <1>2. MutexHeld' /\ HasSlot'
    BY <1>0, OwnerAssumption
       DEF StartDrain, OwnerCalls, inner, remote, TypeOK, Call, MutexHeld,
           HasSlot
  <1>3. MirrorLag' /\ Closing'
    BY <1>0, OwnerAssumption
       DEF StartDrain, OwnerCalls, inner, remote, TypeOK, Call, MutexHeld,
           MirrorLag, Closing
  <1>4. MissedAreComing'
    BY <1>0 DEF StartDrain, OwnerCalls, inner, remote, TypeOK, Call, MissedAreComing
  <1> QED BY <1>1, <1>2, <1>3, <1>4 DEF IndInv

LEMMA StartDropInv ==
  ASSUME IndInv, StartDrop
  PROVE  IndInv'
  <1>0. /\ TypeOK /\ SlabShape /\ MutexHeld /\ HasSlot
        /\ MirrorLag /\ Closing /\ MissedAreComing
    BY DEF IndInv
  <1>1. TypeOK' /\ SlabShape'
    BY <1>0, BatchAssumption
       DEF StartDrop, OwnerCalls, inner, remote, TypeOK, SlabShape, Call
  <1>2. MutexHeld' /\ HasSlot'
    BY <1>0, OwnerAssumption
       DEF StartDrop, OwnerCalls, inner, remote, TypeOK, Call, MutexHeld,
           HasSlot
  <1>3. MirrorLag' /\ Closing'
    BY <1>0, OwnerAssumption
       DEF StartDrop, OwnerCalls, inner, remote, TypeOK, Call, MutexHeld,
           MirrorLag, Closing
  <1>4. MissedAreComing'
    BY <1>0 DEF StartDrop, OwnerCalls, inner, remote, TypeOK, Call, MissedAreComing
  <1> QED BY <1>1, <1>2, <1>3, <1>4 DEF IndInv

(* The owner's look at the mirror may be old, and is never used as a count. *)
LEMMA MaybeDrainLoadInv ==
  ASSUME IndInv, MaybeDrainLoad
  PROVE  IndInv'
  <1>0. /\ TypeOK /\ SlabShape /\ MutexHeld /\ HasSlot
        /\ MirrorLag /\ Closing /\ MissedAreComing
    BY DEF IndInv
  <1>1. TypeOK' /\ SlabShape'
    <2>1. PICK n \in seen .. mirror :
            /\ seen' = n /\ adaptive' = Tick(policy, adaptive, n)
            /\ opc' \in {"body", "trylock"}
      BY DEF MaybeDrainLoad
    <2>2. n \in Nat /\ n \in 0 .. mirror
      BY <1>0 DEF TypeOK
    <2>3. adaptive' \in AdaptiveState
      BY <1>0, <2>1, <2>2, TickShape DEF TypeOK
    <2> QED BY <1>0, <2>1, <2>2, <2>3
       DEF MaybeDrainLoad, inner, remote, callers, TypeOK, SlabShape
  <1>2. MutexHeld' /\ HasSlot'
    BY <1>0, OwnerAssumption
       DEF MaybeDrainLoad, inner, remote, callers, TypeOK, Call, MutexHeld,
           HasSlot
  <1>3. MirrorLag' /\ Closing'
    BY <1>0, OwnerAssumption
       DEF MaybeDrainLoad, inner, remote, callers, TypeOK, Call, MutexHeld,
           MirrorLag, Closing
  <1>4. MissedAreComing'
    BY <1>0
       DEF MaybeDrainLoad, inner, remote, callers, TypeOK, Call, MissedAreComing
  <1> QED BY <1>1, <1>2, <1>3, <1>4 DEF IndInv

(* The mutex and the critical sections of the owner. *)
LEMMA MaybeDrainTryLockInv ==
  ASSUME IndInv, MaybeDrainTryLock
  PROVE  IndInv'
  <1>0. /\ TypeOK /\ SlabShape /\ MutexHeld /\ HasSlot
        /\ MirrorLag /\ Closing /\ MissedAreComing
    BY DEF IndInv
  <1>1. TypeOK' /\ SlabShape'
    BY <1>0, BatchAssumption
       DEF MaybeDrainTryLock, remote, callers, TypeOK, SlabShape, Call
  <1>2. MutexHeld' /\ HasSlot'
    BY <1>0, OwnerAssumption
       DEF MaybeDrainTryLock, remote, callers, TypeOK, Call, MutexHeld, HasSlot
  <1>3. MirrorLag' /\ Closing'
    BY <1>0, OwnerAssumption
       DEF MaybeDrainTryLock, remote, callers, TypeOK, Call, MutexHeld,
           MirrorLag, Closing
  <1>4. MissedAreComing'
    BY <1>0 DEF MaybeDrainTryLock, remote, callers, TypeOK, Call, MissedAreComing
  <1> QED BY <1>1, <1>2, <1>3, <1>4 DEF IndInv

LEMMA OwnerLockInv ==
  ASSUME IndInv, OwnerLock
  PROVE  IndInv'
  <1>0. /\ TypeOK /\ SlabShape /\ MutexHeld /\ HasSlot
        /\ MirrorLag /\ Closing /\ MissedAreComing
    BY DEF IndInv
  <1>1. TypeOK' /\ SlabShape'
    BY <1>0, BatchAssumption DEF OwnerLock, remote, callers, TypeOK, SlabShape, Call
  <1>2. MutexHeld' /\ HasSlot'
    BY <1>0, OwnerAssumption
       DEF OwnerLock, remote, callers, TypeOK, Call, MutexHeld, HasSlot
  <1>3. MirrorLag' /\ Closing'
    BY <1>0, OwnerAssumption
       DEF OwnerLock, remote, callers, TypeOK, Call, MutexHeld, MirrorLag,
           Closing
  <1>4. MissedAreComing'
    BY <1>0 DEF OwnerLock, remote, callers, TypeOK, Call, MissedAreComing
  <1> QED BY <1>1, <1>2, <1>3, <1>4 DEF IndInv

LEMMA DropCloseInv ==
  ASSUME IndInv, DropClose
  PROVE  IndInv'
  <1>0. /\ TypeOK /\ SlabShape /\ MutexHeld /\ HasSlot
        /\ MirrorLag /\ Closing /\ MissedAreComing
    BY DEF IndInv
  <1>1. TypeOK' /\ SlabShape'
    BY <1>0, BatchAssumption DEF DropClose, remote, callers, TypeOK, SlabShape, Call
  <1>2. MutexHeld' /\ HasSlot'
    BY <1>0, OwnerAssumption
       DEF DropClose, remote, callers, TypeOK, Call, MutexHeld, HasSlot
  <1>3. MirrorLag' /\ Closing'
    BY <1>0, OwnerAssumption
       DEF DropClose, remote, callers, TypeOK, Call, MutexHeld, MirrorLag,
           Closing
  <1>4. MissedAreComing'
    BY <1>0 DEF DropClose, remote, callers, TypeOK, Call, MissedAreComing
  <1> QED BY <1>1, <1>2, <1>3, <1>4 DEF IndInv

LEMMA TakeQueueInv ==
  ASSUME IndInv, TakeQueue
  PROVE  IndInv'
  <1>0. /\ TypeOK /\ SlabShape /\ MutexHeld /\ HasSlot
        /\ MirrorLag /\ Closing /\ MissedAreComing
    BY DEF IndInv
  <1>1. TypeOK' /\ SlabShape'
    BY <1>0, BatchAssumption DEF TakeQueue, remote, callers, TypeOK, SlabShape, Call
  <1>2. MutexHeld' /\ HasSlot'
    BY <1>0, OwnerAssumption
       DEF TakeQueue, remote, callers, TypeOK, Call, MutexHeld, HasSlot
  <1>3. MirrorLag' /\ Closing'
    BY <1>0, OwnerAssumption
       DEF TakeQueue, remote, callers, TypeOK, Call, MutexHeld, MirrorLag,
           Closing
  <1>4. MissedAreComing'
    BY <1>0 DEF TakeQueue, remote, callers, TypeOK, Call, MissedAreComing
  <1> QED BY <1>1, <1>2, <1>3, <1>4 DEF IndInv

(* Drained entries go back to the slab, so the second attempt finds a head. *)
LEMMA ProcessEntryInv ==
  ASSUME IndInv, ProcessEntry
  PROVE  IndInv'
  <1>0. /\ TypeOK /\ SlabShape /\ MutexHeld /\ HasSlot
        /\ MirrorLag /\ Closing /\ MissedAreComing
    BY DEF IndInv
  <1>1. TypeOK' /\ SlabShape'
    <2>1. CASE pending = <<>>
      <3>1. call' \in Call /\ opc' \in {"idle", "dropped", "retry", "body"}
        BY <1>0, <2>1, IdleCall DEF ProcessEntry, AfterDrain, TypeOK
      <3> QED BY <1>0, <2>1, <3>1
         DEF ProcessEntry, remote, callers, TypeOK, SlabShape
    <2>2. CASE pending # <<>>
      <3>1. Head(pending) \in Slots /\ Tail(pending) \in Seq(Slots)
        BY <1>0, <2>2 DEF TypeOK
      <3>2. slab' \in SlabValue
        BY <1>0, <2>2, <3>1, PushShape DEF ProcessEntry, SlabShape
      <3>3. slab'.free_head \in 0 .. Capacity /\ slab'.next_uncarved \in 0 .. Capacity
        BY <3>2, SlabFields
      <3> QED BY <1>0, <2>2, <3>1, <3>2, <3>3
         DEF ProcessEntry, remote, callers, TypeOK, SlabShape
    <2> QED BY <2>1, <2>2
  <1>2. MutexHeld' /\ HasSlot'
    BY <1>0, OwnerAssumption
       DEF ProcessEntry, AfterDrain, Idle, remote, callers, TypeOK, Call,
           MutexHeld, HasSlot
  <1>3. MirrorLag' /\ Closing'
    BY <1>0, OwnerAssumption
       DEF ProcessEntry, AfterDrain, Idle, remote, callers, TypeOK, Call,
           MutexHeld, MirrorLag, Closing
  <1>4. MissedAreComing'
    <2>1. CASE pending = <<>>
      BY <1>0, <2>1 DEF ProcessEntry, AfterDrain, TypeOK, MissedAreComing
    <2>2. CASE pending # <<>>
      <3>1. Head(pending) \in Slots
        BY <1>0, <2>2 DEF TypeOK
      <3>2. slab'.free_head # 0
        BY <1>0, <2>2, <3>1, PushShape DEF ProcessEntry, SlabShape
      <3> QED BY <1>0, <2>2, <3>2 DEF ProcessEntry, MissedAreComing
    <2> QED BY <2>1, <2>2
  <1> QED BY <1>1, <1>2, <1>3, <1>4 DEF IndInv

(* Both attempts of SlabOwner::allocate. *)
LEMMA AllocateBodyInv ==
  ASSUME IndInv, AllocateBody
  PROVE  IndInv'
  <1>0. /\ TypeOK /\ SlabShape /\ MutexHeld /\ HasSlot
        /\ MirrorLag /\ Closing /\ MissedAreComing
    BY DEF IndInv
  <1>1. TypeOK' /\ SlabShape'
    <2> DEFINE res == Allocate(slab, call.fits)
    <2>1. res.slab \in SlabValue /\ res.slot \in Slots \cup {NoSlot}
      BY <1>0, AllocateShape DEF TypeOK, SlabShape, Call
    <2> HIDE DEF res
    <2>2. /\ slab' = res.slab
          /\ owned' = owned \/ (res.slot # NoSlot /\ owned' = owned \cup {res.slot})
      BY DEF AllocateBody, res
    <2>3. slab' \in SlabValue /\ owned' \subseteq Slots
      BY <1>0, <2>1, <2>2 DEF TypeOK
    <2>4. slab'.free_head \in 0 .. Capacity /\ slab'.next_uncarved \in 0 .. Capacity
      BY <2>3, SlabFields
    <2>5. call' \in Call /\ opc' \in {"idle", "lock"}
      <3>1. [call EXCEPT !.op = "retry"] \in Call
        BY <1>0 DEF TypeOK, Call
      <3> QED BY <3>1, IdleCall DEF AllocateBody
    <2>6. missed' \subseteq Slots
      BY <1>0 DEF AllocateBody, QueuedSlots, TypeOK
    <2> QED BY <1>0, <2>3, <2>4, <2>5, <2>6
       DEF AllocateBody, remote, TypeOK, SlabShape
  <1>2. MutexHeld' /\ HasSlot'
    BY <1>0, OwnerAssumption
       DEF AllocateBody, Idle, remote, TypeOK, Call, MutexHeld, HasSlot
  <1>3. MirrorLag' /\ Closing'
    BY <1>0, OwnerAssumption
       DEF AllocateBody, Idle, remote, TypeOK, Call, MutexHeld, MirrorLag,
           Closing
  <1>4. MissedAreComing'
    <2>1. CASE missed' = {}
      BY <2>1 DEF MissedAreComing
    <2>2. CASE missed' # {}
      <3>1. /\ opc' = "lock" /\ call' = [call EXCEPT !.op = "retry"]
            /\ call.fits /\ queue' = queue
            /\ missed' = QueuedSlots
        BY <2>2 DEF AllocateBody
      <3>2. queue # <<>>
        BY <2>2, <3>1 DEF QueuedSlots
      <3>3. call'.op = "retry" /\ call'.fits
        BY <1>0, <3>1 DEF TypeOK, Call
      <3> QED BY <3>1, <3>2, <3>3 DEF MissedAreComing
    <2> QED BY <2>1, <2>2
  <1> QED BY <1>1, <1>2, <1>3, <1>4 DEF IndInv

(* SlabOwner::deallocate. *)
LEMMA DeallocateBodyInv ==
  ASSUME IndInv, DeallocateBody
  PROVE  IndInv'
  <1>0. /\ TypeOK /\ SlabShape /\ MutexHeld /\ HasSlot
        /\ MirrorLag /\ Closing /\ MissedAreComing
    BY DEF IndInv
  <1>1. TypeOK' /\ SlabShape'
    <2>1. slab' \in SlabValue
      BY <1>0, PushShape DEF DeallocateBody, HasSlot, SlabShape
    <2>2. slab'.free_head \in 0 .. Capacity /\ slab'.next_uncarved \in 0 .. Capacity
      BY <2>1, SlabFields
    <2> QED BY <1>0, <2>1, <2>2
       DEF DeallocateBody, Idle, remote, callers, TypeOK, SlabShape, Call
  <1>2. MutexHeld' /\ HasSlot'
    BY <1>0, OwnerAssumption
       DEF DeallocateBody, Idle, remote, callers, TypeOK, Call, MutexHeld,
           HasSlot
  <1>3. MirrorLag' /\ Closing'
    BY <1>0, OwnerAssumption
       DEF DeallocateBody, Idle, remote, callers, TypeOK, Call, MutexHeld,
           MirrorLag, Closing
  <1>4. MissedAreComing'
    BY <1>0 DEF DeallocateBody, Idle, remote, callers, TypeOK, Call, MissedAreComing
  <1> QED BY <1>1, <1>2, <1>3, <1>4 DEF IndInv

(* The calls of a remote. *)
LEMMA StartRemoteInv ==
  ASSUME IndInv, NEW r \in Remotes, NEW s \in Slots, NEW spin \in BOOLEAN,
         StartRemote(r, s, spin)
  PROVE  IndInv'
  <1>0. /\ TypeOK /\ SlabShape /\ MutexHeld /\ HasSlot
        /\ MirrorLag /\ Closing /\ MissedAreComing
    BY DEF IndInv
  <1>1. TypeOK' /\ SlabShape'
    BY <1>0, BatchAssumption DEF StartRemote, inner, owner, TypeOK, SlabShape, Call
  <1>2. MutexHeld' /\ HasSlot'
    BY <1>0, OwnerAssumption
       DEF StartRemote, inner, owner, TypeOK, Call, MutexHeld, HasSlot
  <1>3. MirrorLag' /\ Closing'
    BY <1>0, OwnerAssumption
       DEF StartRemote, inner, owner, TypeOK, Call, MutexHeld, MirrorLag,
           Closing
  <1>4. MissedAreComing'
    BY <1>0 DEF StartRemote, inner, owner, TypeOK, Call, MissedAreComing
  <1> QED BY <1>1, <1>2, <1>3, <1>4 DEF IndInv

LEMMA RemoteLockInv ==
  ASSUME IndInv, NEW r \in Remotes, RemoteLock(r)
  PROVE  IndInv'
  <1>0. /\ TypeOK /\ SlabShape /\ MutexHeld /\ HasSlot
        /\ MirrorLag /\ Closing /\ MissedAreComing
    BY DEF IndInv
  <1>1. TypeOK' /\ SlabShape'
    BY <1>0, BatchAssumption DEF RemoteLock, owner, callers, TypeOK, SlabShape, Call
  <1>2. MutexHeld' /\ HasSlot'
    BY <1>0, OwnerAssumption
       DEF RemoteLock, owner, callers, TypeOK, Call, MutexHeld, HasSlot
  <1>3. MirrorLag' /\ Closing'
    BY <1>0, OwnerAssumption
       DEF RemoteLock, owner, callers, TypeOK, Call, MutexHeld, MirrorLag,
           Closing
  <1>4. MissedAreComing'
    BY <1>0 DEF RemoteLock, owner, callers, TypeOK, Call, MissedAreComing
  <1> QED BY <1>1, <1>2, <1>3, <1>4 DEF IndInv

LEMMA RemoteRefusedInv ==
  ASSUME IndInv, NEW r \in Remotes, RemoteRefused(r)
  PROVE  IndInv'
  <1>0. /\ TypeOK /\ SlabShape /\ MutexHeld /\ HasSlot
        /\ MirrorLag /\ Closing /\ MissedAreComing
    BY DEF IndInv
  <1>1. TypeOK' /\ SlabShape'
    <2>1. rslot[r] \in Slots
      BY <1>0 DEF RemoteRefused, HasSlot
    <2>2. CASE spins[r]
      BY <1>0, <2>2 DEF RemoteRefused, owner, TypeOK, SlabShape
    <2>3. CASE ~spins[r]
      BY <1>0, <2>1, <2>3 DEF RemoteRefused, owner, TypeOK, SlabShape
    <2> QED BY <2>2, <2>3
  <1>2. MutexHeld' /\ HasSlot'
    BY <1>0, OwnerAssumption
       DEF RemoteRefused, owner, TypeOK, Call, MutexHeld, HasSlot
  <1>3. MirrorLag' /\ Closing'
    BY <1>0, OwnerAssumption
       DEF RemoteRefused, owner, TypeOK, Call, MutexHeld, MirrorLag, Closing
  <1>4. MissedAreComing'
    BY <1>0 DEF RemoteRefused, owner, TypeOK, Call, MissedAreComing
  <1> QED BY <1>1, <1>2, <1>3, <1>4 DEF IndInv

(* Under the mutex a push makes the mirror lag by one; the store ends that. *)
LEMMA RemotePushInv ==
  ASSUME IndInv, NEW r \in Remotes, RemotePush(r)
  PROVE  IndInv'
  <1>0. /\ TypeOK /\ SlabShape /\ MutexHeld /\ HasSlot
        /\ MirrorLag /\ Closing /\ MissedAreComing
    BY DEF IndInv
  <1>1. TypeOK' /\ SlabShape'
    <2>1. rslot[r] \in Slots
      BY <1>0 DEF RemotePush, HasSlot
    <2> QED BY <1>0, <2>1, BatchAssumption
       DEF RemotePush, Refuses, owner, callers, TypeOK, SlabShape
  <1>2. MutexHeld' /\ HasSlot'
    BY <1>0, OwnerAssumption
       DEF RemotePush, Refuses, owner, callers, TypeOK, Call, MutexHeld, HasSlot
  <1>3. MirrorLag' /\ Closing'
    BY <1>0, OwnerAssumption
       DEF RemotePush, Refuses, owner, callers, TypeOK, Call, MutexHeld,
           MirrorLag, Closing
  <1>4. MissedAreComing'
    <2>1. queue' # <<>>
      BY <1>0 DEF RemotePush, HasSlot, TypeOK
    <2> QED BY <1>0, <2>1 DEF RemotePush, owner, MissedAreComing
  <1> QED BY <1>1, <1>2, <1>3, <1>4 DEF IndInv

LEMMA RemoteStoreInv ==
  ASSUME IndInv, NEW r \in Remotes, RemoteStore(r)
  PROVE  IndInv'
  <1>0. /\ TypeOK /\ SlabShape /\ MutexHeld /\ HasSlot
        /\ MirrorLag /\ Closing /\ MissedAreComing
    BY DEF IndInv
  <1>1. TypeOK' /\ SlabShape'
    BY <1>0, BatchAssumption
       DEF RemoteStore, owner, callers, TypeOK, SlabShape, MirrorLag
  <1>2. MutexHeld' /\ HasSlot'
    BY <1>0, OwnerAssumption
       DEF RemoteStore, owner, callers, TypeOK, Call, MutexHeld, HasSlot
  <1>3. MirrorLag' /\ Closing'
    BY <1>0, OwnerAssumption
       DEF RemoteStore, owner, callers, TypeOK, Call, MutexHeld, MirrorLag,
           Closing
  <1>4. MissedAreComing'
    BY <1>0 DEF RemoteStore, owner, callers, TypeOK, Call, MissedAreComing
  <1> QED BY <1>1, <1>2, <1>3, <1>4 DEF IndInv

LEMMA RemoteRecheckInv ==
  ASSUME IndInv, NEW r \in Remotes, RemoteRecheck(r)
  PROVE  IndInv'
  <1>0. /\ TypeOK /\ SlabShape /\ MutexHeld /\ HasSlot
        /\ MirrorLag /\ Closing /\ MissedAreComing
    BY DEF IndInv
  <1>1. TypeOK' /\ SlabShape'
    <2>1. rslot[r] \in Slots
      BY <1>0 DEF RemoteRecheck, HasSlot
    <2>2. CASE closed
      BY <1>0, <2>1, <2>2 DEF RemoteRecheck, inner, owner, TypeOK, SlabShape
    <2>3. CASE ~closed
      BY <1>0, <2>3 DEF RemoteRecheck, inner, owner, TypeOK, SlabShape
    <2> QED BY <2>2, <2>3
  <1>2. MutexHeld' /\ HasSlot'
    BY <1>0, OwnerAssumption
       DEF RemoteRecheck, inner, owner, TypeOK, Call, MutexHeld, HasSlot
  <1>3. MirrorLag' /\ Closing'
    BY <1>0, OwnerAssumption
       DEF RemoteRecheck, inner, owner, TypeOK, Call, MutexHeld, MirrorLag,
           Closing
  <1>4. MissedAreComing'
    BY <1>0 DEF RemoteRecheck, inner, owner, TypeOK, Call, MissedAreComing
  <1> QED BY <1>1, <1>2, <1>3, <1>4 DEF IndInv

(* Pointers that change hands. *)
LEMMA HandOverInv ==
  ASSUME IndInv, NEW s \in Slots, NEW r \in Remotes, HandOver(s, r)
  PROVE  IndInv'
  <1>0. /\ TypeOK /\ SlabShape /\ MutexHeld /\ HasSlot
        /\ MirrorLag /\ Closing /\ MissedAreComing
    BY DEF IndInv
  <1>1. TypeOK' /\ SlabShape'
    BY <1>0, BatchAssumption
       DEF HandOver, inner, owner, remote, TypeOK, SlabShape, Call
  <1>2. MutexHeld' /\ HasSlot'
    BY <1>0, OwnerAssumption
       DEF HandOver, inner, owner, remote, TypeOK, Call, MutexHeld, HasSlot
  <1>3. MirrorLag' /\ Closing'
    BY <1>0, OwnerAssumption
       DEF HandOver, inner, owner, remote, TypeOK, Call, MutexHeld, MirrorLag,
           Closing
  <1>4. MissedAreComing'
    BY <1>0 DEF HandOver, inner, owner, remote, TypeOK, Call, MissedAreComing
  <1> QED BY <1>1, <1>2, <1>3, <1>4 DEF IndInv

LEMMA HandBackInv ==
  ASSUME IndInv, NEW s \in Slots, NEW r \in Remotes, HandBack(s, r)
  PROVE  IndInv'
  <1>0. /\ TypeOK /\ SlabShape /\ MutexHeld /\ HasSlot
        /\ MirrorLag /\ Closing /\ MissedAreComing
    BY DEF IndInv
  <1>1. TypeOK' /\ SlabShape'
    BY <1>0, BatchAssumption
       DEF HandBack, inner, owner, remote, TypeOK, SlabShape, Call
  <1>2. MutexHeld' /\ HasSlot'
    BY <1>0, OwnerAssumption
       DEF HandBack, inner, owner, remote, TypeOK, Call, MutexHeld, HasSlot
  <1>3. MirrorLag' /\ Closing'
    BY <1>0, OwnerAssumption
       DEF HandBack, inner, owner, remote, TypeOK, Call, MutexHeld, MirrorLag,
           Closing
  <1>4. MissedAreComing'
    BY <1>0 DEF HandBack, inner, owner, remote, TypeOK, Call, MissedAreComing
  <1> QED BY <1>1, <1>2, <1>3, <1>4 DEF IndInv

LEMMA StutterInv ==
  ASSUME IndInv, UNCHANGED vars
  PROVE  IndInv'
BY
   DEF IndInv, TypeOK, SlabShape, MutexHeld, HasSlot, MirrorLag, Closing,
       MissedAreComing,
       vars, inner, owner, remote, callers

-----------------------------------------------------------------------------
(* The inductive invariant holds in every reachable state, for any number  *)
(* of remotes.                                                             *)
THEOREM Invariance == Spec => []IndInv
  <1>1. IndInv /\ [Next]_vars => IndInv'
    BY StartAllocateInv, StartDeallocateInv, StartDrainInv, StartDropInv,
       MaybeDrainLoadInv, MaybeDrainTryLockInv, OwnerLockInv, DropCloseInv, TakeQueueInv,
       ProcessEntryInv, AllocateBodyInv, DeallocateBodyInv, StartRemoteInv, RemoteLockInv,
       RemoteRefusedInv, RemotePushInv, RemoteStoreInv, RemoteRecheckInv, HandOverInv,
       HandBackInv, StutterInv
       DEF Next, OwnerStep, RemoteStep
  <1> QED BY <1>1, InitInv, PTL DEF Spec

(* The queue stays within its capacity, the adaptive step inside its table *)
(* and the free list inside the slab.                                      *)
THEOREM TypeCorrect == Spec => []TypeOK
  <1>1. IndInv => TypeOK
    BY DEF IndInv
  <1> QED BY <1>1, Invariance, PTL

(* remote_queue_len is exact whenever the mutex is free and never too high:*)
(* the debug assertions of drain and maybe_drain cannot fail.              *)
THEOREM MirrorIsExact == Spec => []MirrorExact
  <1>1. IndInv => MirrorExact
    <2> SUFFICES ASSUME IndInv PROVE MirrorExact
      OBVIOUS
    <2>1. mirror \in Nat /\ Len(queue) \in Nat
      BY BatchAssumption DEF IndInv, TypeOK
    <2>2. lock = "none" => \A r \in Remotes : rpc[r] # "store"
      BY OwnerAssumption DEF IndInv, MutexHeld
    <2> QED BY <2>1, <2>2 DEF IndInv, MirrorLag, MirrorExact
  <1> QED BY <1>1, Invariance, PTL

(* No push slips past SlabOwner::drop, whatever the remotes were doing.    *)
THEOREM NothingEntersAClosedQueue == Spec => []ClosedMeansEmpty
  <1>1. IndInv => ClosedMeansEmpty
    BY DEF IndInv, Closing, MirrorLag, ClosedMeansEmpty
  <1> QED BY <1>1, Invariance, PTL

(* SlabOwner::allocate does not fail over slots that were queued when its  *)
(* first attempt missed.                                                   *)
THEOREM AllocateDrainsFirst == Spec => []NoSpuriousFailure
  <1>1. IndInv => NoSpuriousFailure
    <2> SUFFICES ASSUME IndInv, opc = "retry", missed # {}
                 PROVE  Allocate(slab, call.fits).slot # NoSlot
      BY DEF NoSpuriousFailure
    <2>1. slab \in SlabValue /\ call.fits \in BOOLEAN
      BY DEF IndInv, SlabShape, TypeOK, Call
    <2>2. call.fits /\ slab.free_head # 0
      BY DEF IndInv, MissedAreComing
    <2> QED BY <2>1, <2>2, AllocateShape
  <1> QED BY <1>1, Invariance, PTL

-----------------------------------------------------------------------------
(* Every slot is in exactly one place.                                     *)

(* Slot s is outside the slab, at place k: with a caller, in a call that   *)
(* returns it, in the queue or in the drained batch.                       *)
At(s, k) ==
  \/ k = <<"owned", 0>> /\ s \in owned
  \/ k = <<"forfeited", 0>> /\ s \in forfeited
  \/ k = <<"call", 0>> /\ call.slot = s
  \/ \E r \in Remotes : k = <<"away", r>> /\ s \in away[r]
  \/ \E r \in Remotes : k = <<"rslot", r>> /\ rslot[r] = s
  \/ \E i \in DOMAIN queue : k = <<"queue", i>> /\ queue[i] = s
  \/ \E i \in DOMAIN pending : k = <<"pending", i>> /\ pending[i] = s

Out(s) == \E k : At(s, k)

Own == [s \in Slots |-> IF Out(s) THEN 1 ELSE 0]

OnePlaceOut == \A s \in Slots : \A k, l : At(s, k) /\ At(s, l) => k = l

(* A call holds a slot only while it returns one, and the batch is only    *)
(* there while it is processed.                                            *)
Clerk ==
  /\ opc = "idle" => call.slot = NoSlot
  /\ opc = "retry" => call.op = "retry"
  /\ call.slot # NoSlot => call.op = "deallocate"
  /\ opc # "process" => pending = <<>>
  /\ \A r \in Remotes : rpc[r] \in {"idle", "store"} => rslot[r] = NoSlot

(* The slab's list is a chain of exactly the carved slots that are nowhere *)
(* outside.                                                                *)
PlaceInv == OnePlaceOut /\ Sound(slab, Own)

LEMMA OwnValue ==
  /\ \A s \in Slots : Own[s] \in {0, 1}
  /\ \A s \in Slots : Own[s] = 1 <=> Out(s)
BY DEF Own

(* A step that moves no slot. *)
LEMMA Unmoved ==
  ASSUME PlaceInv, slab' = slab, \A s \in Slots : \A k : At(s, k)' <=> At(s, k)
  PROVE  PlaceInv'
  <1>1. \A s \in Slots : Out(s)' <=> Out(s)
    BY DEF Out
  <1>2. Own' = Own
    BY <1>1 DEF Own
  <1>3. OnePlaceOut'
    BY DEF PlaceInv, OnePlaceOut
  <1> QED BY <1>2, <1>3 DEF PlaceInv

(* A step that moves slot t from one place outside to another. *)
LEMMA Moved ==
  ASSUME PlaceInv, slab' = slab, NEW t \in Slots, NEW from, NEW to,
         At(t, from), At(t, to)',
         \A s \in Slots \ {t} : \A k : At(s, k)' <=> At(s, k),
         \A k : At(t, k)' => k = to \/ (k # from /\ At(t, k))
  PROVE  PlaceInv'
  <1>1. \A s \in Slots : Out(s)' <=> Out(s)
    BY DEF Out
  <1>2. Own' = Own
    BY <1>1 DEF Own
  <1>3. OnePlaceOut'
    BY DEF PlaceInv, OnePlaceOut
  <1> QED BY <1>2, <1>3 DEF PlaceInv

(* A step that takes slot t out of the slab, to the place it is given. *)
LEMMA TakenOut ==
  ASSUME PlaceInv, NEW t \in Slots, NEW to, Own[t] = 0,
         Sound(slab', [Own EXCEPT ![t] = 1]),
         \A s \in Slots \ {t} : \A k : At(s, k)' <=> At(s, k),
         \A k : At(t, k)' <=> k = to \/ At(t, k)
  PROVE  PlaceInv'
  <1>1. ~Out(t) /\ Out(t)'
    BY OwnValue DEF Out
  <1>2. \A s \in Slots \ {t} : Out(s)' <=> Out(s)
    BY DEF Out
  <1>3. Own' = [Own EXCEPT ![t] = 1]
    BY <1>1, <1>2 DEF Own
  <1>4. OnePlaceOut'
    BY <1>1 DEF PlaceInv, OnePlaceOut, Out
  <1> QED BY <1>3, <1>4 DEF PlaceInv

(* A step that gives slot t back to the slab; other slots may change their *)
(* places, one by one.                                                     *)
LEMMA PutBack ==
  ASSUME PlaceInv, NEW t \in Slots, NEW k0, At(t, k0), slab' = Push(slab, t),
         \A s \in Slots \ {t} : Out(s)' <=> Out(s),
         \A s \in Slots \ {t} : \A k, l : At(s, k)' /\ At(s, l)' => k = l,
         \A k : ~At(t, k)'
  PROVE  PlaceInv'
  <1>1. Out(t) /\ ~Out(t)'
    BY DEF Out
  <1>2. Own[t] = 1
    BY <1>1, OwnValue
  <1>3. Own' = [Own EXCEPT ![t] = 0]
    BY <1>1 DEF Own
  <1>4. Sound(Push(slab, t), [Own EXCEPT ![t] = 0])
    BY <1>2, PushSound DEF PlaceInv
  <1>5. OnePlaceOut'
    BY DEF OnePlaceOut
  <1> QED BY <1>3, <1>4, <1>5 DEF PlaceInv

-----------------------------------------------------------------------------
(* The bookkeeping of calls. *)
LEMMA ClerkStep ==
  ASSUME IndInv, Clerk, [Next]_vars
  PROVE  Clerk'
  <1>0. /\ rpc \in [Remotes -> {"idle", "lock", "check", "store", "recheck"}]
        /\ rslot \in [Remotes -> Slots \cup {NoSlot}] /\ call \in Call
    BY DEF IndInv, TypeOK
  <1>1. CASE \E fits \in BOOLEAN : StartAllocate(fits)
    BY <1>0, <1>1 DEF StartAllocate, OwnerCalls, inner, remote, Clerk
  <1>2. CASE \E s \in Slots : StartDeallocate(s)
    BY <1>0, <1>2 DEF StartDeallocate, OwnerCalls, inner, remote, Clerk
  <1>3. CASE StartDrain
    BY <1>0, <1>3 DEF StartDrain, OwnerCalls, inner, remote, Clerk
  <1>4. CASE StartDrop
    BY <1>0, <1>4 DEF StartDrop, OwnerCalls, inner, remote, Clerk
  <1>5. CASE MaybeDrainLoad
    BY <1>0, <1>5 DEF MaybeDrainLoad, inner, remote, Clerk
  <1>6. CASE MaybeDrainTryLock \/ OwnerLock \/ DropClose
    BY <1>0, <1>6 DEF MaybeDrainTryLock, OwnerLock, DropClose, remote, Clerk
  <1>7. CASE TakeQueue
    BY <1>0, <1>7 DEF TakeQueue, remote, Clerk
  <1>8. CASE ProcessEntry
    <2>1. CASE pending = <<>>
      BY <1>0, <1>8, <2>1 DEF ProcessEntry, AfterDrain, Idle, remote, Clerk
    <2>2. CASE pending # <<>>
      BY <1>0, <1>8, <2>2 DEF ProcessEntry, remote, Clerk
    <2> QED BY <2>1, <2>2
  <1>9. CASE AllocateBody
    <2>1. opc' \in {"idle", "lock"} /\ UNCHANGED <<pending, rpc, rslot>>
      BY <1>9 DEF AllocateBody, remote
    <2>2. call.slot = NoSlot
      BY <1>0, <1>9 DEF AllocateBody, Clerk
    <2>3. call'.slot = NoSlot
      <3>1. call' = Idle \/ call' = [call EXCEPT !.op = "retry"]
        BY <1>9 DEF AllocateBody
      <3> QED BY <1>0, <2>2, <3>1 DEF Idle, Call
    <2>4. pending = <<>>
      BY <1>9 DEF AllocateBody, Clerk
    <2> QED BY <2>1, <2>3, <2>4 DEF Clerk
  <1>10. CASE DeallocateBody
    BY <1>0, <1>10 DEF DeallocateBody, Idle, remote, Clerk
  <1>11. CASE \E r \in Remotes, s \in Slots, spin \in BOOLEAN : StartRemote(r, s, spin)
    BY <1>0, <1>11 DEF StartRemote, inner, owner, Clerk
  <1>12. CASE \E r \in Remotes : RemoteLock(r)
    BY <1>0, <1>12 DEF RemoteLock, owner, Clerk
  <1>13. CASE \E r \in Remotes : RemoteRefused(r)
    BY <1>0, <1>13 DEF RemoteRefused, owner, Clerk
  <1>14. CASE \E r \in Remotes : RemotePush(r)
    BY <1>0, <1>14 DEF RemotePush, owner, Clerk
  <1>15. CASE \E r \in Remotes : RemoteStore(r)
    BY <1>0, <1>15 DEF RemoteStore, owner, Clerk
  <1>16. CASE \E r \in Remotes : RemoteRecheck(r)
    BY <1>0, <1>16 DEF RemoteRecheck, inner, owner, Clerk
  <1>17. CASE \E s \in Slots, r \in Remotes : HandOver(s, r) \/ HandBack(s, r)
    BY <1>17 DEF HandOver, HandBack, inner, owner, remote, Clerk
  <1>18. CASE UNCHANGED vars
    BY <1>18 DEF vars, inner, owner, remote, callers, Clerk
  <1> QED BY <1>1, <1>2, <1>3, <1>4, <1>5, <1>6, <1>7, <1>8, <1>9, <1>10, <1>11, <1>12,
             <1>13, <1>14, <1>15, <1>16, <1>17, <1>18
          DEF Next, OwnerStep, RemoteStep

-----------------------------------------------------------------------------
(* What each step does to the places.                                      *)

(* A step that leaves alone everything that holds slots. *)
LEMMA QuietPlaces ==
  ASSUME PlaceInv, call'.slot = call.slot,
         UNCHANGED <<slab, owned, forfeited, away, rslot, queue, pending>>
  PROVE  PlaceInv'
  <1>1. \A s \in Slots : \A k : At(s, k)' <=> At(s, k)
    BY DEF At
  <1> QED BY <1>1, Unmoved

LEMMA StartDeallocatePlaces ==
  ASSUME IndInv, Clerk, PlaceInv, NEW t \in Slots, StartDeallocate(t)
  PROVE  PlaceInv'
  <1>1. /\ t \in owned /\ owned' = owned \ {t} /\ call'.slot = t
        /\ UNCHANGED <<slab, forfeited, away, rslot, queue, pending>>
        /\ call.slot = NoSlot
    BY DEF StartDeallocate, OwnerCalls, inner, remote, Clerk
  <1>2. At(t, <<"owned", 0>>) /\ At(t, <<"call", 0>>)'
    BY <1>1 DEF At
  <1>3. \A s \in Slots \ {t} : \A k : At(s, k)' <=> At(s, k)
    BY <1>1, SlotRange DEF At
  <1>4. \A k : At(t, k)' => k = <<"call", 0>> \/ (k # <<"owned", 0>> /\ At(t, k))
    BY <1>1 DEF At
  <1>5. slab' = slab
    BY <1>1
  <1> QED BY <1>2, <1>3, <1>4, <1>5, Moved

(* The entries of the queue become the batch, in their order. *)
LEMMA TakeQueuePlaces ==
  ASSUME IndInv, Clerk, PlaceInv, TakeQueue
  PROVE  PlaceInv'
  <1>1. /\ pending = <<>> /\ pending' = queue /\ queue' = <<>>
        /\ UNCHANGED <<slab, call, owned, forfeited, away, rslot>>
    BY DEF TakeQueue, remote, callers, Clerk
  <1>2. DOMAIN pending = {} /\ DOMAIN queue' = {} /\ DOMAIN pending' = DOMAIN queue
    BY <1>1
  <1>3. ASSUME NEW s \in Slots, NEW k, At(s, k)'
        PROVE  \/ At(s, k)
               \/ \E i \in DOMAIN queue :
                    k = <<"pending", i>> /\ At(s, <<"queue", i>>)
    BY <1>1, <1>2, <1>3 DEF At
  <1>4. ASSUME NEW s \in Slots, NEW k, At(s, k)
        PROVE  \/ At(s, k)'
               \/ \E i \in DOMAIN queue :
                    k = <<"queue", i>> /\ At(s, <<"pending", i>>)'
    BY <1>1, <1>2, <1>4 DEF At
  <1>5. \A s \in Slots : Out(s)' <=> Out(s)
    BY <1>3, <1>4 DEF Out
  <1>6. Own' = Own
    BY <1>5 DEF Own
  <1>7. ASSUME NEW s \in Slots, NEW i \in DOMAIN queue, queue[i] = s, NEW k, At(s, k)'
        PROVE  k = <<"pending", i>>
    <2>1. At(s, <<"queue", i>>)
      BY <1>7 DEF At
    <2>2. CASE At(s, k)
      <3>1. k = <<"queue", i>>
        BY <2>1, <2>2 DEF PlaceInv, OnePlaceOut
      <3>2. ~At(s, <<"queue", i>>)'
        BY <1>2 DEF At
      <3> QED BY <1>7, <3>1, <3>2
    <2>3. CASE \E j \in DOMAIN queue : k = <<"pending", j>> /\ At(s, <<"queue", j>>)
      <3>1. PICK j \in DOMAIN queue : k = <<"pending", j>> /\ At(s, <<"queue", j>>)
        BY <2>3
      <3>2. <<"queue", i>> = <<"queue", j>>
        BY <2>1, <3>1 DEF PlaceInv, OnePlaceOut
      <3>3. i = j
        BY <3>2
      <3> QED BY <3>1, <3>3
    <2> QED BY <1>3, <1>7, <2>2, <2>3
  <1>8. ASSUME NEW s \in Slots, NEW k, NEW l, At(s, k)', At(s, l)'
        PROVE  k = l
    <2>1. CASE \E i \in DOMAIN queue : queue[i] = s
      BY <1>7, <1>8, <2>1
    <2>2. CASE ~\E i \in DOMAIN queue : queue[i] = s
      <3>1. \A i \in DOMAIN queue : ~At(s, <<"queue", i>>)
        BY <2>2 DEF At
      <3>2. At(s, k) /\ At(s, l)
        BY <1>3, <1>8, <3>1
      <3> QED BY <3>2 DEF PlaceInv, OnePlaceOut
    <2> QED BY <2>1, <2>2
  <1>9. OnePlaceOut'
    BY <1>8 DEF OnePlaceOut
  <1>10. Sound(slab, Own)'
    BY <1>1, <1>6 DEF PlaceInv
  <1> QED BY <1>9, <1>10 DEF PlaceInv

(* The first entry of the batch goes to the slab, the others move up. *)
LEMMA ProcessEntryPlaces ==
  ASSUME IndInv, Clerk, PlaceInv, ProcessEntry
  PROVE  PlaceInv'
  <1>1. CASE pending = <<>>
    <2>1. UNCHANGED <<slab, pending, owned, forfeited, away, rslot, queue>>
      BY <1>1 DEF ProcessEntry, remote, callers
    <2>2. call'.slot = call.slot
      <3>1. call' = call \/ (call.op = "drain" /\ call' = Idle)
        BY <1>1 DEF ProcessEntry, AfterDrain
      <3>2. call.op = "drain" => call.slot = NoSlot
        BY DEF Clerk
      <3> QED BY <3>1, <3>2 DEF Idle
    <2> QED BY <2>1, <2>2, QuietPlaces
  <1>2. CASE pending # <<>>
    <2>1. /\ slab' = Push(slab, Head(pending)) /\ pending' = Tail(pending)
          /\ UNCHANGED <<call, owned, forfeited, away, rslot, queue>>
      BY <1>2 DEF ProcessEntry, remote, callers
    <2>2. pending \in Seq(Slots)
      BY DEF IndInv, TypeOK
    <2>3. /\ Head(pending) \in Slots /\ Head(pending) = pending[1] /\ 1 \in DOMAIN pending
          /\ \A i \in DOMAIN pending' : /\ pending'[i] = pending[i + 1]
                                        /\ i + 1 \in DOMAIN pending /\ i \in Nat
          /\ \A i \in DOMAIN pending : /\ i \in Nat
                                       /\ i # 1 => /\ i - 1 \in DOMAIN pending'
                                                   /\ pending'[i - 1] = pending[i]
      BY <1>2, <2>1, <2>2
    <2>4. PICK t \in Slots : t = Head(pending)
      BY <2>3
    <2>5. At(t, <<"pending", 1>>)
      BY <2>3, <2>4 DEF At
    <2>6. ASSUME NEW s \in Slots, NEW k, At(s, k)'
          PROVE  \/ At(s, k) /\ \A i \in DOMAIN pending : k # <<"pending", i>>
                 \/ \E i \in DOMAIN pending :
                      /\ i # 1 /\ k = <<"pending", i - 1>>
                      /\ At(s, <<"pending", i>>)
      <3>1. CASE \E i \in DOMAIN pending' : k = <<"pending", i>> /\ pending'[i] = s
        <4>1. PICK i \in DOMAIN pending' : k = <<"pending", i>> /\ pending'[i] = s
          BY <3>1
        <4>2. i + 1 \in DOMAIN pending /\ pending[i + 1] = s /\ (i + 1) - 1 = i /\ i + 1 # 1
          <5>1. i \in Nat /\ i + 1 \in DOMAIN pending /\ pending[i + 1] = s
            BY <2>3, <4>1
          <5>2. i \in DOMAIN pending' => i > 0
            BY <2>1, <2>2, <1>2
          <5> QED BY <5>1, <5>2
        <4>3. At(s, <<"pending", i + 1>>)
          BY <4>2 DEF At
        <4> QED BY <4>1, <4>2, <4>3
      <3>2. CASE ~\E i \in DOMAIN pending' : k = <<"pending", i>> /\ pending'[i] = s
        BY <2>1, <2>6, <3>2 DEF At
      <3> QED BY <3>1, <3>2
    <2>7. ASSUME NEW s \in Slots \ {t}, NEW k, At(s, k)
          PROVE  \E l : At(s, l)'
      <3>1. CASE \E i \in DOMAIN pending : k = <<"pending", i>> /\ pending[i] = s
        <4>1. PICK i \in DOMAIN pending : k = <<"pending", i>> /\ pending[i] = s
          BY <3>1
        <4>2. i # 1
          BY <2>3, <2>4, <4>1
        <4>3. i - 1 \in DOMAIN pending' /\ pending'[i - 1] = s
          BY <2>3, <4>1, <4>2
        <4>4. PICK j : j = i - 1
          OBVIOUS
        <4>5. At(s, <<"pending", j>>)'
          BY <4>3, <4>4 DEF At
        <4> QED BY <4>5
      <3>2. CASE ~\E i \in DOMAIN pending : k = <<"pending", i>> /\ pending[i] = s
        <4>1. At(s, k)'
          BY <2>1, <2>7, <3>2 DEF At
        <4> QED BY <4>1
      <3> QED BY <3>1, <3>2
    <2>8. \A s \in Slots \ {t} : Out(s)' <=> Out(s)
      BY <2>6, <2>7 DEF Out
    <2>9. ASSUME NEW k, At(t, k)' PROVE FALSE
      <3>1. CASE At(t, k) /\ \A i \in DOMAIN pending : k # <<"pending", i>>
        BY <2>3, <2>5, <3>1 DEF PlaceInv, OnePlaceOut
      <3>2. CASE \E i \in DOMAIN pending : i # 1 /\ At(t, <<"pending", i>>)
        <4>1. PICK i \in DOMAIN pending : i # 1 /\ At(t, <<"pending", i>>)
          BY <3>2
        <4>2. <<"pending", i>> = <<"pending", 1>>
          BY <2>5, <4>1 DEF PlaceInv, OnePlaceOut
        <4> QED BY <4>1, <4>2
      <3> QED BY <2>6, <2>9, <3>1, <3>2
    <2>10. ASSUME NEW s \in Slots \ {t}, NEW k, NEW l, At(s, k)', At(s, l)'
           PROVE  k = l
      <3>0. \A a, b : At(s, a) /\ At(s, b) => a = b
        BY DEF PlaceInv, OnePlaceOut
      <3>1. \/ At(s, k) /\ \A i \in DOMAIN pending : k # <<"pending", i>>
            \/ \E i \in DOMAIN pending : k = <<"pending", i - 1>> /\ At(s, <<"pending", i>>)
        BY <2>6, <2>10
      <3>2. \/ At(s, l) /\ \A i \in DOMAIN pending : l # <<"pending", i>>
            \/ \E i \in DOMAIN pending : l = <<"pending", i - 1>> /\ At(s, <<"pending", i>>)
        BY <2>6, <2>10
      <3>3. CASE /\ At(s, k) /\ \A i \in DOMAIN pending : k # <<"pending", i>>
                 /\ At(s, l)
        BY <3>0, <3>3
      <3>4. ASSUME NEW i \in DOMAIN pending, NEW j \in DOMAIN pending,
                   At(s, <<"pending", i>>), At(s, <<"pending", j>>)
            PROVE  i = j
        <4>1. <<"pending", i>> = <<"pending", j>>
          BY <3>0, <3>4
        <4> QED BY <4>1
      <3> QED BY <3>0, <3>1, <3>2, <3>3, <3>4
    <2> QED BY <2>1, <2>4, <2>5, <2>8, <2>9, <2>10, PutBack
  <1> QED BY <1>1, <1>2

LEMMA DeallocateBodyPlaces ==
  ASSUME IndInv, Clerk, PlaceInv, DeallocateBody
  PROVE  PlaceInv'
  <1>1. /\ slab' = Push(slab, call.slot) /\ call'.slot = NoSlot
        /\ UNCHANGED <<pending, owned, forfeited, away, rslot, queue>>
    BY DEF DeallocateBody, Idle, remote, callers
  <1>2. PICK t \in Slots : t = call.slot
    BY DEF IndInv, HasSlot, DeallocateBody
  <1>3. At(t, <<"call", 0>>)
    BY <1>2 DEF At
  <1>4. \A s \in Slots \ {t} : \A k : At(s, k)' <=> At(s, k)
    BY <1>1, <1>2, SlotRange DEF At
  <1>5. \A k : At(t, k)' => At(t, k) /\ k # <<"call", 0>>
    BY <1>1, SlotRange DEF At
  <1>6. \A k : ~At(t, k)'
    BY <1>3, <1>5 DEF PlaceInv, OnePlaceOut
  <1>7. /\ \A s \in Slots \ {t} : Out(s)' <=> Out(s)
        /\ \A s \in Slots \ {t} : \A k, l : At(s, k)' /\ At(s, l)' => k = l
    BY <1>4 DEF Out, PlaceInv, OnePlaceOut
  <1> QED BY <1>1, <1>2, <1>3, <1>6, <1>7, PutBack

LEMMA StartRemotePlaces ==
  ASSUME IndInv, Clerk, PlaceInv, NEW r \in Remotes, NEW t \in Slots, NEW spin \in BOOLEAN,
         StartRemote(r, t, spin)
  PROVE  PlaceInv'
  <1>0. away \in [Remotes -> SUBSET Slots] /\ rslot \in [Remotes -> Slots \cup {NoSlot}]
    BY DEF IndInv, TypeOK
  <1>1. /\ t \in away[r] /\ rslot[r] = NoSlot
        /\ rslot' = [rslot EXCEPT ![r] = t]
        /\ away' = [away EXCEPT ![r] = @ \ {t}]
        /\ UNCHANGED <<slab, call, owned, forfeited, queue, pending>>
    BY DEF StartRemote, inner, owner, Clerk
  <1>2. /\ rslot'[r] = t /\ away'[r] = away[r] \ {t}
        /\ \A q \in Remotes \ {r} : rslot'[q] = rslot[q] /\ away'[q] = away[q]
    BY <1>0, <1>1
  <1>3. At(t, <<"away", r>>) /\ At(t, <<"rslot", r>>)'
    BY <1>1, <1>2 DEF At
  <1>4. \A s \in Slots \ {t} : \A k : At(s, k)' <=> At(s, k)
    BY <1>1, <1>2, SlotRange DEF At
  <1>5. \A k : At(t, k)' => k = <<"rslot", r>> \/ (k # <<"away", r>> /\ At(t, k))
    BY <1>1, <1>2 DEF At
  <1>6. slab' = slab
    BY <1>1
  <1> QED BY <1>3, <1>4, <1>5, <1>6, Moved

LEMMA RemoteRefusedPlaces ==
  ASSUME IndInv, Clerk, PlaceInv, NEW r \in Remotes, RemoteRefused(r)
  PROVE  PlaceInv'
  <1>0. /\ away \in [Remotes -> SUBSET Slots] /\ rslot \in [Remotes -> Slots \cup {NoSlot}]
        /\ UNCHANGED <<slab, call, owned, forfeited, queue, pending>>
    BY DEF IndInv, TypeOK, RemoteRefused, owner
  <1>1. CASE spins[r]
    <2>1. call'.slot = call.slot
          /\ UNCHANGED <<slab, owned, forfeited, away, rslot, queue, pending>>
      BY <1>0, <1>1 DEF RemoteRefused
    <2> QED BY <2>1, QuietPlaces
  <1>2. CASE ~spins[r]
    <2>1. PICK t \in Slots : t = rslot[r]
      BY DEF IndInv, HasSlot, RemoteRefused
    <2>2. /\ rslot'[r] = NoSlot /\ away'[r] = away[r] \cup {t}
          /\ \A q \in Remotes \ {r} : rslot'[q] = rslot[q] /\ away'[q] = away[q]
      BY <1>0, <1>2, <2>1 DEF RemoteRefused
    <2>3. At(t, <<"rslot", r>>) /\ At(t, <<"away", r>>)'
      BY <2>1, <2>2 DEF At
    <2>4. \A s \in Slots \ {t} : \A k : At(s, k)' <=> At(s, k)
      BY <1>0, <2>1, <2>2, SlotRange DEF At
    <2>5. \A k : At(t, k)' => k = <<"away", r>> \/ (k # <<"rslot", r>> /\ At(t, k))
      BY <1>0, <2>1, <2>2, SlotRange DEF At
    <2>6. slab' = slab
      BY <1>0
    <2> QED BY <2>3, <2>4, <2>5, <2>6, Moved
  <1> QED BY <1>1, <1>2

LEMMA RemoteRecheckPlaces ==
  ASSUME IndInv, Clerk, PlaceInv, NEW r \in Remotes, RemoteRecheck(r)
  PROVE  PlaceInv'
  <1>0. /\ rslot \in [Remotes -> Slots \cup {NoSlot}]
        /\ UNCHANGED <<slab, call, owned, away, queue, pending>>
    BY DEF IndInv, TypeOK, RemoteRecheck, inner, owner
  <1>1. CASE ~closed
    <2>1. call'.slot = call.slot
          /\ UNCHANGED <<slab, owned, forfeited, away, rslot, queue, pending>>
      BY <1>0, <1>1 DEF RemoteRecheck
    <2> QED BY <2>1, QuietPlaces
  <1>2. CASE closed
    <2>1. PICK t \in Slots : t = rslot[r]
      BY DEF IndInv, HasSlot, RemoteRecheck
    <2>2. /\ rslot'[r] = NoSlot /\ forfeited' = forfeited \cup {t}
          /\ \A q \in Remotes \ {r} : rslot'[q] = rslot[q]
      BY <1>0, <1>2, <2>1 DEF RemoteRecheck
    <2>3. At(t, <<"rslot", r>>) /\ At(t, <<"forfeited", 0>>)'
      BY <2>1, <2>2 DEF At
    <2>4. \A s \in Slots \ {t} : \A k : At(s, k)' <=> At(s, k)
      BY <1>0, <2>1, <2>2, SlotRange DEF At
    <2>5. \A k : At(t, k)' => k = <<"forfeited", 0>> \/ (k # <<"rslot", r>> /\ At(t, k))
      BY <1>0, <2>1, <2>2, SlotRange DEF At
    <2>6. slab' = slab
      BY <1>0
    <2> QED BY <2>3, <2>4, <2>5, <2>6, Moved
  <1> QED BY <1>1, <1>2

LEMMA RemotePushPlaces ==
  ASSUME IndInv, Clerk, PlaceInv, NEW r \in Remotes, RemotePush(r)
  PROVE  PlaceInv'
  <1>0. /\ rslot \in [Remotes -> Slots \cup {NoSlot}] /\ queue \in Seq(Slots)
        /\ UNCHANGED <<slab, call, owned, forfeited, away, pending>>
    BY DEF IndInv, TypeOK, RemotePush, owner, callers
  <1>1. PICK t \in Slots : t = rslot[r]
    BY DEF IndInv, HasSlot, RemotePush
  <1>2. /\ rslot'[r] = NoSlot /\ queue' = Append(queue, t)
        /\ \A q \in Remotes \ {r} : rslot'[q] = rslot[q]
    BY <1>0, <1>1 DEF RemotePush
  <1>3. PICK n : n = Len(queue) + 1
    OBVIOUS
  <1>4. /\ DOMAIN queue' = DOMAIN queue \cup {n} /\ n \notin DOMAIN queue /\ queue'[n] = t
        /\ \A i \in DOMAIN queue : queue'[i] = queue[i]
    BY <1>0, <1>2, <1>3
  <1>5. At(t, <<"rslot", r>>) /\ At(t, <<"queue", n>>)'
    BY <1>1, <1>4 DEF At
  <1>6. /\ rslot'[r] = NoSlot /\ \A q \in Remotes \ {r} : rslot'[q] = rslot[q]
        /\ UNCHANGED <<slab, call, owned, forfeited, away, pending>>
    BY <1>0, <1>2
  <1>7. \A s \in Slots : \A k :
          (\E i \in DOMAIN queue' : k = <<"queue", i>> /\ queue'[i] = s)
            <=> \/ \E i \in DOMAIN queue : k = <<"queue", i>> /\ queue[i] = s
                \/ s = t /\ k = <<"queue", n>>
    BY <1>4
  <1>8. \A s \in Slots : \A k :
          (\E q \in Remotes : k = <<"rslot", q>> /\ rslot'[q] = s)
            <=> (\E q \in Remotes : k = <<"rslot", q>> /\ rslot[q] = s)
                /\ ~(s = t /\ k = <<"rslot", r>>)
    BY <1>1, <1>6, SlotRange
  <1>9. \A s \in Slots \ {t} : \A k : At(s, k)' <=> At(s, k)
    BY <1>6, <1>7, <1>8 DEF At
  <1>10. \A k : At(t, k)' => k = <<"queue", n>> \/ (k # <<"rslot", r>> /\ At(t, k))
    BY <1>6, <1>7, <1>8 DEF At
  <1> QED BY <1>5, <1>6, <1>9, <1>10, Moved

(* Callers hand a slot to another thread and back. *)
LEMMA HandOverPlaces ==
  ASSUME IndInv, PlaceInv, NEW t \in Slots, NEW r \in Remotes, HandOver(t, r)
  PROVE  PlaceInv'
  <1>0. /\ away \in [Remotes -> SUBSET Slots] /\ t \in owned
        /\ UNCHANGED <<slab, call, rslot, forfeited, queue, pending>>
    BY DEF IndInv, TypeOK, HandOver, inner, owner, remote
  <1>1. /\ owned' = owned \ {t} /\ away'[r] = away[r] \cup {t}
        /\ \A q \in Remotes \ {r} : away'[q] = away[q]
    BY <1>0 DEF HandOver
  <1>2. At(t, <<"owned", 0>>) /\ At(t, <<"away", r>>)'
    BY <1>0, <1>1 DEF At
  <1>3. \A s \in Slots \ {t} : \A k : At(s, k)' <=> At(s, k)
    BY <1>0, <1>1 DEF At
  <1>4. \A k : At(t, k)' => k = <<"away", r>> \/ (k # <<"owned", 0>> /\ At(t, k))
    BY <1>0, <1>1 DEF At
  <1>5. slab' = slab
    BY <1>0
  <1> QED BY <1>2, <1>3, <1>4, <1>5, Moved

LEMMA HandBackPlaces ==
  ASSUME IndInv, PlaceInv, NEW t \in Slots, NEW r \in Remotes, HandBack(t, r)
  PROVE  PlaceInv'
  <1>0. /\ away \in [Remotes -> SUBSET Slots] /\ t \in away[r]
        /\ UNCHANGED <<slab, call, rslot, forfeited, queue, pending>>
    BY DEF IndInv, TypeOK, HandBack, inner, owner, remote
  <1>1. /\ owned' = owned \cup {t} /\ away'[r] = away[r] \ {t}
        /\ \A q \in Remotes \ {r} : away'[q] = away[q]
    BY <1>0 DEF HandBack
  <1>2. At(t, <<"away", r>>) /\ At(t, <<"owned", 0>>)'
    BY <1>0, <1>1 DEF At
  <1>3. \A s \in Slots \ {t} : \A k : At(s, k)' <=> At(s, k)
    BY <1>0, <1>1 DEF At
  <1>4. \A k : At(t, k)' => k = <<"owned", 0>> \/ (k # <<"away", r>> /\ At(t, k))
    BY <1>0, <1>1 DEF At
  <1>5. slab' = slab
    BY <1>0
  <1> QED BY <1>2, <1>3, <1>4, <1>5, Moved

(* Slab::allocate that fails leaves the slots where they are. *)
LEMMA AllocateMiss ==
  ASSUME NEW x, NEW own, Sound(x, own), NEW f \in BOOLEAN, Allocate(x, f).slot = NoSlot
  PROVE  Sound(Allocate(x, f).slab, own)
  <1> DEFINE a == Allocate(x, f)
  <1>0. x \in SlabRecord
    BY DEF Sound
  <1>1. CASE ~f
    <2>1. a = Result(x, NoSlot)
      BY <1>1 DEF Allocate
    <2> HIDE DEF a
    <2>2. a.slab = x
      BY <2>1, ResultFields
    <2>3. Sound(a.slab, own)
      BY <2>2
    <2> QED BY <2>3 DEF a
  <1>2. CASE f /\ x.free_head # 0
    <2>1. x.mem[x.free_head - 1].next_idx <= Capacity /\ x.free_head - 1 \in Slots
      BY <1>2, TakeHeadSound
    <2>2. HeadIntact(x)
      BY <1>2, <2>1 DEF HeadIntact, Verify, Sound
    <2>3. a = Result(TakeHead(x), x.free_head - 1)
      BY <1>2, <2>2 DEF Allocate
    <2> HIDE DEF a
    <2>4. a.slot = x.free_head - 1
      BY <2>3, ResultFields
    <2>5. a.slot # NoSlot
      BY <2>1, <2>4, SlotRange
    <2> QED BY <2>5 DEF a
  <1>3. CASE f /\ x.free_head = 0
    <2>1. ~HeadIntact(x)
      BY <1>3 DEF HeadIntact
    <2>2. CASE x.next_uncarved < Capacity
      <3>1. a = Result(Carve(Abandon(x)), x.next_uncarved)
        BY <1>3, <2>1, <2>2 DEF Allocate
      <3> HIDE DEF a
      <3>2. a.slot = x.next_uncarved
        BY <3>1, ResultFields
      <3>3. x.next_uncarved # NoSlot
        BY <1>0, RecordFields DEF NoSlot
      <3> QED BY <3>2, <3>3 DEF a
    <2>3. CASE ~(x.next_uncarved < Capacity)
      <3>1. a = Result(Abandon(x), NoSlot)
        BY <1>3, <2>1, <2>3 DEF Allocate
      <3> HIDE DEF a
      <3>2. a.slab = Abandon(x)
        BY <3>1, ResultFields
      <3>3. Abandon(x) = x
        <4> DEFINE z == 0
                   e == x.corruption_events + (IF x.free_head = 0 THEN 0 ELSE 1)
        <4>1. x.free_head = z /\ x.corruption_events = e
          BY <1>0, <1>3, RecordFields
        <4>2. Abandon(x) = [x EXCEPT !.free_head = z, !.corruption_events = e]
          BY <1>0 DEF Abandon, SlabRecord
        <4> HIDE DEF z, e
        <4> QED BY <1>0, <4>1, <4>2 DEF SlabRecord
      <3>4. Sound(a.slab, own)
        BY <3>2, <3>3
      <3> QED BY <3>4 DEF a
    <2> QED BY <2>2, <2>3
  <1> QED BY <1>1, <1>2, <1>3

(* Both attempts of allocate: the slot goes to the caller. *)
LEMMA AllocateBodyPlaces ==
  ASSUME IndInv, Clerk, PlaceInv, AllocateBody
  PROVE  PlaceInv'
  <1> DEFINE f == call.fits
             a == Allocate(slab, f)
  <1>0. f \in BOOLEAN
    BY DEF IndInv, TypeOK, Call
  <1>1. /\ slab' = a.slab
        /\ a.slot # NoSlot => owned' = owned \cup {a.slot}
        /\ a.slot = NoSlot => owned' = owned
        /\ call' = Idle \/ call' = [call EXCEPT !.op = "retry"]
        /\ UNCHANGED <<forfeited, away, rslot, queue, pending>>
    BY DEF AllocateBody, remote
  <1>2. call.slot = NoSlot /\ call'.slot = NoSlot
    <2>1. call.slot = NoSlot
      BY DEF AllocateBody, Clerk
    <2> QED BY <1>1, <2>1 DEF IndInv, TypeOK, Call, Idle
  <1>3. CASE a.slot = NoSlot
    <2>1. Sound(a.slab, Own)
      BY <1>0, <1>3, AllocateMiss DEF PlaceInv
    <2> HIDE DEF a
    <2>2. \A s \in Slots : \A k : At(s, k)' <=> At(s, k)
      BY <1>1, <1>2, <1>3 DEF At
    <2>3. \A s \in Slots : Out(s)' <=> Out(s)
      BY <2>2 DEF Out
    <2>4. Own' = Own
      BY <2>3 DEF Own
    <2>5. OnePlaceOut'
      BY <2>2 DEF PlaceInv, OnePlaceOut
    <2> QED BY <1>1, <2>1, <2>4, <2>5 DEF PlaceInv
  <1>4. CASE a.slot # NoSlot
    <2>1. a = Allocate(slab, TRUE)
      BY <1>0, <1>4, AllocateUnfit
    <2>2. /\ Allocate(slab, TRUE).slot # NoSlot =>
               /\ Allocate(slab, TRUE).slot \in Slots
               /\ Own[Allocate(slab, TRUE).slot] = 0
               /\ Sound(Allocate(slab, TRUE).slab, [Own EXCEPT ![Allocate(slab, TRUE).slot] = 1])
      BY AllocateSound DEF PlaceInv
    <2> HIDE DEF a
    <2>3. a.slot \in Slots /\ Own[a.slot] = 0 /\ Sound(a.slab, [Own EXCEPT ![a.slot] = 1])
      BY <1>4, <2>1, <2>2
    <2>4. PICK t \in Slots : t = a.slot
      BY <2>3
    <2>5. \A s \in Slots \ {t} : \A k : At(s, k)' <=> At(s, k)
      BY <1>1, <1>2, <1>4, <2>4 DEF At
    <2>6. \A k : At(t, k)' <=> k = <<"owned", 0>> \/ At(t, k)
      BY <1>1, <1>2, <1>4, <2>4, SlotRange DEF At
    <2>7. Own[t] = 0 /\ Sound(slab', [Own EXCEPT ![t] = 1])
      BY <1>1, <2>3, <2>4
    <2> QED BY <2>5, <2>6, <2>7, TakenOut
  <1> QED BY <1>3, <1>4

LEMMA InitPlaces == Init => Clerk /\ PlaceInv
  <1> SUFFICES ASSUME Init PROVE Clerk /\ PlaceInv
    OBVIOUS
  <1>1. Clerk
    BY DEF Init, Clerk, Idle
  <1>2. /\ owned = {} /\ forfeited = {} /\ call.slot = NoSlot
        /\ \A r \in Remotes : away[r] = {} /\ rslot[r] = NoSlot
        /\ DOMAIN queue = {} /\ DOMAIN pending = {}
    BY DEF Init, Idle
  <1>3. \A s \in Slots : \A k : ~At(s, k)
    BY <1>2, SlotRange DEF At
  <1>4. Own = Nobody
    BY <1>3 DEF Own, Out, Nobody
  <1>5. slab = NewSlab(FALSE, 0)
    BY DEF Init
  <1>6. OnePlaceOut
    BY <1>3 DEF OnePlaceOut
  <1> QED BY <1>1, <1>4, <1>5, <1>6, NewSlabSound DEF PlaceInv

LEMMA PlacesStep ==
  ASSUME IndInv, Clerk, PlaceInv, [Next]_vars
  PROVE  PlaceInv'
  <1>1. CASE \/ \E fits \in BOOLEAN : StartAllocate(fits)
             \/ StartDrain \/ StartDrop
    <2>1. UNCHANGED <<slab, owned, forfeited, away, rslot, queue, pending>>
          /\ opc = "idle" /\ call'.slot = NoSlot
      BY <1>1 DEF StartAllocate, StartDrain, StartDrop, OwnerCalls, inner, remote
    <2> QED BY <2>1, QuietPlaces DEF Clerk
  <1>2. CASE MaybeDrainLoad \/ MaybeDrainTryLock \/ OwnerLock \/ DropClose
    <2>1. UNCHANGED <<slab, owned, forfeited, away, rslot, queue, pending>> /\ call' = call
      BY <1>2 DEF MaybeDrainLoad, MaybeDrainTryLock, OwnerLock, DropClose, inner, remote,
                  callers
    <2> QED BY <2>1, QuietPlaces
  <1>3. CASE \E r \in Remotes : RemoteLock(r) \/ RemoteStore(r)
    <2>1. UNCHANGED <<slab, owned, forfeited, away, rslot, queue, pending>> /\ call' = call
      BY <1>3 DEF RemoteLock, RemoteStore, owner, callers
    <2> QED BY <2>1, QuietPlaces
  <1>4. CASE UNCHANGED vars
    <2>1. UNCHANGED <<slab, owned, forfeited, away, rslot, queue, pending>> /\ call' = call
      BY <1>4 DEF vars, inner, owner, remote, callers
    <2> QED BY <2>1, QuietPlaces
  <1> QED BY <1>1, <1>2, <1>3, <1>4, StartDeallocatePlaces, TakeQueuePlaces,
             ProcessEntryPlaces, AllocateBodyPlaces, DeallocateBodyPlaces, StartRemotePlaces,
             RemoteRefusedPlaces, RemotePushPlaces, RemoteRecheckPlaces, HandOverPlaces,
             HandBackPlaces
          DEF Next, OwnerStep, RemoteStep

(* At every moment each slot is in exactly one place: never carved, on the *)
(* free list, with one caller, in one call that returns it, once in the    *)
(* queue or once in the drained batch; for any number of remotes, any      *)
(* queue and any interleaving of frees, drains and drop.                   *)
THEOREM SlotsAreInOnePlace == Spec => []ExactlyOnePlace
  <1>1. IndInv /\ Clerk /\ PlaceInv /\ [Next]_vars => Clerk' /\ PlaceInv'
    BY ClerkStep, PlacesStep
  <1>2. IndInv /\ PlaceInv => ExactlyOnePlace
    <2> SUFFICES ASSUME IndInv, PlaceInv, NEW s \in Slots
                 PROVE  Cardinality(Places(s)) = 1
      BY DEF ExactlyOnePlace
    <2>0. slab \in SlabValue
      BY DEF IndInv, SlabShape
    <2>1. PICK p \in [Slots -> Nat] : Chain(slab, Own, p)
      BY DEF PlaceInv, Sound
    <2>2. FreeSlots(slab) = {u \in Slots : p[u] > 0}
      <3>1. slab.free_head \in 0 .. Capacity /\ \A u \in Slots : slab.mem[u].next_idx \in Nat
        BY <2>0, SlabFields, CapacityAssumption
      <3>2. Linked(slab, p)
        BY <2>1 DEF Chain
      <3> QED BY <3>1, <3>2, FreeSlotsAreLinked
    <2>3. s \in FreeSlots(slab) <=> s < slab.next_uncarved /\ ~Out(s)
      BY <2>1, <2>2, OwnValue DEF Chain
    <2>4. Out(s) => s < slab.next_uncarved
      BY OwnValue DEF PlaceInv, Sound
    <2>5. s >= slab.next_uncarved <=> ~(s < slab.next_uncarved)
      BY <2>0, SlabFields, SlotRange
    <2>6. \A k : k \in Places(s) <=>
                  \/ k = <<"uncarved", 0>> /\ s >= slab.next_uncarved
                  \/ k = <<"free", 0>> /\ s \in FreeSlots(slab)
                  \/ At(s, k)
      BY DEF Places, At
    <2>7. \E k : Places(s) = {k}
      <3>1. CASE ~(s < slab.next_uncarved)
        <4>1. \A k : k \in Places(s) <=> k = <<"uncarved", 0>>
          BY <2>3, <2>4, <2>5, <2>6, <3>1 DEF Out
        <4>2. Places(s) = {<<"uncarved", 0>>}
          BY <4>1
        <4> QED BY <4>2
      <3>2. CASE s < slab.next_uncarved /\ ~Out(s)
        <4>1. \A k : k \in Places(s) <=> k = <<"free", 0>>
          BY <2>3, <2>5, <2>6, <3>2 DEF Out
        <4>2. Places(s) = {<<"free", 0>>}
          BY <4>1
        <4> QED BY <4>2
      <3>3. CASE s < slab.next_uncarved /\ Out(s)
        <4>1. PICK l : At(s, l)
          BY <3>3 DEF Out
        <4>2. \A k : At(s, k) => k = l
          BY <4>1 DEF PlaceInv, OnePlaceOut
        <4>3. \A k : k \in Places(s) <=> k = l
          BY <2>3, <2>5, <2>6, <3>3, <4>1, <4>2
        <4>4. Places(s) = {l}
          BY <4>3
        <4> QED BY <4>4
      <3> QED BY <3>1, <3>2, <3>3
    <2> QED BY <2>7, FS_Singleton
  <1> QED BY <1>1, <1>2, InitPlaces, Invariance, PTL DEF Spec
=============================================================================
