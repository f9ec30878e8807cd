------------------------ MODULE PoolControllerProofs ------------------------
(***************************************************************************)
(* Theorems about PoolController, for any addresses, faults and bounds,    *)
(* with and without the webhooks.                                          *)
(***************************************************************************)
EXTENDS PoolInvariant, EventLemmas, FiniteSetTheorems, TLAPS

PoolOrNone == PoolObjects \cup {None}

(* What the operators on a pool in memory keep of it. *)

\* n is a pool that differs from m in its status only.
StatusOf(n, m) == n \in PoolObjects /\ SameMeta(n, m)

\* n lists the same addresses besides.
SameList(n, m) == StatusOf(n, m) /\ n.status.allocations = m.status.allocations

\* Replacing the status gives a pool that differs in its status.
LEMMA StatusReplaced ==
  ASSUME NEW m \in PoolObjects, NEW s \in StatusObjects
  PROVE  /\ StatusOf([m EXCEPT !.status = s], m)
         /\ [m EXCEPT !.status = s].status = s
  BY DEF PoolObjects, StatusOf, SameMeta

\* A new pool lists nothing.
LEMMA NewPoolType ==
  ASSUME NEW uid \in Nat
  PROVE  NewPool(uid) \in PoolObjects /\ NewPool(uid).status.allocations = {}
  <1>1. NoConditions \in [Conditions -> {"Unknown", "True", "False"}]
    BY DEF NoConditions
  <1>2. NewStatus \in StatusObjects /\ NewStatus.allocations = {}
    BY <1>1 DEF NewStatus, StatusObjects, Unset
  <1> QED
    BY <1>2 DEF NewPool, PoolObjects

\* Conditions are set in a status that keeps its list.
LEMMA ConditionsReplaced ==
  ASSUME NEW m \in PoolObjects, NEW c \in [Conditions -> {"Unknown", "True", "False"}]
  PROVE  SameList([m EXCEPT !.status.conditions = c], m)
  <1> DEFINE s == [m.status EXCEPT !.conditions = c]
  <1>1. m.status \in StatusObjects
    BY DEF PoolObjects
  <1>2. s \in StatusObjects /\ s.allocations = m.status.allocations
    BY <1>1 DEF StatusObjects
  <1>3. [m EXCEPT !.status.conditions = c] = [m EXCEPT !.status = s]
    BY DEF PoolObjects
  <1> HIDE DEF s
  <1> QED
    BY <1>2, <1>3, StatusReplaced DEF SameList

\* SetCondition and updateSyncCondition keep the list.
LEMMA ConditionSet ==
  ASSUME NEW m \in PoolObjects, NEW t \in Conditions, NEW v \in {"Unknown", "True", "False"}
  PROVE  SameList([m EXCEPT !.status.conditions[t] = v], m)
  <1> DEFINE c == [m.status.conditions EXCEPT ![t] = v]
  <1>1. m.status.conditions \in [Conditions -> {"Unknown", "True", "False"}]
    BY DEF PoolObjects, StatusObjects
  <1>2. c \in [Conditions -> {"Unknown", "True", "False"}]
    BY <1>1
  <1>3. [m EXCEPT !.status.conditions[t] = v] = [m EXCEPT !.status.conditions = c]
    BY DEF PoolObjects, StatusObjects
  <1> HIDE DEF c
  <1> QED
    BY <1>2, <1>3, ConditionsReplaced

\* So does what the instance of each condition is set to.
LEMMA MemoryKept ==
  ASSUME NEW m \in PoolObjects
  PROVE  /\ SameList(SetCondition(m, "NetworkDiscovered", "False"), m)
         /\ SameList(Synced(m), m)
         /\ SameList(WithConditions(m), m)
         /\ SameList([m EXCEPT !.status.discovered = TRUE], m)
  <1>1. SameList(SetCondition(m, "NetworkDiscovered", "False"), m)
    BY ConditionSet DEF SetCondition, Conditions
  <1>2. SameList(Synced(m), m)
    BY ConditionSet DEF Synced, Conditions
  <1>3. SameList(WithConditions(m), m)
    <2> DEFINE healthy == IF m.status.conditions["NetworkSynced"] = "False"
                          THEN "False" ELSE "True"
               exhausted == IF Utilization(m.status) >= 90 THEN "True" ELSE "False"
               c == [m.status.conditions EXCEPT !["Ready"] = "True",
                       !["Healthy"] = healthy, !["Exhausted"] = exhausted]
    <2>1. healthy \in {"True", "False"} /\ exhausted \in {"True", "False"}
      OBVIOUS
    <2>2. WithConditions(m) = [m EXCEPT !.status.conditions = c]
      BY DEF WithConditions
    <2> HIDE DEF healthy, exhausted
    <2>3. m.status.conditions \in [Conditions -> {"Unknown", "True", "False"}]
      BY DEF PoolObjects, StatusObjects
    <2>4. c \in [Conditions -> {"Unknown", "True", "False"}]
      BY <2>1, <2>3
    <2> HIDE DEF c
    <2> QED
      BY <2>2, <2>4, ConditionsReplaced
  <1>4. SameList([m EXCEPT !.status.discovered = TRUE], m)
    <2> DEFINE s == [m.status EXCEPT !.discovered = TRUE]
    <2>1. s \in StatusObjects /\ s.allocations = m.status.allocations
      BY DEF PoolObjects, StatusObjects
    <2>2. [m EXCEPT !.status.discovered = TRUE] = [m EXCEPT !.status = s]
      BY DEF PoolObjects
    <2> HIDE DEF s
    <2> QED
      BY <2>1, <2>2, StatusReplaced DEF SameList
  <1> QED
    BY <1>1, <1>2, <1>3, <1>4

\* updatePoolStatus lists the addresses it is given.
LEMMA ComputedKept ==
  ASSUME NEW m \in PoolObjects, NEW S \in SUBSET Addresses
  PROVE  StatusOf(Computed(m, S), m) /\ Computed(m, S).status.allocations = S
  <1> DEFINE used == Cardinality(S \ Outside)
             s == [m.status EXCEPT !.used = used, !.allocations = S]
  <1>1. used \in Nat
    BY FS_Subset, FS_CardinalityType, PoolAssumption DEF PoolAssumption
  <1> HIDE DEF used
  <1>2. s \in StatusObjects /\ s.allocations = S
    <2> DEFINE r == [m.status EXCEPT !.used = used]
    <2>1. r \in StatusObjects
      BY <1>1 DEF PoolObjects, StatusObjects
    <2>2. s = [r EXCEPT !.allocations = S]
      OBVIOUS
    <2> HIDE DEF r, s
    <2> QED
      BY <2>1, <2>2 DEF StatusObjects
  <1>3. Computed(m, S) = [m EXCEPT !.status = s]
    BY DEF Computed, PoolObjects, used
  <1> HIDE DEF s
  <1> QED
    BY <1>2, <1>3, StatusReplaced

\* Merge lists what either of the two lists.
LEMMA MergeType ==
  ASSUME NEW s \in StatusObjects, NEW t \in StatusObjects
  PROVE  /\ Merge(s, t) \in StatusObjects
         /\ Merge(s, t).allocations = s.allocations \cup t.allocations
  BY DEF Merge, StatusObjects

\* Each write of a pool keeps either its metadata or its status.
LEMMA WrittenKept ==
  ASSUME job \in Jobs, NEW m \in PoolObjects
  PROVE  /\ StatusOf(StatusWrite(m), job.base) /\ StatusWrite(m).status = m.status
         /\ StatusOf(MetaWrite(m), m) /\ MetaWrite(m).status = job.base.status
  <1>1. job.base \in PoolObjects
    BY DEF Jobs
  <1>2. m.status \in StatusObjects /\ job.base.status \in StatusObjects
    BY <1>1 DEF PoolObjects
  <1> QED
    BY <1>1, <1>2, StatusReplaced DEF StatusWrite, MetaWrite

-----------------------------------------------------------------------------
(* What the steps of a reconcile do. *)

\* The write of obj took effect, or nothing was written.
Stored(obj) == pool = job.base /\ SetPool(obj)
NotStored   == UNCHANGED poolVars
MayStore(obj) == Stored(obj) \/ NotStored

Protected == [MetaWrite(job.pool) EXCEPT !.fin = TRUE]

\* Discover goes on with a discovered pool, or reports that there is no network.
LEMMA DiscoverCases ==
  ASSUME Discover
  PROVE  \/ /\ NotStored /\ pc' = "sync" /\ UNCHANGED <<queued, timers>>
            /\ job' = [job EXCEPT !.pool.status.discovered = TRUE]
         \/ /\ MayStore(StatusWrite(SetCondition(job.pool, "NetworkDiscovered", "False")))
            /\ RequeueAfter("retry") \/ Failed
  BY DEF Discover, Write, MayStore, Stored, NotStored

\* SyncWithUnifi goes on, with the status it stored or the version it had.
LEMMA SyncCases ==
  ASSUME SyncWithUnifi
  PROVE  \/ /\ Stored(StatusWrite(Synced(job.pool)))
            /\ Proceed(Synced(job.pool), StatusWrite(Synced(job.pool)))
         \/ MayStore(StatusWrite(Synced(job.pool))) /\ Proceed(Synced(job.pool), job.base)
         \/ NotStored /\ Proceed(job.pool, job.base)
  BY DEF SyncWithUnifi, Write, MayStore, Stored, NotStored

\* AddFinalizer goes on with what the server replied, or fails.
LEMMA AddFinalizerCases ==
  ASSUME AddFinalizer
  PROVE  \/ /\ Stored(Protected) /\ pc' = "writeStatus" /\ UNCHANGED <<queued, timers>>
            /\ job' = [job EXCEPT
                 !.base = Protected,
                 !.pool = [Protected EXCEPT !.status = Merge(job.pool.status, @)]]
         \/ MayStore(Protected) /\ Failed
  BY DEF AddFinalizer, Update, Write, MayStore, Stored, NotStored, Protected

\* WriteStatus goes on from the version it wrote, or fails.
LEMMA WriteStatusCases ==
  ASSUME WriteStatus
  PROVE  \/ /\ Stored(StatusWrite(job.pool)) /\ pc' = "writeConditions"
            /\ job' = [job EXCEPT !.base = StatusWrite(job.pool)]
            /\ UNCHANGED <<queued, timers>>
         \/ MayStore(StatusWrite(job.pool)) /\ Failed
  BY DEF WriteStatus, Write, MayStore, Stored, NotStored

\* WriteConditions ends the reconcile.
LEMMA WriteConditionsCases ==
  ASSUME WriteConditions
  PROVE  /\ MayStore(StatusWrite(WithConditions(job.pool)))
         /\ RequeueAfter("resync") \/ Failed
  BY DEF WriteConditions, Write, MayStore, Stored, NotStored

\* So does RemoveFinalizer.
LEMMA RemoveFinalizerCases ==
  ASSUME RemoveFinalizer
  PROVE  /\ MayStore(Unprotected(MetaWrite(job.pool)))
         /\ Done \/ Failed
  BY DEF RemoveFinalizer, Update, Write, MayStore, Stored, NotStored

\* A step leaves the addresses, the caches and the world alone, and counts the
\* fault it meets.
LEMMA StepFrame ==
  ASSUME TypeOK, Step
  PROVE  /\ UNCHANGED <<addrVars, cacheVars, worldVars>>
         /\ faults' \in Nat
         /\ job \in Jobs /\ pc # "idle"
  <1> USE DEF Step, Discover, SyncWithUnifi, AddFinalizer, WriteStatus, WriteConditions,
              RemoveFinalizer
  <1>1. UNCHANGED <<addrVars, cacheVars, worldVars>>
    OBVIOUS
  <1>2. faults' \in Nat
    BY DEF TypeOK, Update, Write, Fault
  <1>3. job \in Jobs /\ pc # "idle"
    BY DEF TypeOK
  <1> QED
    BY <1>1, <1>2, <1>3

-----------------------------------------------------------------------------
(* TypeOK is inductive. *)

PoolTypeOK == pool \in PoolOrNone /\ poolEvents \in Seq(PoolOrNone)

WorkerTypeOK ==
  /\ queued \in BOOLEAN
  /\ timers \subseteq {"retry", "resync"}
  /\ \/ pc = "idle" /\ job = None
     \/ /\ pc \in {"discover", "sync", "addFinalizer", "writeStatus",
                   "writeConditions", "removeFinalizer"}
        /\ job \in Jobs

\* The parts of the type invariant that a step of a reconcile can disturb.
LEMMA TypeParts ==
  ASSUME TypeOK
  PROVE  PoolTypeOK /\ WorkerTypeOK
  BY DEF TypeOK, PoolTypeOK, WorkerTypeOK, PoolOrNone

\* A write of the pool keeps the types.
LEMMA SetPoolType ==
  ASSUME PoolTypeOK, NEW obj \in PoolOrNone, SetPool(obj) \/ UNCHANGED poolVars
  PROVE  PoolTypeOK'
  BY DEF PoolTypeOK, SetPool, poolVars

\* What a reconcile may hold next has a type.
LEMMA JobTypes ==
  ASSUME job \in Jobs
  PROVE  /\ StatusWrite(SetCondition(job.pool, "NetworkDiscovered", "False")) \in PoolObjects
         /\ StatusWrite(Synced(job.pool)) \in PoolObjects
         /\ StatusWrite(job.pool) \in PoolObjects
         /\ StatusWrite(WithConditions(job.pool)) \in PoolObjects
         /\ Protected \in PoolObjects /\ Protected.status = job.base.status
         /\ [Protected EXCEPT !.status = Merge(job.pool.status, @)] \in PoolObjects
         /\ Unprotected(MetaWrite(job.pool)) \in PoolOrNone
         /\ Synced(job.pool) \in PoolObjects
         /\ job.pool \in PoolObjects /\ job.base \in PoolObjects
  <1>1. job.pool \in PoolObjects /\ job.base \in PoolObjects
    BY DEF Jobs
  <1>2. /\ SetCondition(job.pool, "NetworkDiscovered", "False") \in PoolObjects
        /\ Synced(job.pool) \in PoolObjects
        /\ WithConditions(job.pool) \in PoolObjects
    BY <1>1, MemoryKept DEF SameList, StatusOf
  <1>3. \A m \in PoolObjects : StatusWrite(m) \in PoolObjects /\ MetaWrite(m) \in PoolObjects
    BY WrittenKept DEF StatusOf
  <1>4. \A m \in PoolObjects, b \in BOOLEAN :
          [m EXCEPT !.fin = b] \in PoolObjects /\ [m EXCEPT !.fin = b].status = m.status
    BY DEF PoolObjects
  <1>5. Protected \in PoolObjects /\ Protected.status = job.base.status
    BY <1>1, <1>3, <1>4, WrittenKept DEF Protected
  <1>6. [Protected EXCEPT !.status = Merge(job.pool.status, @)] \in PoolObjects
    <2>1. Merge(job.pool.status, Protected.status) \in StatusObjects
      BY <1>1, <1>5, MergeType DEF PoolObjects
    <2> QED
      BY <1>5, <2>1, StatusReplaced DEF StatusOf
  <1>7. Unprotected(MetaWrite(job.pool)) \in PoolOrNone
    BY <1>1, <1>3, <1>4 DEF Unprotected, PoolOrNone
  <1> QED
    BY <1>1, <1>2, <1>3, <1>5, <1>6, <1>7

\* How a reconcile ends keeps the types.
LEMMA FinishType ==
  ASSUME TypeOK, Failed \/ Done \/ RequeueAfter("retry") \/ RequeueAfter("resync")
  PROVE  WorkerTypeOK'
  BY DEF TypeOK, WorkerTypeOK, Failed, Done, RequeueAfter, Finish

\* So does how it goes on.
LEMMA ProceedType ==
  ASSUME TypeOK, NEW m \in PoolObjects, NEW b \in PoolObjects, Proceed(m, b)
  PROVE  WorkerTypeOK'
  <1>1. addrCache \in SUBSET Addresses
    BY DEF TypeOK
  <1>2. Computed(m, addrCache) \in PoolObjects
    BY <1>1, ComputedKept DEF StatusOf
  <1>3. job' \in Jobs /\ pc' \in {"addFinalizer", "writeStatus"}
    BY <1>2 DEF Proceed, Jobs
  <1> QED
    BY <1>3 DEF TypeOK, WorkerTypeOK, Proceed

\* A step of a reconcile keeps the types: one step for each call.
LEMMA StepParts ==
  ASSUME TypeOK, Step
  PROVE  PoolTypeOK' /\ WorkerTypeOK'
  <1>1. PoolTypeOK /\ job \in Jobs /\ job.pool \in PoolObjects /\ job.base \in PoolObjects
    BY TypeParts, StepFrame DEF Jobs
  <1> USE <1>1, TypeParts DEF MayStore, Stored, NotStored
  <1>2. CASE Discover
    <2>1. [job EXCEPT !.pool.status.discovered = TRUE] \in Jobs
      <3>1. [job.pool EXCEPT !.status.discovered = TRUE] \in PoolObjects
        BY MemoryKept DEF SameList, StatusOf
      <3>2. [job EXCEPT !.pool.status.discovered = TRUE] =
              [job EXCEPT !.pool = [job.pool EXCEPT !.status.discovered = TRUE]]
        BY DEF Jobs
      <3> HIDE DEF Stored
      <3> QED
        BY <3>1, <3>2 DEF Jobs
    <2>2. PoolTypeOK'
      BY <1>2, DiscoverCases, JobTypes, SetPoolType DEF PoolOrNone
    <2>3. WorkerTypeOK'
      BY <1>2, <2>1, DiscoverCases, FinishType DEF WorkerTypeOK
    <2> QED
      BY <2>2, <2>3
  <1>3. CASE SyncWithUnifi
    <2>1. PoolTypeOK'
      BY <1>3, SyncCases, JobTypes, SetPoolType DEF PoolOrNone
    <2>2. WorkerTypeOK'
      BY <1>3, SyncCases, JobTypes, ProceedType
    <2> QED
      BY <2>1, <2>2
  <1>4. CASE AddFinalizer
    <2>1. PoolTypeOK'
      BY <1>4, AddFinalizerCases, JobTypes, SetPoolType DEF PoolOrNone
    <2> DEFINE merged == [Protected EXCEPT !.status = Merge(job.pool.status, @)]
    <2>2. [job EXCEPT !.base = Protected, !.pool = merged] \in Jobs
      <3>1. merged \in PoolObjects /\ Protected \in PoolObjects
        BY JobTypes
      <3> DEFINE moved == [job EXCEPT !.base = Protected]
      <3> HIDE DEF merged
      <3>2. moved \in Jobs
        BY <3>1 DEF Jobs
      <3>3. [job EXCEPT !.base = Protected, !.pool = merged] = [moved EXCEPT !.pool = merged]
        OBVIOUS
      <3> HIDE DEF moved
      <3> QED
        BY <3>1, <3>2, <3>3 DEF Jobs
    <2> HIDE DEF merged
    <2>3. WorkerTypeOK'
      BY <1>4, <2>2, AddFinalizerCases, FinishType DEF WorkerTypeOK, merged
    <2> QED
      BY <2>1, <2>3
  <1>5. CASE WriteStatus
    <2>1. PoolTypeOK'
      BY <1>5, WriteStatusCases, JobTypes, SetPoolType DEF PoolOrNone
    <2>2. [job EXCEPT !.base = StatusWrite(job.pool)] \in Jobs
      BY JobTypes DEF Jobs
    <2>3. WorkerTypeOK'
      BY <1>5, <2>2, WriteStatusCases, FinishType DEF WorkerTypeOK
    <2> QED
      BY <2>1, <2>3
  <1>6. CASE WriteConditions
    BY <1>6, WriteConditionsCases, JobTypes, SetPoolType, FinishType DEF PoolOrNone
  <1>7. CASE RemoveFinalizer
    BY <1>7, RemoveFinalizerCases, JobTypes, SetPoolType, FinishType
  <1> QED
    BY <1>2, <1>3, <1>4, <1>5, <1>6, <1>7 DEF Step

\* A step of a reconcile keeps the types.
LEMMA StepType ==
  ASSUME TypeOK, Step
  PROVE  TypeOK'
  <1>1. PoolTypeOK' /\ WorkerTypeOK'
    BY StepParts
  <1>2. UNCHANGED <<addrVars, cacheVars, worldVars>> /\ faults' \in Nat
    BY StepFrame
  <1> QED
    BY <1>1, <1>2
       DEF TypeOK, PoolTypeOK, WorkerTypeOK, PoolOrNone, addrVars, cacheVars, worldVars

\* A reconcile starts with the pool that the cache shows.
LEMMA ReconcileCases ==
  ASSUME Reconcile
  PROVE  /\ UNCHANGED <<poolVars, addrVars, cacheVars, worldVars, faults>>
         /\ \/ UNCHANGED <<pc, job>>
            \/ /\ pc' = Route(poolCache)
               /\ Route(poolCache) \in {"discover", "sync", "removeFinalizer"}
               /\ job' = [pool |-> poolCache, base |-> poolCache]
  BY DEF Reconcile, Route, DeletionRoute, workerVars

\* Reconcile keeps the types.
LEMMA ReconcileType ==
  ASSUME TypeOK, Reconcile
  PROVE  TypeOK'
  <1>1. UNCHANGED <<poolVars, addrVars, cacheVars, worldVars, faults>>
    BY ReconcileCases
  <1>2. queued' \in BOOLEAN /\ timers' \subseteq {"retry", "resync"}
    BY DEF TypeOK, Reconcile, workerVars
  <1>3. \/ pc' = "idle" /\ job' = None
        \/ pc' \in {"discover", "sync", "removeFinalizer"} /\ job' \in Jobs
    <2>1. CASE UNCHANGED <<pc, job>>
      BY <2>1 DEF TypeOK, Reconcile
    <2>2. CASE /\ pc' = Route(poolCache)
               /\ Route(poolCache) \in {"discover", "sync", "removeFinalizer"}
               /\ job' = [pool |-> poolCache, base |-> poolCache]
      <3>1. poolCache \in PoolObjects
        BY <2>2 DEF Route, TypeOK
      <3> QED
        BY <2>2, <3>1 DEF Jobs
    <2> QED
      BY <2>1, <2>2, ReconcileCases
  <1> QED
    BY <1>1, <1>2, <1>3 DEF TypeOK, poolVars, addrVars, cacheVars, worldVars

AddressEvents == [name : created, exists : BOOLEAN]

\* What is on its way reaches the caches with its types.
LEMMA DeliveryType ==
  ASSUME TypeOK, Delivery
  PROVE  TypeOK'
  <1>1. CASE DeliverPoolEvent
    <2>1. poolEvents \in Seq(PoolObjects \cup {None}) /\ poolEvents # << >>
      BY <1>1 DEF TypeOK, DeliverPoolEvent
    <2>2. /\ poolCache' \in PoolObjects \cup {None}
          /\ poolEvents' \in Seq(PoolObjects \cup {None})
      BY <1>1, <2>1, FirstDelivered DEF DeliverPoolEvent
    <2> QED
      BY <1>1, <2>2 DEF TypeOK, DeliverPoolEvent, addrVars, worldVars
  <1>2. CASE DeliverAddressEvent
    <2>1. addrEvents \in Seq(AddressEvents) /\ addrEvents # << >>
      BY <1>2 DEF TypeOK, DeliverAddressEvent, AddressEvents
    <2>2. Head(addrEvents) \in AddressEvents /\ addrEvents' \in Seq(AddressEvents)
      BY <1>2, <2>1, FirstDelivered DEF DeliverAddressEvent
    <2>3. addrCache' \subseteq created
      BY <1>2, <2>2 DEF TypeOK, DeliverAddressEvent, AddressEvents
    <2> QED
      BY <1>2, <2>2, <2>3 DEF TypeOK, DeliverAddressEvent, AddressEvents, poolVars, worldVars
  <1>3. ASSUME NEW t \in timers, TimerFires(t)
        PROVE  TypeOK'
    BY <1>3 DEF TypeOK, TimerFires, poolVars, addrVars, cacheVars, worldVars
  <1> QED
    BY <1>1, <1>2, <1>3 DEF Delivery

\* The claim controller keeps the types; a created address is a new one.
LEMMA ClaimControllerType ==
  ASSUME TypeOK, ClaimController
  PROVE  TypeOK'
  <1> USE DEF poolVars, cacheVars, worldVars, workerVars
  <1>1. CASE CreateAddress
    <2> DEFINE Events == [name : created', exists : BOOLEAN]
               e == [name |-> allocating, exists |-> TRUE]
    <2>1. created' = created \cup {allocating} /\ allocating \in Addresses
      BY <1>1 DEF TypeOK, CreateAddress
    <2>2. addrEvents \in Seq(Events) /\ e \in Events
      <3>1. AddressEvents \subseteq Events
        BY <2>1 DEF AddressEvents
      <3>2. addrEvents \in Seq(AddressEvents)
        BY DEF TypeOK, AddressEvents
      <3>3. e \in Events
        BY <2>1
      <3> HIDE DEF Events
      <3> QED
        BY <3>1, <3>2, <3>3
    <2> HIDE DEF Events
    <2>3. addrEvents' \in Seq(Events)
      BY <1>1, <2>2 DEF CreateAddress
    <2> QED
      BY <1>1, <2>1, <2>3 DEF TypeOK, CreateAddress, Events
  <1>2. CASE GiveUp
    BY <1>2 DEF TypeOK, GiveUp
  <1>3. ASSUME NEW a \in Addresses, FetchPool(a)
        PROVE  TypeOK'
    BY <1>3 DEF TypeOK, FetchPool
  <1>4. ASSUME NEW a \in Addresses, UpdateAddress(a) \/ DeleteAddress(a)
        PROVE  TypeOK'
    <2>1. a \in created
      BY <1>4 DEF TypeOK, UpdateAddress, DeleteAddress
    <2>2. addrEvents \in Seq(AddressEvents)
      BY DEF TypeOK, AddressEvents
    <2>3. \A b \in BOOLEAN : [name |-> a, exists |-> b] \in AddressEvents
      BY <2>1 DEF AddressEvents
    <2>4. \A e \in AddressEvents : Append(addrEvents, e) \in Seq(AddressEvents)
      BY <2>2, EventAppended
    <2>5. addrEvents' \in Seq(AddressEvents)
      <3>1. \E b \in BOOLEAN : addrEvents' = Append(addrEvents, [name |-> a, exists |-> b])
        BY <1>4 DEF UpdateAddress, DeleteAddress
      <3> QED
        BY <2>3, <2>4, <3>1
    <2> QED
      BY <1>4, <2>5 DEF TypeOK, UpdateAddress, DeleteAddress, AddressEvents
  <1> QED
    BY <1>1, <1>2, <1>3, <1>4 DEF ClaimController

\* What the users do to the pool.
LEMMA UserCases ==
  ASSUME TypeOK, CreatePool \/ EditPool \/ RequestPoolDeletion
  PROVE  /\ UNCHANGED <<addrVars, cacheVars, instance, network, changes, workerVars, faults>>
         /\ pools' \in Nat
         /\ \/ pool = None /\ \E uid \in Nat : SetPool(NewPool(uid))
            \/ pool # None /\ SetPool([pool EXCEPT !.edit = @ + 1])
            \/ pool # None /\ pool.fin /\ SetPool([pool EXCEPT !.deleting = TRUE])
            \/ pool # None /\ ~pool.fin /\ SetPool(None)
  <1>1. CASE CreatePool
    BY <1>1 DEF TypeOK, CreatePool
  <1>2. CASE EditPool
    BY <1>2 DEF TypeOK, EditPool, worldVars
  <1>3. CASE RequestPoolDeletion
    BY <1>3 DEF TypeOK, RequestPoolDeletion, worldVars
  <1> QED
    BY <1>1, <1>2, <1>3

\* An edit and a request for deletion keep all but what they change.
LEMMA UserTypes ==
  ASSUME NEW obj \in PoolObjects
  PROVE  /\ [obj EXCEPT !.edit = @ + 1] \in PoolObjects
         /\ [obj EXCEPT !.edit = @ + 1].edit >= obj.edit
         /\ [obj EXCEPT !.edit = @ + 1].deleting = obj.deleting
         /\ [obj EXCEPT !.deleting = TRUE] \in PoolObjects
         /\ [obj EXCEPT !.deleting = TRUE].edit >= obj.edit
         /\ [obj EXCEPT !.deleting = TRUE].deleting
         /\ \A e \in {[obj EXCEPT !.edit = @ + 1], [obj EXCEPT !.deleting = TRUE]} :
              e.fin = obj.fin /\ e.status = obj.status
  <1>1. [obj EXCEPT !.edit = @ + 1] \in PoolObjects
    BY DEF PoolObjects
  <1>2. obj.edit \in Nat /\ [obj EXCEPT !.edit = @ + 1].edit = obj.edit + 1
    BY DEF PoolObjects
  <1>3. [obj EXCEPT !.edit = @ + 1].edit >= obj.edit
    BY <1>2
  <1>4. /\ [obj EXCEPT !.edit = @ + 1].deleting = obj.deleting
        /\ [obj EXCEPT !.edit = @ + 1].fin = obj.fin
        /\ [obj EXCEPT !.edit = @ + 1].status = obj.status
    BY DEF PoolObjects
  <1>5. /\ [obj EXCEPT !.deleting = TRUE] \in PoolObjects
        /\ [obj EXCEPT !.deleting = TRUE].edit = obj.edit
        /\ [obj EXCEPT !.deleting = TRUE].deleting
        /\ [obj EXCEPT !.deleting = TRUE].fin = obj.fin
        /\ [obj EXCEPT !.deleting = TRUE].status = obj.status
    BY DEF PoolObjects
  <1> QED
    BY <1>1, <1>2, <1>3, <1>4, <1>5

\* The users keep the types.
LEMMA UserType ==
  ASSUME TypeOK, CreatePool \/ EditPool \/ RequestPoolDeletion
  PROVE  TypeOK'
  <1>1. PICK obj \in PoolOrNone : SetPool(obj)
    <2>1. pool # None => pool \in PoolObjects
      BY DEF TypeOK
    <2> QED
      BY <2>1, UserCases, UserTypes, NewPoolType DEF PoolOrNone
  <1>2. PoolTypeOK'
    BY <1>1, TypeParts, SetPoolType
  <1> QED
    BY <1>2, UserCases DEF TypeOK, PoolTypeOK, PoolOrNone, addrVars, cacheVars, workerVars

\* A restart lists what exists; the world changes among its values.
LEMMA WorldType ==
  ASSUME TypeOK, InstanceChanges \/ NetworkChanges \/ Crash
  PROVE  TypeOK'
  <1>1. CASE Crash
    <2>1. /\ poolEvents' \in Seq(PoolObjects \cup {None})
          /\ addrEvents' \in Seq([name : created, exists : BOOLEAN])
      BY <1>1 DEF Crash
    <2> QED
      BY <1>1, <2>1 DEF TypeOK, Crash, Finish, Fault, worldVars
  <1>2. CASE InstanceChanges
    BY <1>2 DEF TypeOK, InstanceChanges, poolVars, addrVars, cacheVars, workerVars
  <1>3. CASE NetworkChanges
    BY <1>3 DEF TypeOK, NetworkChanges, poolVars, addrVars, cacheVars, workerVars
  <1> QED
    BY <1>1, <1>2, <1>3

\* Every step keeps the types.
LEMMA TypeStep ==
  ASSUME TypeOK, [Next]_vars
  PROVE  TypeOK'
  <1>1. CASE UNCHANGED vars
    BY <1>1 DEF TypeOK, vars
  <1> QED
    BY <1>1, ReconcileType, StepType, DeliveryType, ClaimControllerType, UserType, WorldType
       DEF Next, Worker, Environment

\* The initial states have their types.
LEMMA TypeInit == Init => TypeOK
  <1> SUFFICES ASSUME Init PROVE TypeOK
    OBVIOUS
  <1>1. /\ poolEvents \in Seq(PoolObjects \cup {None})
        /\ addrEvents \in Seq([name : created, exists : BOOLEAN])
    BY DEF Init
  <1> QED
    BY <1>1 DEF Init, TypeOK

\* The variables always have their types, and the worker holds a job exactly
\* while a reconcile runs.
THEOREM TypeCorrect == Spec => []TypeOK
  BY TypeInit, TypeStep, PTL DEF Spec

-----------------------------------------------------------------------------
(* PInv is inductive.  The steps of a reconcile, and the users, leave the   *)
(* addresses alone; all others leave alone the pool.                        *)

AddressesKept == UNCHANGED <<addrs, addrCache, addrEvents, created>>

\* With the addresses unchanged, a version of the pool is as sound as it was.
LEMMA SoundKept ==
  ASSUME AddressesKept
  PROVE  \A obj : /\ Sound(obj) => Sound(obj)'
                  /\ \A a : Seen(a) => Seen(a)'
  BY DEF AddressesKept, Sound, Seen

\* A write of a sound version leaves all of them sound.
LEMMA SetPoolSound ==
  ASSUME PInv, AddressesKept, NEW obj \in PoolOrNone, Sound(obj),
         SetPool(obj) \/ UNCHANGED poolVars, UNCHANGED poolCache
  PROVE  /\ RemovedIsGone'
         /\ (job # None => Sound(job.base))' => AllSound'
  <1>1. poolEvents \in Seq(PoolOrNone)
    BY DEF PInv, TypeOK, PoolOrNone
  <1>2. Sound(obj)' /\ Sound(pool)' /\ Sound(poolCache)'
    <2>1. pool' = obj \/ pool' = pool
      BY DEF SetPool, poolVars
    <2> QED
      BY <2>1 DEF PInv, AllSound, AddressesKept, Sound, Seen
  <1>3. \A i \in 1..Len(poolEvents') : Sound(poolEvents[i])'
    <2>1. CASE poolEvents' = poolEvents
      BY <2>1 DEF PInv, AllSound, AddressesKept, Sound, Seen
    <2>2. CASE poolEvents' = Append(poolEvents, obj)
      <3>1. ASSUME NEW i \in 1..Len(poolEvents')
            PROVE  poolEvents'[i] = obj \/ (i \in 1..Len(poolEvents) /\ poolEvents'[i] = poolEvents[i])
        BY <1>1, <2>2, EventAppended
      <3> QED
        BY <3>1 DEF PInv, AllSound, AddressesKept, Sound, Seen
    <2> QED
      BY <2>1, <2>2 DEF SetPool, poolVars
  <1>4. RemovedIsGone'
    BY DEF PInv, RemovedIsGone, AddressesKept
  <1> QED
    BY <1>2, <1>3, <1>4 DEF AllSound

\* What a reconcile works with: it lists addresses that the cache has shown.
LEMMA JobFacts ==
  ASSUME PInv, Step
  PROVE  /\ job \in Jobs /\ job # None
         /\ job.pool \in PoolObjects /\ job.base \in PoolObjects
         /\ Sound(job.base) /\ SameMeta(job.pool, job.base)
         /\ \A a \in job.pool.status.allocations : Seen(a)
         /\ AddressesKept /\ UNCHANGED poolCache
  <1>1. job \in Jobs /\ job # None
    BY StepFrame, NoPoolAssumption DEF PInv
  <1> QED
    BY <1>1, StepFrame
       DEF PInv, AllSound, JobFollowsBase, AddressesKept, Jobs, addrVars, cacheVars

\* A status that lists what the cache has shown is sound on a protected version.
LEMMA StatusWriteSound ==
  ASSUME PInv, Step, NEW m \in PoolObjects, SameMeta(m, job.pool),
         \A a \in m.status.allocations : Seen(a),
         m.status.allocations # {} => job.base.fin
  PROVE  /\ StatusWrite(m) \in PoolObjects
         /\ Sound(StatusWrite(m))
         /\ SameMeta(StatusWrite(m), job.base)
         /\ SameMeta(m, StatusWrite(m))
  <1>1. /\ StatusOf(StatusWrite(m), job.base)
        /\ StatusWrite(m).status = m.status
    BY JobFacts, WrittenKept
  <1> QED
    BY <1>1, JobFacts DEF StatusOf, SameMeta, Sound

\* The rest of the invariant, from the job that a step leaves.
JobSound ==
  job # None =>
    /\ Sound(job.base) /\ SameMeta(job.pool, job.base)
    /\ \A a \in job.pool.status.allocations : Seen(a)
    /\ pc # "addFinalizer" /\ job.pool.status.allocations # {} => job.base.fin
    /\ pc # "removeFinalizer"

\* An invariant from which the step ends, or goes on to another write, is kept.
LEMMA StepSound ==
  ASSUME PInv, Step, JobSound', NEW obj \in PoolOrNone, Sound(obj),
         SetPool(obj) \/ UNCHANGED poolVars
  PROVE  PInv'
  <1>1. TypeOK'
    BY StepType DEF PInv
  <1>2. AllSound' /\ RemovedIsGone'
    BY JobFacts, SetPoolSound DEF JobSound
  <1>3. JobFollowsBase' /\ LetGoIsUnused'
    BY <1>1, NoPoolAssumption DEF TypeOK, JobSound, JobFollowsBase, LetGoIsUnused
  <1> QED
    BY <1>1, <1>2, <1>3 DEF PInv

\* A reconcile that ends holds no job.
LEMMA EndSound ==
  ASSUME Failed \/ Done \/ RequeueAfter("retry") \/ RequeueAfter("resync")
  PROVE  JobSound'
  BY DEF JobSound, Failed, Done, RequeueAfter, Finish

\* A reconcile that goes on lists the cache; it goes to the finalizer first if
\* there is something to list and no finalizer.
LEMMA ProceedSound ==
  ASSUME PInv, Step, NEW m \in PoolObjects, NEW b \in PoolObjects,
         Sound(b), SameMeta(m, b), Proceed(m, b)
  PROVE  JobSound'
  <1>1. addrCache \in SUBSET Addresses /\ addrCache \subseteq created
    BY DEF PInv, TypeOK
  <1>2. /\ StatusOf(Computed(m, addrCache), m)
        /\ Computed(m, addrCache).status.allocations = addrCache
    BY <1>1, ComputedKept
  <1>3. job'.pool = Computed(m, addrCache) /\ job'.base = b
    BY DEF Proceed
  <1>4. Sound(b)' /\ \A a \in addrCache : Seen(a)'
    BY <1>1, JobFacts DEF AddressesKept, Sound, Seen
  <1>5. SameMeta(Computed(m, addrCache), b)
    BY <1>2 DEF StatusOf, SameMeta
  <1>6. pc' = IF addrCache # {} /\ ~m.fin THEN "addFinalizer" ELSE "writeStatus"
    BY DEF Proceed
  <1>7. b.fin = m.fin
    BY DEF SameMeta
  <1> QED
    BY <1>2, <1>3, <1>4, <1>5, <1>6, <1>7 DEF JobSound, SameMeta

\* Discover, SyncWithUnifi and the two writes of the status keep the invariant.
LEMMA StatusStepsInv ==
  ASSUME PInv, Discover \/ SyncWithUnifi \/ WriteStatus \/ WriteConditions
  PROVE  PInv'
  <1>1. Step
    BY DEF Step
  <1>2. /\ job \in Jobs /\ job.pool \in PoolObjects /\ job.base \in PoolObjects
        /\ Sound(job.base) /\ SameMeta(job.pool, job.base)
        /\ \A a \in job.pool.status.allocations : Seen(a)
        /\ AddressesKept
    BY <1>1, JobFacts
  <1>3. pc # "addFinalizer"
    BY DEF Discover, SyncWithUnifi, WriteStatus, WriteConditions
  <1>4. job.pool.status.allocations # {} => job.base.fin
    BY <1>1, <1>3, JobFacts DEF PInv, JobFollowsBase
  <1>5. ASSUME NEW m \in PoolObjects, SameList(m, job.pool)
        PROVE  /\ StatusWrite(m) \in PoolObjects /\ Sound(StatusWrite(m))
               /\ SameMeta(StatusWrite(m), job.base)
               /\ SameMeta(m, StatusWrite(m)) /\ SameMeta(m, job.base)
    <2>1. /\ SameMeta(m, job.pool)
          /\ \A a \in m.status.allocations : Seen(a)
          /\ m.status.allocations # {} => job.base.fin
      BY <1>2, <1>4, <1>5 DEF SameList, StatusOf
    <2> QED
      BY <1>1, <1>2, <2>1, StatusWriteSound DEF SameMeta
  <1>6. /\ SameList(SetCondition(job.pool, "NetworkDiscovered", "False"), job.pool)
        /\ SameList(Synced(job.pool), job.pool)
        /\ SameList(WithConditions(job.pool), job.pool)
        /\ SameList([job.pool EXCEPT !.status.discovered = TRUE], job.pool)
        /\ SameList(job.pool, job.pool)
    BY <1>2, MemoryKept DEF SameList, StatusOf, SameMeta
  <1>7. CASE Discover
    <2> DEFINE next == [job.pool EXCEPT !.status.discovered = TRUE]
               obj == StatusWrite(SetCondition(job.pool, "NetworkDiscovered", "False"))
    <2>1. CASE /\ NotStored /\ pc' = "sync" /\ UNCHANGED <<queued, timers>>
               /\ job' = [job EXCEPT !.pool.status.discovered = TRUE]
      <3>1. job'.pool = next /\ job'.base = job.base
        BY <1>2, <2>1 DEF Jobs
      <3>2. SameMeta(next, job.base) /\ next.status.allocations = job.pool.status.allocations
        BY <1>2, <1>6 DEF SameList, StatusOf, SameMeta
      <3>3. Sound(job.base)' /\ \A a \in job.pool.status.allocations : Seen(a)'
        BY <1>2, <3>1 DEF AddressesKept, Sound, Seen
      <3> HIDE DEF next
      <3>4. JobSound'
        BY <1>4, <2>1, <3>1, <3>2, <3>3 DEF JobSound
      <3> QED
        BY <1>1, <1>2, <2>1, <3>4, StepSound DEF NotStored, PoolOrNone
    <2>2. CASE MayStore(obj) /\ (RequeueAfter("retry") \/ Failed)
      <3>1. obj \in PoolObjects /\ Sound(obj)
        BY <1>5, <1>6 DEF SameList, StatusOf
      <3> HIDE DEF obj
      <3> QED
        BY <1>1, <2>2, <3>1, EndSound, StepSound DEF MayStore, Stored, NotStored, PoolOrNone
    <2> QED
      BY <1>7, <2>1, <2>2, DiscoverCases
  <1>8. CASE SyncWithUnifi
    <2> DEFINE mem == Synced(job.pool)
               obj == StatusWrite(mem)
    <2>1. /\ mem \in PoolObjects /\ obj \in PoolObjects /\ Sound(obj)
          /\ SameMeta(mem, obj) /\ SameMeta(mem, job.base)
      BY <1>5, <1>6 DEF SameList, StatusOf
    <2>2. /\ SetPool(obj) \/ UNCHANGED poolVars
          /\ \/ Proceed(mem, obj)
             \/ Proceed(mem, job.base)
             \/ Proceed(job.pool, job.base)
      BY <1>8, SyncCases DEF MayStore, Stored, NotStored
    <2> HIDE DEF mem, obj
    <2>3. JobSound'
      BY <1>1, <1>2, <2>1, <2>2, ProceedSound
    <2> QED
      BY <1>1, <2>1, <2>2, <2>3, StepSound DEF PoolOrNone
  <1>9. CASE WriteStatus
    <2>1. PICK obj : obj = StatusWrite(job.pool)
      OBVIOUS
    <2>2. /\ obj \in PoolObjects /\ Sound(obj)
          /\ SameMeta(job.pool, obj) /\ SameMeta(obj, job.base)
      BY <1>2, <1>5, <1>6, <2>1
    <2>3. SetPool(obj) \/ UNCHANGED poolVars
      BY <1>9, <2>1, WriteStatusCases DEF MayStore, Stored, NotStored
    <2>4. ASSUME pc' = "writeConditions", job' = [job EXCEPT !.base = obj]
          PROVE  JobSound'
      <3>1. job'.pool = job.pool /\ job'.base = obj
        BY <1>2, <2>4 DEF Jobs
      <3>2. Sound(obj)' /\ \A a \in job.pool.status.allocations : Seen(a)'
        BY <1>2, <2>2 DEF AddressesKept, Sound, Seen
      <3>3. job.pool.status.allocations # {} => obj.fin
        BY <1>4, <2>2 DEF SameMeta
      <3> QED
        BY <2>2, <2>4, <3>1, <3>2, <3>3 DEF JobSound, Sound
    <2>5. JobSound'
      BY <1>9, <2>1, <2>4, WriteStatusCases, EndSound
    <2> QED
      BY <1>1, <2>2, <2>3, <2>5, StepSound DEF PoolOrNone
  <1>10. CASE WriteConditions
    <2> DEFINE obj == StatusWrite(WithConditions(job.pool))
    <2>1. obj \in PoolObjects /\ Sound(obj)
      BY <1>5, <1>6 DEF SameList, StatusOf
    <2>2. /\ SetPool(obj) \/ UNCHANGED poolVars
          /\ JobSound'
      BY <1>10, WriteConditionsCases, EndSound DEF MayStore, Stored, NotStored
    <2> HIDE DEF obj
    <2> QED
      BY <1>1, <2>1, <2>2, StepSound DEF PoolOrNone
  <1> QED
    BY <1>7, <1>8, <1>9, <1>10

\* AddFinalizer keeps the invariant: the reply brings back what the server's
\* status lists, which the cache has shown too.
LEMMA AddFinalizerInv ==
  ASSUME PInv, AddFinalizer
  PROVE  PInv'
  <1>1. Step
    BY DEF Step
  <1>2. /\ job \in Jobs /\ job.pool \in PoolObjects /\ job.base \in PoolObjects
        /\ Sound(job.base) /\ SameMeta(job.pool, job.base)
        /\ \A a \in job.pool.status.allocations : Seen(a)
        /\ AddressesKept
    BY <1>1, JobFacts
  <1>3. PICK obj : obj = Protected
    OBVIOUS
  <1>4. PICK merged : merged = [obj EXCEPT !.status = Merge(job.pool.status, @)]
    OBVIOUS
  <1>5. obj \in PoolObjects /\ obj.status = job.base.status /\ obj.fin
    <2>1. MetaWrite(job.pool) \in PoolObjects
      BY <1>2, WrittenKept DEF StatusOf
    <2>2. obj.fin
      BY <1>3, <2>1 DEF Protected, PoolObjects
    <2> QED
      BY <1>2, <1>3, <2>2, JobTypes
  <1>6. Sound(obj) /\ \A a \in job.base.status.allocations : Seen(a)
    <2>1. job.base # None
      BY <1>2, NoPoolAssumption
    <2> QED
      BY <1>2, <1>5, <2>1 DEF Sound
  <1>7. /\ SameMeta(merged, obj)
        /\ merged.status.allocations = job.pool.status.allocations \cup job.base.status.allocations
    <2>1. /\ Merge(job.pool.status, obj.status) \in StatusObjects
          /\ Merge(job.pool.status, obj.status).allocations =
               job.pool.status.allocations \cup job.base.status.allocations
      BY <1>2, <1>5, MergeType DEF PoolObjects
    <2> QED
      BY <1>4, <1>5, <2>1, StatusReplaced DEF StatusOf
  <1>8. SetPool(obj) \/ UNCHANGED poolVars
    BY <1>3, AddFinalizerCases DEF MayStore, Stored, NotStored
  <1>9. ASSUME pc' = "writeStatus", job' = [job EXCEPT !.base = obj, !.pool = merged]
        PROVE  JobSound'
    <2>1. job'.base = obj /\ job'.pool = merged
      BY <1>2, <1>9 DEF Jobs
    <2>2. Sound(obj)' /\ \A a \in merged.status.allocations : Seen(a)'
      BY <1>2, <1>6, <1>7 DEF AddressesKept, Sound, Seen
    <2> QED
      BY <1>5, <1>7, <1>9, <2>1, <2>2 DEF JobSound, Sound
  <1>10. JobSound'
    BY <1>3, <1>4, <1>9, AddFinalizerCases, EndSound
  <1> QED
    BY <1>1, <1>5, <1>6, <1>8, <1>10, StepSound DEF PoolOrNone

\* RemoveFinalizer keeps the invariant: a pool that is being deleted goes.
LEMMA RemoveFinalizerInv ==
  ASSUME PInv, RemoveFinalizer
  PROVE  PInv'
  <1>1. Step
    BY DEF Step
  <1>2. job.pool.deleting
    BY <1>1, JobFacts DEF RemoveFinalizer, PInv, LetGoIsUnused, SameMeta
  <1>3. MetaWrite(job.pool).deleting
    BY <1>1, <1>2, JobFacts, WrittenKept DEF StatusOf, SameMeta
  <1>4. Unprotected(MetaWrite(job.pool)) = None
    BY <1>3 DEF Unprotected
  <1>5. SetPool(None) \/ UNCHANGED poolVars
    BY <1>4, RemoveFinalizerCases DEF MayStore, Stored, NotStored
  <1>6. JobSound'
    BY RemoveFinalizerCases, EndSound
  <1>7. Sound(None) /\ None \in PoolOrNone
    BY DEF Sound, PoolOrNone
  <1> QED
    BY <1>1, <1>5, <1>6, <1>7, StepSound

\* Reconcile keeps the invariant: when no address is cached, the pool lists no
\* address that exists.
LEMMA ReconcileInv ==
  ASSUME PInv, Reconcile
  PROVE  PInv'
  <1>1. UNCHANGED <<poolVars, addrVars, cacheVars>>
    BY ReconcileCases
  <1>2. TypeOK'
    BY ReconcileType DEF PInv
  <1> USE <1>1 DEF poolVars, addrVars, cacheVars, PInv
  <1>3. \A obj : Sound(obj) => Sound(obj)'
    BY DEF Sound, Seen
  <1>4. RemovedIsGone'
    BY DEF RemovedIsGone
  <1>5. CASE UNCHANGED <<pc, job>>
    BY <1>2, <1>4, <1>5 DEF AllSound, JobFollowsBase, LetGoIsUnused, Sound, Seen
  <1>6. CASE /\ pc' = Route(poolCache)
             /\ Route(poolCache) \in {"discover", "sync", "removeFinalizer"}
             /\ job' = [pool |-> poolCache, base |-> poolCache]
    <2>1. job'.pool = poolCache /\ job'.base = poolCache /\ poolCache # None
      BY <1>6 DEF Route
    <2>2. \A a \in poolCache.status.allocations : Seen(a)
      BY <2>1 DEF AllSound, Sound
    <2>3. AllSound'
      BY <2>1 DEF AllSound, Sound, Seen
    <2>4. JobFollowsBase'
      BY <2>1, <2>2 DEF JobFollowsBase, SameMeta, AllSound, Sound, Seen
    <2>5. LetGoIsUnused'
      <3>1. ASSUME Route(poolCache) = "removeFinalizer"
            PROVE  poolCache.deleting /\ addrCache = {}
        BY <3>1 DEF Route, DeletionRoute
      <3> QED
        BY <1>6, <2>1, <2>2, <3>1 DEF LetGoIsUnused, Seen
    <2> QED
      BY <1>2, <1>4, <2>3, <2>4, <2>5
  <1> QED
    BY <1>5, <1>6, ReconcileCases

\* What leaves the pool and the reconcile alone keeps the invariant, if it
\* brings no address back and hides none that exists.
LEMMA PoolKept ==
  ASSUME PInv, TypeOK', UNCHANGED <<pool, poolCache, poolEvents, pc, job>>,
         RemovedIsGone', \A a : Seen(a) => Seen(a)',
         \A a \in created : a \in addrs' => a \in addrs
  PROVE  PInv'
  <1>1. \A obj : Sound(obj) => Sound(obj)'
    BY DEF Sound
  <1>2. AllSound'
    BY <1>1 DEF PInv, AllSound, Sound
  <1>3. JobFollowsBase'
    BY DEF PInv, JobFollowsBase
  <1>4. LetGoIsUnused'
    <2>1. ASSUME pc = "removeFinalizer"
          PROVE  \A a \in job.base.status.allocations : a \in created
      BY <2>1, NoPoolAssumption DEF PInv, TypeOK, AllSound, Sound, Seen, Jobs
    <2> QED
      BY <2>1 DEF PInv, LetGoIsUnused
  <1> QED
    BY <1>2, <1>3, <1>4 DEF PInv

\* Steps that change nothing the invariant is about keep it.
LEMMA NothingKept ==
  ASSUME PInv, TypeOK', UNCHANGED <<pool, poolCache, poolEvents, pc, job>>, AddressesKept
  PROVE  PInv'
  <1>1. RemovedIsGone' /\ \A a : Seen(a) => Seen(a)'
    BY DEF PInv, RemovedIsGone, AddressesKept, Seen
  <1> QED
    BY <1>1, PoolKept DEF AddressesKept

\* Deliveries keep the invariant: the cache loses only an address that is gone.
LEMMA DeliveryInv ==
  ASSUME PInv, Delivery
  PROVE  PInv'
  <1>1. TypeOK'
    BY DeliveryType DEF PInv
  <1>2. CASE DeliverPoolEvent
    <2>1. poolEvents \in Seq(PoolOrNone) /\ poolEvents # << >>
      BY <1>2 DEF PInv, TypeOK, DeliverPoolEvent, PoolOrNone
    <2>2. /\ poolCache' = poolEvents[1] /\ 1 \in 1..Len(poolEvents)
          /\ \A i \in 1..Len(poolEvents') :
               i + 1 \in 1..Len(poolEvents) /\ poolEvents'[i] = poolEvents[i + 1]
      BY <1>2, <2>1, RestDelivered, FirstDelivered DEF DeliverPoolEvent
    <2>3. AddressesKept /\ UNCHANGED <<pool, pc, job>>
      BY <1>2 DEF DeliverPoolEvent, AddressesKept, addrVars
    <2>4. \A obj : Sound(obj) => Sound(obj)'
      BY <2>3 DEF AddressesKept, Sound, Seen
    <2>5. AllSound'
      BY <2>2, <2>3, <2>4 DEF PInv, AllSound, Sound
    <2>6. RemovedIsGone' /\ JobFollowsBase' /\ LetGoIsUnused'
      BY <2>3 DEF PInv, RemovedIsGone, JobFollowsBase, LetGoIsUnused, AddressesKept, Seen
    <2> QED
      BY <1>1, <2>5, <2>6 DEF PInv
  <1>3. CASE DeliverAddressEvent
    <2>1. addrEvents \in Seq(AddressEvents) /\ addrEvents # << >>
      BY <1>3 DEF PInv, TypeOK, DeliverAddressEvent, AddressEvents
    <2>2. /\ Head(addrEvents) = addrEvents[1] /\ 1 \in 1..Len(addrEvents)
          /\ \A i \in 1..Len(addrEvents') :
               i + 1 \in 1..Len(addrEvents) /\ addrEvents'[i] = addrEvents[i + 1]
      BY <1>3, <2>1, RestDelivered, FirstDelivered DEF DeliverAddressEvent
    <2>3. UNCHANGED <<pool, poolCache, poolEvents, pc, job, addrs, created>>
      BY <1>3 DEF DeliverAddressEvent, poolVars
    <2>4. RemovedIsGone'
      BY <2>2, <2>3 DEF PInv, RemovedIsGone
    <2>5. \A a : Seen(a) => Seen(a)'
      BY <1>3, <2>2, <2>3 DEF PInv, RemovedIsGone, DeliverAddressEvent, Seen
    <2> QED
      BY <1>1, <2>3, <2>4, <2>5, PoolKept
  <1>4. ASSUME NEW t \in timers, TimerFires(t)
        PROVE  PInv'
    BY <1>1, <1>4, NothingKept
       DEF TimerFires, poolVars, addrVars, cacheVars, AddressesKept
  <1> QED
    BY <1>2, <1>3, <1>4 DEF Delivery

\* The claim controller keeps the invariant: an address is created once only,
\* and its removal becomes an event when it is gone.
LEMMA ClaimControllerInv ==
  ASSUME PInv, ClaimController
  PROVE  PInv'
  <1>1. TypeOK'
    BY ClaimControllerType DEF PInv
  <1>2. UNCHANGED <<pool, poolCache, poolEvents, addrCache, pc, job>>
    BY DEF ClaimController, CreateAddress, GiveUp, FetchPool, UpdateAddress, DeleteAddress,
           poolVars, cacheVars, workerVars
  <1>3. addrEvents \in Seq(AddressEvents)
    BY DEF PInv, TypeOK, AddressEvents
  <1>4. \A i \in 1..Len(addrEvents) : addrEvents[i].name \in created
    <2>1. \A i \in 1..Len(addrEvents) : addrEvents[i] \in AddressEvents
      BY <1>3
    <2> QED
      BY <2>1 DEF AddressEvents
  <1>5. CASE CreateAddress
    <2>1. /\ addrs' = addrs \cup {allocating} /\ created' = created \cup {allocating}
          /\ allocating \notin created
      BY <1>5, NoPoolAssumption DEF CreateAddress, PInv, TypeOK
    <2>2. PICK e : e = [name |-> allocating, exists |-> TRUE] /\ addrEvents' = Append(addrEvents, e)
      BY <1>5 DEF CreateAddress
    <2>3. \A i \in 1..Len(addrEvents') :
            addrEvents'[i] = e \/ (i \in 1..Len(addrEvents) /\ addrEvents'[i] = addrEvents[i])
      <3>1. addrEvents \in Seq(AddressEvents \cup {e})
        BY <1>3
      <3> QED
        BY <2>2, <3>1, EventAppended
    <2>4. e.exists
      BY <2>2
    <2>5. RemovedIsGone'
      BY <1>4, <2>1, <2>3, <2>4 DEF PInv, RemovedIsGone
    <2>6. /\ \A a : Seen(a) => Seen(a)'
          /\ \A a \in created : a \in addrs' => a \in addrs
      BY <1>2, <2>1 DEF Seen
    <2> QED
      BY <1>1, <1>2, <2>5, <2>6, PoolKept
  <1>6. CASE GiveUp \/ \E a \in Addresses : FetchPool(a)
    BY <1>1, <1>2, <1>6, NothingKept DEF GiveUp, FetchPool, AddressesKept
  <1>7. ASSUME NEW a \in Addresses, UpdateAddress(a) \/ DeleteAddress(a)
        PROVE  PInv'
    <2>1. PICK b \in BOOLEAN : /\ addrEvents' = Append(addrEvents, [name |-> a, exists |-> b])
                               /\ addrs' \subseteq addrs /\ (~b => a \notin addrs')
                               /\ created' = created
      BY <1>7 DEF UpdateAddress, DeleteAddress
    <2>2. PICK e : e = [name |-> a, exists |-> b]
      OBVIOUS
    <2>3. \A i \in 1..Len(addrEvents') :
            addrEvents'[i] = e \/ (i \in 1..Len(addrEvents) /\ addrEvents'[i] = addrEvents[i])
      <3>1. addrEvents \in Seq(AddressEvents \cup {e})
        BY <1>3
      <3> QED
        BY <2>1, <2>2, <3>1, EventAppended
    <2>4. e.exists = b /\ e.name = a
      BY <2>2
    <2>5. RemovedIsGone'
      BY <2>1, <2>3, <2>4 DEF PInv, RemovedIsGone
    <2>6. \A c : Seen(c) => Seen(c)'
      BY <1>2, <2>1 DEF Seen
    <2> QED
      BY <1>1, <1>2, <2>1, <2>5, <2>6, PoolKept
  <1> QED
    BY <1>5, <1>6, <1>7 DEF ClaimController

\* The users keep the invariant: they leave the status alone, and a pool that
\* has no finalizer goes at once.
LEMMA UserInv ==
  ASSUME PInv, CreatePool \/ EditPool \/ RequestPoolDeletion
  PROVE  PInv'
  <1>1. TypeOK'
    BY UserType DEF PInv
  <1>2. AddressesKept /\ UNCHANGED <<poolCache, pc, job>>
    <2>1. UNCHANGED <<addrVars, cacheVars, workerVars>>
      BY DEF CreatePool, EditPool, RequestPoolDeletion
    <2> QED
      BY <2>1 DEF AddressesKept, addrVars, cacheVars, workerVars
  <1>3. PICK obj \in PoolOrNone : SetPool(obj) /\ Sound(obj)
    <2>1. pool # None => pool \in PoolObjects /\ Sound(pool)
      BY DEF PInv, TypeOK, AllSound
    <2>2. CASE pool = None /\ \E uid \in Nat : SetPool(NewPool(uid))
      BY <2>2, NewPoolType DEF PoolOrNone, Sound
    <2>3. CASE pool # None /\ SetPool([pool EXCEPT !.edit = @ + 1])
      BY <2>1, <2>3, UserTypes DEF PoolOrNone, Sound
    <2>4. CASE pool # None /\ pool.fin /\ SetPool([pool EXCEPT !.deleting = TRUE])
      BY <2>1, <2>4, UserTypes DEF PoolOrNone, Sound
    <2>5. CASE pool # None /\ ~pool.fin /\ SetPool(None)
      BY <2>5 DEF PoolOrNone, Sound
    <2> QED
      BY <2>2, <2>3, <2>4, <2>5, UserCases DEF PInv
  <1>4. (job # None => Sound(job.base))'
    BY <1>2 DEF PInv, AllSound, AddressesKept, Sound, Seen
  <1>5. AllSound' /\ RemovedIsGone'
    BY <1>2, <1>3, <1>4, SetPoolSound
  <1>6. JobFollowsBase' /\ LetGoIsUnused'
    BY <1>2 DEF PInv, JobFollowsBase, LetGoIsUnused, AddressesKept, Seen
  <1> QED
    BY <1>1, <1>5, <1>6 DEF PInv

\* A restart shows what there is; the world is not part of the invariant.
LEMMA WorldInv ==
  ASSUME PInv, InstanceChanges \/ NetworkChanges \/ Crash
  PROVE  PInv'
  <1>1. TypeOK'
    BY WorldType DEF PInv
  <1>2. CASE InstanceChanges \/ NetworkChanges
    BY <1>1, <1>2, NothingKept
       DEF InstanceChanges, NetworkChanges, poolVars, addrVars, cacheVars, workerVars,
           AddressesKept
  <1>3. CASE Crash
    BY <1>1, <1>3, NoPoolAssumption
       DEF PInv, Crash, Finish, AllSound, Sound, Seen, RemovedIsGone, JobFollowsBase,
           LetGoIsUnused
  <1> QED
    BY <1>2, <1>3

\* The invariant is inductive.
LEMMA InvStep ==
  ASSUME PInv, [Next]_vars
  PROVE  PInv'
  <1>1. CASE UNCHANGED vars
    <2>1. TypeOK'
      BY TypeStep DEF PInv
    <2> QED
      BY <1>1, <2>1, NothingKept DEF vars, AddressesKept
  <1>2. CASE Next
    BY <1>2, ReconcileInv, StatusStepsInv, AddFinalizerInv, RemoveFinalizerInv, DeliveryInv,
       ClaimControllerInv, UserInv, WorldInv
       DEF Next, Worker, Step, Environment
  <1> QED
    BY <1>1, <1>2

\* It holds at the start, where there is nothing.
LEMMA InvInit == Init => PInv
  <1> SUFFICES ASSUME Init PROVE PInv
    OBVIOUS
  <1> QED
    BY TypeInit, NoPoolAssumption
       DEF Init, PInv, AllSound, Sound, RemovedIsGone, JobFollowsBase, LetGoIsUnused

\* The inductive invariant holds of every behavior.
THEOREM InvariantHolds == Spec => []PInv
  BY InvInit, InvStep, PTL DEF Spec

\* A pool whose status lists allocations has the finalizer that holds it back,
\* whichever of the two writes failed, crashed or met a conflict.
THEOREM AllocationsAreProtected == Spec => []AllocationsProtected
  <1>1. PInv => AllocationsProtected
    BY DEF PInv, AllSound, Sound, AllocationsProtected
  <1> QED
    BY <1>1, InvariantHolds, PTL

\* What a step may do to the pool and to the versions of it on their way.
LEMMA PoolUse ==
  ASSUME [Next]_vars
  PROVE  \/ UNCHANGED <<pool, poolEvents, poolCache>>
         \/ SetPool(pool') /\ UNCHANGED poolCache
         \/ DeliverPoolEvent
         \/ Crash
  <1> USE DEF poolVars, cacheVars, worldVars, addrVars
  <1>1. CASE UNCHANGED vars
    BY <1>1 DEF vars
  <1>2. CASE Reconcile \/ DeliverAddressEvent \/ \E t \in timers : TimerFires(t)
    BY <1>2 DEF Reconcile, DeliverAddressEvent, TimerFires
  <1>3. CASE Step
    <2>1. UNCHANGED poolCache
      BY <1>3 DEF Step, Discover, SyncWithUnifi, AddFinalizer, WriteStatus, WriteConditions,
         RemoveFinalizer
    <2>2. ASSUME NEW obj, MayStore(obj) \/ Stored(obj) \/ NotStored
          PROVE  UNCHANGED <<pool, poolEvents>> \/ SetPool(pool')
      BY <2>2 DEF MayStore, Stored, NotStored, SetPool
    <2> QED
      BY <1>3, <2>1, <2>2, DiscoverCases, SyncCases, AddFinalizerCases, WriteStatusCases,
         WriteConditionsCases, RemoveFinalizerCases DEF Step
  <1>4. CASE ClaimController
    BY <1>4 DEF ClaimController, CreateAddress, GiveUp, FetchPool, UpdateAddress, DeleteAddress
  <1>5. CASE CreatePool \/ EditPool \/ RequestPoolDeletion
    <2>1. ASSUME NEW obj, SetPool(obj) PROVE SetPool(pool')
      BY <2>1 DEF SetPool
    <2>2. UNCHANGED poolCache
      BY <1>5 DEF CreatePool, EditPool, RequestPoolDeletion
    <2>3. SetPool(pool')
      BY <1>5, <2>1 DEF CreatePool, EditPool, RequestPoolDeletion
    <2> QED
      BY <2>2, <2>3
  <1>6. CASE InstanceChanges \/ NetworkChanges
    BY <1>6 DEF InstanceChanges, NetworkChanges
  <1> QED
    BY <1>1, <1>2, <1>3, <1>4, <1>5, <1>6 DEF Next, Worker, Delivery, Environment

-----------------------------------------------------------------------------
(* The action properties. *)

\* A step of a reconcile writes the pool at the version it had, with its
\* metadata but for the finalizer, or lets go of a pool being deleted.
LEMMA StepWrites ==
  ASSUME PInv, Step, pool' # pool
  PROVE  /\ pool = job.base
         /\ \/ pc = "removeFinalizer" /\ pool' = None
            \/ pool' # None /\ pool'.edit = pool.edit /\ pool'.deleting = pool.deleting
  <1>1. /\ job \in Jobs /\ job.pool \in PoolObjects /\ job.base \in PoolObjects
        /\ SameMeta(job.pool, job.base)
    BY JobFacts
  <1>2. ASSUME NEW m \in PoolObjects, Stored(StatusWrite(m))
        PROVE  pool = job.base /\ pool' # None /\ SameMeta(pool', pool)
    BY <1>1, <1>2, WrittenKept, NoPoolAssumption DEF Stored, SetPool, StatusOf
  <1>3. CASE RemoveFinalizer
    <2>1. MetaWrite(job.pool).deleting
      BY <1>1, <1>3, WrittenKept
         DEF RemoveFinalizer, PInv, LetGoIsUnused, StatusOf, SameMeta
    <2> QED
      BY <1>3, <2>1, RemoveFinalizerCases
         DEF RemoveFinalizer, MayStore, Stored, NotStored, poolVars, SetPool, Unprotected
  <1>4. CASE AddFinalizer
    <2>1. StatusOf(MetaWrite(job.pool), job.pool)
      BY <1>1, WrittenKept
    <2>2. /\ Protected \in PoolObjects
          /\ Protected.edit = job.base.edit /\ Protected.deleting = job.base.deleting
      BY <1>1, <2>1 DEF Protected, StatusOf, SameMeta, PoolObjects
    <2> QED
      BY <1>4, <2>2, AddFinalizerCases, NoPoolAssumption
         DEF MayStore, Stored, NotStored, poolVars, SetPool
  <1>5. CASE Discover \/ SyncWithUnifi \/ WriteStatus \/ WriteConditions
    <2>1. \E m \in PoolObjects : Stored(StatusWrite(m))
      <3>1. /\ SetCondition(job.pool, "NetworkDiscovered", "False") \in PoolObjects
            /\ Synced(job.pool) \in PoolObjects
            /\ WithConditions(job.pool) \in PoolObjects
        BY <1>1, MemoryKept DEF SameList, StatusOf
      <3>2. ~NotStored
        BY DEF NotStored, poolVars
      <3> QED
        BY <1>1, <1>5, <3>1, <3>2, DiscoverCases, SyncCases, WriteStatusCases,
           WriteConditionsCases DEF MayStore
    <2> QED
      BY <1>2, <2>1 DEF SameMeta
  <1> QED
    BY <1>3, <1>4, <1>5 DEF Step

\* Whatever else changes a pool is a user.
LEMMA OnlyUsersElse ==
  ASSUME Next, ~Step, pool' # pool
  PROVE  CreatePool \/ EditPool \/ RequestPoolDeletion
  <1>1. ~Reconcile /\ ~Delivery
    BY DEF Reconcile, Delivery, DeliverPoolEvent, DeliverAddressEvent, TimerFires, poolVars
  <1>2. ~ClaimController
    BY DEF ClaimController, CreateAddress, GiveUp, FetchPool, UpdateAddress, DeleteAddress,
           poolVars
  <1>3. ~InstanceChanges /\ ~NetworkChanges /\ ~Crash
    BY DEF InstanceChanges, NetworkChanges, Crash, poolVars
  <1> QED
    BY <1>1, <1>2, <1>3 DEF Next, Worker, Environment

\* A step that lets a pool go leaves no address that its status lists.
LEMMA LetGoStep ==
  ASSUME PInv, Next, pool # None, pool' = None
  PROVE  pool.status.allocations \cap addrs = {}
  <1>1. CASE Step
    BY <1>1, StepWrites DEF PInv, LetGoIsUnused
  <1>2. CASE ~Step
    <2>1. \/ ~pool.fin
          \/ /\ pool \in PoolObjects
             /\ \/ None = [pool EXCEPT !.edit = @ + 1]
                \/ None = [pool EXCEPT !.deleting = TRUE]
      BY <1>2, OnlyUsersElse, UserCases DEF PInv, TypeOK, SetPool
    <2>2. ~pool.fin
      BY <2>1, UserTypes, NoPoolAssumption
    <2> QED
      BY <2>2 DEF PInv, AllSound, Sound
  <1> QED
    BY <1>1, <1>2

\* A pool does not go while an address that its status has listed exists,
\* whatever the caches show when its deletion is handled.
THEOREM ListedAddressesHold == Spec => ListedAddressesHoldPool
  <1>1. PInv /\ [Next]_vars =>
          [pool # None /\ pool' = None => pool.status.allocations \cap addrs = {}]_vars
    BY LetGoStep
  <1> QED
    BY <1>1, InvariantHolds, PTL DEF Spec, ListedAddressesHoldPool

\* A step does not undo an edit or a request for deletion.
LEMMA EditStep ==
  ASSUME PInv, Next, pool # None, pool' # None, pool'.uid = pool.uid
  PROVE  pool'.edit >= pool.edit /\ (pool.deleting => pool'.deleting)
  <1>1. pool \in PoolObjects /\ pool.edit \in Nat
    BY DEF PInv, TypeOK, PoolObjects
  <1>2. CASE pool' = pool
    BY <1>1, <1>2
  <1>3. CASE pool' # pool /\ Step
    BY <1>1, <1>3, StepWrites
  <1>4. CASE pool' # pool /\ ~Step
    <2>1. \/ pool' = [pool EXCEPT !.edit = @ + 1]
          \/ pool' = [pool EXCEPT !.deleting = TRUE]
      BY <1>4, OnlyUsersElse, UserCases DEF PInv, SetPool
    <2> QED
      BY <1>1, <2>1, UserTypes
  <1> QED
    BY <1>2, <1>3, <1>4

\* No write of the controller undoes a user's edit, though Update writes the
\* whole object as the cache showed it.
THEOREM EditsAreKept == Spec => EditsKept
  <1>1. PInv /\ [Next]_vars =>
          [pool # None /\ pool' # None /\ pool'.uid = pool.uid =>
             pool'.edit >= pool.edit /\ (pool.deleting => pool'.deleting)]_vars
    BY EditStep
  <1> QED
    BY <1>1, InvariantHolds, PTL DEF Spec, EditsKept
=============================================================================
