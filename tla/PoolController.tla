--------------------------- MODULE PoolController ---------------------------
(***************************************************************************)
(* The UnifiIPPool controller, internal/controllers/unifiippool_controller.*)
(* go: it reports a pool's use in its status, watches the UniFi network    *)
(* for drift, and holds a deleted pool back while addresses are in use.    *)
(*                                                                         *)
(* There is one pool name; its objects differ in their uid.  The claim     *)
(* controller, which creates and deletes the pool's IPAddresses, runs in   *)
(* the same process and reads the same caches.  Every write of the pool    *)
(* carries the version it was read at, and the API server refuses it when  *)
(* that version is no longer current.  Timestamps are left out: a write    *)
(* that changes nothing else is no change.  When the manager serves its    *)
(* webhooks, every update but that of the status has to be admitted by     *)
(* internal/webhooks/unifiippool_webhook.go, the controller's own included.*)
(***************************************************************************)
EXTENDS Integers, Sequences, FiniteSets

CONSTANTS
  Addresses,         \* the IPAddress objects that may come to be
  Outside,           \* those with an address outside the pool's first subnet
  PoolSize,          \* addresses in the first subnet, computeTotalAddresses
  NetworkConfigured, \* whether spec.networkId is set
  Webhooks,          \* whether the manager serves its webhooks (--enable-webhook)
  FaultKinds,        \* the faults that may happen
  MaxFaults,         \* bound on their number
  MaxPools,          \* bound on how often the pool is created
  MaxEdits,          \* bound on the edits of a pool's spec and metadata
  MaxChanges,        \* bound on the changes of the instance and the network
  MaxBacklog,        \* bound on the address events that await an update's
  None               \* an object that does not exist

ASSUME PoolAssumption ==
  /\ IsFiniteSet(Addresses)
  /\ Outside \subseteq Addresses
  /\ PoolSize \in Nat
  /\ NetworkConfigured \in BOOLEAN /\ Webhooks \in BOOLEAN
  /\ FaultKinds \subseteq {"apiError", "lostReply", "unifiError", "crash"}
  /\ MaxFaults \in Nat /\ MaxPools \in Nat /\ MaxEdits \in Nat /\ MaxChanges \in Nat
  /\ MaxBacklog \in Nat

Unset == -1          \* status.addresses and status.capacity before they are set

Conditions == {"NetworkDiscovered", "NetworkSynced", "Ready", "Healthy", "Exhausted"}

NoConditions == [t \in Conditions |-> "Unknown"]

StatusObjects ==
  [used : Nat \cup {Unset}, allocations : SUBSET Addresses, discovered : BOOLEAN,
   conditions : [Conditions -> {"Unknown", "True", "False"}]]

PoolObjects == [uid : Nat, edit : Nat, fin : BOOLEAN, deleting : BOOLEAN,
                status : StatusObjects]

\* What a running reconcile holds: the pool in memory, the version it was read
\* or last written at.
Jobs == [pool : PoolObjects, base : PoolObjects]

ASSUME NoPoolAssumption == None \notin PoolObjects /\ None \notin Jobs /\ None \notin Addresses

VARIABLES
  pool,        \* API server: the UnifiIPPool
  addrs,       \* API server: the IPAddresses that refer to it
  poolCache,   \* informer cache of the pool
  addrCache,   \* informer cache of the addresses
  poolEvents,  \* watch events of the pool not yet in the cache
  addrEvents,  \* watch events of the addresses not yet in the cache
  instance,    \* the UnifiInstance as cached: "missing", "notReady" or "ready"
  network,     \* the UniFi network: "missing", "match" or "drift" from the pool
  queued,      \* whether the pool is on the work queue
  timers,      \* RequeueAfter: "retry" after 30 s or 1 min, "resync" after 10
  pc,          \* the call the worker makes next, "idle" between reconciles
  job,         \* what the running reconcile holds, None when idle
  allocating,  \* the address the claim controller is about to create, or None
  created,     \* the addresses that have been created so far
  pools,       \* pools created so far
  faults,      \* faults so far
  changes      \* changes of the instance and the network so far

vars == <<pool, addrs, poolCache, addrCache, poolEvents, addrEvents, instance,
          network, queued, timers, pc, job, allocating, created, pools, faults,
          changes>>

poolVars   == <<pool, poolEvents>>
addrVars   == <<addrs, addrEvents, allocating, created>>
cacheVars  == <<poolCache, addrCache>>
worldVars  == <<instance, network, changes, pools>>
workerVars == <<queued, timers, pc, job>>

NewStatus == [used |-> Unset, allocations |-> {}, discovered |-> FALSE,
              conditions |-> NoConditions]

NewPool(uid) ==
  [uid |-> uid, edit |-> 0, fin |-> FALSE, deleting |-> FALSE, status |-> NewStatus]

Init ==
  /\ pool = None
  /\ addrs = {}
  /\ poolCache = None
  /\ addrCache = {}
  /\ poolEvents = << >>
  /\ addrEvents = << >>
  /\ instance \in {"missing", "notReady", "ready"}
  /\ network \in {"missing", "match", "drift"}
  /\ queued = FALSE
  /\ timers = {}
  /\ pc = "idle"
  /\ job = None
  /\ allocating = None
  /\ created = {}
  /\ pools = 0
  /\ faults = 0
  /\ changes = 0

-----------------------------------------------------------------------------
(* The API server, and how a reconcile ends. *)

SetPool(obj) ==
  /\ pool' = obj
  /\ poolEvents' = IF obj = pool THEN poolEvents ELSE Append(poolEvents, obj)

\* What removing its last finalizer leaves of a pool.
Unprotected(obj) == IF obj.deleting THEN None ELSE [obj EXCEPT !.fin = FALSE]

Fault(kind) ==
  /\ kind \in FaultKinds
  /\ faults < MaxFaults
  /\ faults' = faults + 1

\* Mutant: the job survives the reconcile it belongs to.
FinishKeepsJob == pc' = "idle" /\ UNCHANGED job

Finish == pc' = "idle" /\ job' = None
Failed == Finish /\ queued' = TRUE /\ UNCHANGED timers
Done   == Finish /\ UNCHANGED <<queued, timers>>
RequeueAfter(t) == Finish /\ timers' = timers \cup {t} /\ UNCHANGED queued

\* Mutant: the version is not checked.
OverwriteAny(obj, Ok, Error) ==
  IF pool # None THEN SetPool(obj) /\ Ok /\ UNCHANGED faults
  ELSE Error /\ UNCHANGED <<poolVars, faults>>

\* A write of the pool, as obj: it succeeds when nothing has changed the pool
\* since job.base, and may fail before or after it took effect.
Write(obj, Ok, Error) ==
  \/ pool = job.base /\ SetPool(obj) /\ Ok /\ UNCHANGED faults
  \/ pool # job.base /\ Error /\ UNCHANGED <<poolVars, faults>>
  \/ Fault("apiError") /\ Error /\ UNCHANGED poolVars
  \/ Fault("lostReply") /\ pool = job.base /\ SetPool(obj) /\ Error

\* Mutant: every address counts as orphaned.
AdmittedUnused == Webhooks => instance # "missing" /\ addrCache = {}

\* validate and validateUpdate: the instance is there, and no cached address
\* is outside the first subnet.
Admitted == Webhooks => instance # "missing" /\ addrCache \cap Outside = {}

\* A write of all but the status.
Update(obj, Ok, Error) ==
  \/ Admitted /\ Write(obj, Ok, Error)
  \/ ~Admitted /\ Error /\ UNCHANGED <<poolVars, faults>>

\* Status().Update writes the status and nothing else, Update all but it.
StatusWrite(mem) == [job.base EXCEPT !.status = mem.status]
MetaWrite(mem)   == [mem EXCEPT !.status = job.base.status]

\* The reply of Update is decoded into the pool in memory: what the stored
\* status has replaces what was computed, keys of a map one by one.
Merge(mem, stored) ==
  [used |-> IF stored.used = Unset THEN mem.used ELSE stored.used,
   allocations |-> mem.allocations \cup stored.allocations,
   discovered |-> mem.discovered \/ stored.discovered,
   conditions |-> IF stored.conditions = NoConditions THEN mem.conditions
                  ELSE stored.conditions]

SetCondition(mem, t, value) == [mem EXCEPT !.status.conditions[t] = value]

-----------------------------------------------------------------------------
(* Reconcile *)

\* Mutant: a deleted pool is let go when its status shows no use.
DeleteByStatus(obj) ==
  IF obj.status.used \in {Unset, 0} THEN "removeFinalizer" ELSE "wait"

\* handleDeletion: the addresses are listed from the cache.
DeletionRoute(obj) == IF addrCache = {} THEN "removeFinalizer" ELSE "wait"

Route(obj) ==
  IF obj = None THEN "done"
  ELSE IF obj.deleting THEN DeletionRoute(obj)
  ELSE IF instance = "missing" THEN "error"
  ELSE IF instance = "notReady" THEN "wait"
  ELSE IF NetworkConfigured \/ obj.status.discovered THEN "sync" ELSE "discover"

Reconcile ==
  /\ pc = "idle"
  /\ queued
  /\ CASE Route(poolCache) = "error" -> UNCHANGED workerVars
       [] Route(poolCache) = "done" ->
            queued' = FALSE /\ UNCHANGED <<timers, pc, job>>
       [] Route(poolCache) = "wait" ->
            queued' = FALSE /\ timers' = timers \cup {"retry"} /\ UNCHANGED <<pc, job>>
       [] OTHER ->
            /\ queued' = FALSE
            /\ pc' = Route(poolCache)
            /\ job' = [pool |-> poolCache, base |-> poolCache]
            /\ UNCHANGED timers
  /\ UNCHANGED <<poolVars, addrVars, cacheVars, worldVars, faults>>

\* discoverNetwork: no network has the subnet, or the client or its list fails;
\* either is a condition and another attempt in a minute.
Discover ==
  /\ pc = "discover"
  /\ LET undiscovered == StatusWrite(SetCondition(job.pool, "NetworkDiscovered", "False")) IN
     \/ /\ network # "missing"
        /\ pc' = "sync"
        /\ job' = [job EXCEPT !.pool.status.discovered = TRUE]
        /\ UNCHANGED <<poolVars, queued, timers, faults>>
     \/ network = "missing" /\ Write(undiscovered, RequeueAfter("retry"), Failed)
     \/ /\ network # "missing" /\ Fault("unifiError")
        /\ \/ pool = job.base /\ SetPool(undiscovered) /\ RequeueAfter("retry")
           \/ pool # job.base /\ Failed /\ UNCHANGED poolVars
  /\ UNCHANGED <<addrVars, cacheVars, worldVars>>

\* updatePoolStatus before it writes: used, capacity and the allocations.
Computed(mem, inUse) ==
  [mem EXCEPT !.status.used = Cardinality(inUse \ Outside),
              !.status.allocations = inUse]

\* Mutant: the status as it was read decides on the finalizer.
ProceedByStatus(mem, base) ==
  /\ job' = [pool |-> Computed(mem, addrCache), base |-> base]
  /\ pc' = IF mem.status.allocations # {} /\ ~mem.fin THEN "addFinalizer" ELSE "writeStatus"
  /\ UNCHANGED <<queued, timers>>

\* The addresses are listed and the status computed; on to the finalizer.
Proceed(mem, base) ==
  /\ job' = [pool |-> Computed(mem, addrCache), base |-> base]
  /\ pc' = IF addrCache # {} /\ ~mem.fin THEN "addFinalizer" ELSE "writeStatus"
  /\ UNCHANGED <<queued, timers>>

\* Mutant: the network is only looked at once.
SyncedOnce(mem) ==
  [mem EXCEPT !.status.conditions["NetworkSynced"] =
                IF @ = "Unknown" THEN IF network = "match" THEN "True" ELSE "False"
                ELSE @]

\* detectConfigurationDrift and updateSyncCondition
Synced(mem) ==
  [mem EXCEPT !.status.conditions["NetworkSynced"] =
                IF network = "match" THEN "True" ELSE "False"]

\* ListAddressesInUse, then syncWithUnifi, whose errors are only logged.
SyncWithUnifi ==
  /\ pc = "sync"
  /\ \/ /\ network # "missing"
        /\ LET mem == Synced(job.pool) IN
           Write(StatusWrite(mem), Proceed(mem, StatusWrite(mem)),
                 Proceed(mem, job.base))
     \/ /\ network = "missing" \/ Fault("unifiError")
        /\ Proceed(job.pool, job.base)
        /\ UNCHANGED poolVars
        /\ network = "missing" => UNCHANGED faults
  /\ UNCHANGED <<addrVars, cacheVars, worldVars>>

\* Mutant: the finalizer is added after the status has been written.
FinalizerLater ==
  /\ pc = "addFinalizer"
  /\ pc' = "writeStatus"
  /\ UNCHANGED <<poolVars, job, queued, timers, faults, addrVars, cacheVars, worldVars>>

AddFinalizer ==
  /\ pc = "addFinalizer"
  /\ LET protected == [MetaWrite(job.pool) EXCEPT !.fin = TRUE] IN
     Update(protected,
            /\ pc' = "writeStatus"
            /\ job' = [job EXCEPT
                 !.base = protected,
                 !.pool = [protected EXCEPT !.status = Merge(job.pool.status, @)]]
            /\ UNCHANGED <<queued, timers>>,
            Failed)
  /\ UNCHANGED <<addrVars, cacheVars, worldVars>>

\* The second half of updatePoolStatus.
WriteStatus ==
  /\ pc = "writeStatus"
  /\ Write(StatusWrite(job.pool),
           /\ pc' = "writeConditions"
           /\ job' = [job EXCEPT !.base = StatusWrite(job.pool)]
           /\ UNCHANGED <<queued, timers>>,
           Failed)
  /\ UNCHANGED <<addrVars, cacheVars, worldVars>>

\* calculateCapacityMetrics; without a size there is no percentage.
Utilization(status) == IF PoolSize = 0 THEN 0 ELSE (status.used * 100) \div PoolSize

\* updateReadyCondition, updateHealthyCondition and updateExhaustedCondition.
\* The instance is the one the reconcile found ready.
WithConditions(mem) ==
  LET drifted   == mem.status.conditions["NetworkSynced"] = "False"
      exhausted == Utilization(mem.status) >= 90
  IN  [mem EXCEPT !.status.conditions =
         [@ EXCEPT !["Ready"]     = "True",
                   !["Healthy"]   = IF drifted THEN "False" ELSE "True",
                   !["Exhausted"] = IF exhausted THEN "True" ELSE "False"]]

WriteConditions ==
  /\ pc = "writeConditions"
  /\ Write(StatusWrite(WithConditions(job.pool)), RequeueAfter("resync"), Failed)
  /\ UNCHANGED <<addrVars, cacheVars, worldVars>>

RemoveFinalizer ==
  /\ pc = "removeFinalizer"
  /\ IF job.pool.fin THEN Update(Unprotected(MetaWrite(job.pool)), Done, Failed)
     ELSE Done /\ UNCHANGED <<poolVars, faults>>
  /\ UNCHANGED <<addrVars, cacheVars, worldVars>>

-----------------------------------------------------------------------------
(* What makes the controller reconcile. *)

DeliverPoolEvent ==
  /\ poolEvents # << >>
  /\ poolCache' = Head(poolEvents)
  /\ poolEvents' = Tail(poolEvents)
  /\ queued' = TRUE
  /\ UNCHANGED <<pool, addrVars, addrCache, worldVars, timers, pc, job, faults>>

DeliverAddressEvent ==
  /\ addrEvents # << >>
  /\ LET e == Head(addrEvents) IN
     addrCache' = IF e.exists THEN addrCache \cup {e.name} ELSE addrCache \ {e.name}
  /\ addrEvents' = Tail(addrEvents)
  /\ queued' = TRUE
  /\ UNCHANGED <<poolVars, poolCache, addrs, allocating, created, worldVars,
                 timers, pc, job, faults>>

TimerFires(t) ==
  /\ t \in timers
  /\ timers' = timers \ {t}
  /\ queued' = TRUE
  /\ UNCHANGED <<poolVars, addrVars, cacheVars, worldVars, pc, job, faults>>

-----------------------------------------------------------------------------
(* The claim controller.  FetchPool wants the pool in the cache, and does not *)
(* ask whether it is being deleted.                                           *)

FetchPool(a) ==
  /\ allocating = None
  /\ a \notin created
  /\ poolCache # None
  /\ allocating' = a
  /\ UNCHANGED <<poolVars, addrs, addrEvents, created, cacheVars, worldVars,
                 workerVars, faults>>

\* The attempt fails, or finds that there is nothing to create.
GiveUp ==
  /\ allocating # None
  /\ allocating' = None
  /\ UNCHANGED <<poolVars, addrs, addrEvents, created, cacheVars, worldVars,
                 workerVars, faults>>

CreateAddress ==
  /\ allocating # None
  /\ addrs' = addrs \cup {allocating}
  /\ addrEvents' = Append(addrEvents, [name |-> allocating, exists |-> TRUE])
  /\ created' = created \cup {allocating}
  /\ allocating' = None
  /\ UNCHANGED <<poolVars, cacheVars, worldVars, workerVars, faults>>

\* A patch of an address: its owner, its finalizer.
UpdateAddress(a) ==
  /\ a \in addrs
  /\ Len(addrEvents) < MaxBacklog
  /\ addrEvents' = Append(addrEvents, [name |-> a, exists |-> TRUE])
  /\ UNCHANGED <<addrs, allocating, created, poolVars, cacheVars, worldVars,
                 workerVars, faults>>

DeleteAddress(a) ==
  /\ a \in addrs
  /\ addrs' = addrs \ {a}
  /\ addrEvents' = Append(addrEvents, [name |-> a, exists |-> FALSE])
  /\ UNCHANGED <<allocating, created, poolVars, cacheVars, worldVars, workerVars, faults>>

-----------------------------------------------------------------------------
(* Users, the UniFi controller, the instance controller, and a restart. *)

CreatePool ==
  /\ pool = None
  /\ pools < MaxPools
  /\ Webhooks => instance # "missing"
  /\ pools' = pools + 1
  /\ SetPool(NewPool(pools + 1))
  /\ UNCHANGED <<addrVars, cacheVars, instance, network, changes, workerVars, faults>>

EditPool ==
  /\ pool # None
  /\ pool.edit < MaxEdits
  /\ Admitted
  /\ SetPool([pool EXCEPT !.edit = @ + 1])
  /\ UNCHANGED <<addrVars, cacheVars, worldVars, workerVars, faults>>

RequestPoolDeletion ==
  /\ pool # None
  /\ ~pool.deleting
  /\ Webhooks => addrCache = {}
  /\ SetPool(IF pool.fin THEN [pool EXCEPT !.deleting = TRUE] ELSE None)
  /\ UNCHANGED <<addrVars, cacheVars, worldVars, workerVars, faults>>

InstanceChanges ==
  /\ changes < MaxChanges
  /\ changes' = changes + 1
  /\ instance' \in {"missing", "notReady", "ready"} \ {instance}
  /\ UNCHANGED <<network, pools, poolVars, addrVars, cacheVars, workerVars, faults>>

NetworkChanges ==
  /\ changes < MaxChanges
  /\ changes' = changes + 1
  /\ network' \in {"missing", "match", "drift"} \ {network}
  /\ UNCHANGED <<instance, pools, poolVars, addrVars, cacheVars, workerVars, faults>>

\* Both controllers start over from a list of what exists.
Crash ==
  /\ Fault("crash")
  /\ Finish
  /\ poolCache' = pool
  /\ addrCache' = addrs
  /\ poolEvents' = << >>
  /\ addrEvents' = << >>
  /\ allocating' = None
  /\ timers' = {}
  /\ queued' = TRUE
  /\ UNCHANGED <<pool, addrs, created, worldVars>>

-----------------------------------------------------------------------------
Step ==
  \/ Discover
  \/ SyncWithUnifi
  \/ AddFinalizer
  \/ WriteStatus
  \/ WriteConditions
  \/ RemoveFinalizer

Worker == Reconcile \/ Step

Delivery == DeliverPoolEvent \/ DeliverAddressEvent \/ \E t \in timers : TimerFires(t)

ClaimController ==
  \/ CreateAddress
  \/ GiveUp
  \/ \E a \in Addresses : FetchPool(a) \/ UpdateAddress(a) \/ DeleteAddress(a)

Environment ==
  CreatePool \/ EditPool \/ RequestPoolDeletion \/ InstanceChanges \/ NetworkChanges \/ Crash

Next == Worker \/ Delivery \/ ClaimController \/ Environment

Spec == Init /\ [][Next]_vars

\* The watches and a reconcile make progress, and so does a retry; the resync,
\* ten minutes away, is not waited for.
Fairness ==
  /\ WF_vars(DeliverPoolEvent)
  /\ WF_vars(DeliverAddressEvent)
  /\ WF_vars(TimerFires("retry"))
  /\ WF_vars(Reconcile)
  /\ WF_vars(Step)

FairSpec == Spec /\ Fairness

-----------------------------------------------------------------------------
(* Properties. *)

\* The types of the variables; the worker holds a job exactly while it is busy.
TypeOK ==
  /\ pool \in PoolObjects \cup {None}
  /\ poolCache \in PoolObjects \cup {None}
  /\ poolEvents \in Seq(PoolObjects \cup {None})
  /\ addrs \subseteq created
  /\ addrCache \subseteq created
  /\ addrEvents \in Seq([name : created, exists : BOOLEAN])
  /\ instance \in {"missing", "notReady", "ready"}
  /\ network \in {"missing", "match", "drift"}
  /\ queued \in BOOLEAN
  /\ timers \subseteq {"retry", "resync"}
  /\ \/ pc = "idle" /\ job = None
     \/ /\ pc \in {"discover", "sync", "addFinalizer", "writeStatus",
                   "writeConditions", "removeFinalizer"}
        /\ job \in Jobs
  /\ allocating \in (Addresses \ created) \cup {None}
  /\ created \subseteq Addresses
  /\ pools \in Nat /\ faults \in Nat /\ changes \in Nat

\* A pool whose status lists allocations has the finalizer that holds it back
\* when it is deleted (ProtectPoolFinalizer): the finalizer and the status are
\* written in two calls, and either may fail.
AllocationsProtected ==
  pool # None /\ pool.status.allocations # {} => pool.fin

\* A pool does not go while an address its status has listed exists, whatever
\* the caches show when the deletion is handled.
ListedAddressesHoldPool ==
  [][pool # None /\ pool' = None => pool.status.allocations \cap addrs = {}]_vars

\* No step of the controller undoes a user's edit, though Update writes the
\* whole object as the cache showed it.
EditsKept ==
  [][pool # None /\ pool' # None /\ pool'.uid = pool.uid =>
       pool'.edit >= pool.edit /\ (pool.deleting => pool'.deleting)]_vars

Settled(obj) ==
  /\ obj.status.used = Cardinality(addrs \ Outside)
  /\ obj.status.allocations = addrs
  /\ addrs # {} => obj.fin
  /\ obj.status.conditions["Exhausted"] =
       IF Utilization(obj.status) >= 90 THEN "True" ELSE "False"

\* In the end the status shows the addresses there are, through conflicts, lost
\* replies and a finalizer whose update brings an older status back.
StatusConverges ==
  <>[](instance = "ready" /\ network # "missing") =>
    <>[](pool = None \/ pool.deleting \/ Settled(pool))

\* A deleted pool goes in the end once its addresses are gone; with the webhooks
\* its instance has to be there, or they refuse to remove its finalizer.
DeletionCompletes ==
  <>[](addrs = {} /\ (Webhooks => instance # "missing")) => (pool # None /\ pool.deleting ~> pool = None \/ ~pool.deleting)

\* A drift of the UniFi network that stays makes the pool unhealthy, given that
\* the resync is waited for: nothing watches the network.
DriftReported ==
  WF_vars(TimerFires("resync")) /\ <>[](instance = "ready" /\ network = "drift") =>
    <>[](pool = None \/ pool.deleting \/ pool.status.conditions["Healthy"] = "False")

-----------------------------------------------------------------------------
(* What docs and comments say and the code does not keep. *)

\* A pool that is not being deleted lists the addresses that are in use in the
\* end, even when some are from its second subnet: "Allocations tracks current
\* IP assignments".
UseReported ==
  <>[](instance = "ready" /\ network # "missing") =>
    <>[](pool = None \/ pool.deleting \/ pool.status.allocations = addrs)

\* A pool that has the finalizer does not go while it has addresses:
\* "ProtectPoolFinalizer is added to UnifiIPPool resources that have addresses
\* in use."
PoolOutlivesAddresses ==
  [][pool # None /\ pool.fin /\ pool' = None => addrs = {}]_vars
=============================================================================
