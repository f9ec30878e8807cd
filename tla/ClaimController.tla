--------------------------- MODULE ClaimController ---------------------------
(***************************************************************************)
(* The IPAddressClaim controller: the generic reconciler of                *)
(* pkg/ipamutil/reconciler.go with the UniFi adapter of                    *)
(* internal/controllers/ipaddressclaim_controller.go plugged in, and the   *)
(* part of internal/unifi/client.go they reach.                            *)
(*                                                                         *)
(* The API server holds the IPAddressClaims and the IPAddresses; the       *)
(* controller reads both from informer caches that replay the server's     *)
(* watch events in order, at any later time.  One worker takes claim names *)
(* off the work queue.  A reconcile is cut wherever another party can act: *)
(* between any two calls that write to the API server or to the UniFi      *)
(* controller, and between the cache reads that may see different          *)
(* versions of an object.                                                  *)
(*                                                                         *)
(* An IPAddress has the name of its claim, so both are indexed by Claims.  *)
(***************************************************************************)
EXTENDS Integers, Sequences, FiniteSets

CONSTANTS
  Claims,           \* names of IPAddressClaims that refer to the pool
  IPs,              \* addresses that may be written anywhere, positive numbers
  SubnetIPs,        \* the addresses inside the pool's subnets (IPInSubnets)
  Gateway,          \* the gateway of the subnet, or NoIP
  MACs,             \* MAC addresses
  MacOf,            \* generateMACAddress: the MAC of each claim name
  Networks,         \* IDs of UniFi networks
  NoNetwork,        \* the empty string where a network ID is expected
  Pools,            \* the pools that there may be, None for no pool
  Requested,        \* the "ipAddress" annotation of each claim, or NoIP
  Foreign,          \* fixed IPs that other devices may get: <<network, IP>>
  AbsentReplies,    \* what GetUserByMAC may answer for an unknown MAC
  FaultKinds,       \* the faults that may happen
  MaxFaults,        \* bound on their number
  MaxIncarnations,  \* bound on how often a claim name is created
  MaxPoolChanges,   \* bound on the changes of the pool
  MaxClusterChanges, \* bound on the changes of the Cluster's pause
  None              \* an object that does not exist

NoIP == 0           \* the empty string where an address is expected

ClaimObjects   == [uid : Nat, fin : BOOLEAN, deleting : BOOLEAN, ref : BOOLEAN]
AddressObjects == [ip : IPs \cup {NoIP}, owner : Nat, fin : BOOLEAN, deleting : BOOLEAN]
PoolObjects    == [paused : BOOLEAN, free : {"unknown", "zero", "some"},
                   pre : [Claims -> IPs \cup {NoIP}],
                   network : Networks \cup {NoNetwork}]
UserObjects    == [ip : IPs \cup {NoIP}, network : Networks \cup {NoNetwork}]
NoUser         == [ip |-> NoIP, network |-> NoNetwork]
Jobs           == [name : Claims, claim : ClaimObjects,
                   found : AddressObjects \cup {None}, want : IPs \cup {NoIP},
                   network : Networks \cup {NoNetwork}, ip : IPs \cup {NoIP}]

ASSUME DataAssumption ==
  /\ IPs \subseteq Nat \ {NoIP}
  /\ SubnetIPs \subseteq IPs
  /\ Gateway \in IPs \cup {NoIP}
  /\ NoNetwork \notin Networks
  /\ Foreign \subseteq Networks \X IPs
  /\ MacOf \in [Claims -> MACs]
  /\ Pools \subseteq PoolObjects \cup {None}
  /\ Requested \in [Claims -> IPs \cup {NoIP}]

ASSUME EnvironmentAssumption ==
  /\ AbsentReplies \subseteq {"nil", "notFound", "otherError"}
  /\ FaultKinds \subseteq {"apiError", "lostReply", "cacheTimeout", "crash"}
  /\ MaxFaults \in Nat
  /\ MaxIncarnations \in Nat
  /\ MaxPoolChanges \in Nat
  /\ MaxClusterChanges \in Nat

ASSUME NoneAssumption ==
  /\ None \notin ClaimObjects
  /\ None \notin AddressObjects
  /\ None \notin PoolObjects
  /\ None \notin Jobs

VARIABLES
  claims,        \* API server: the IPAddressClaim of each name
  addrs,         \* API server: the IPAddress of each name
  claimCache,    \* informer cache of the claims
  addrCache,     \* informer cache of the addresses
  claimEvents,   \* watch events of claims not yet in the cache
  addrEvents,    \* watch events of addresses not yet in the cache
  pool,          \* the UnifiIPPool as the informer cache shows it
  clusterPaused, \* whether the claims' Cluster is paused, as cached
  users,         \* UniFi users the controller created: MAC -> fixed IP, network
  foreign,       \* the fixed IPs of other devices, among Foreign
  absentReply,   \* what GetUserByMAC answers for an unknown MAC
  queue,         \* names on the controller's work queue
  pc,            \* the call the worker makes next, "idle" between reconciles
  job,           \* what the running reconcile holds, None when idle
  made,          \* how often each claim has been created (its last UID)
  faults,        \* faults so far
  poolChanges,   \* pool changes so far
  clusterChanges \* changes of the Cluster's pause so far

vars == <<claims, addrs, claimCache, addrCache, claimEvents, addrEvents, pool,
          clusterPaused, users, foreign, absentReply, queue, pc, job, made, faults, poolChanges,
          clusterChanges>>

apiVars   == <<claims, addrs, claimEvents, addrEvents>>
cacheVars == <<claimCache, addrCache>>
unifiVars == <<foreign, absentReply>>
envVars   == <<pool, clusterPaused, made, poolChanges, clusterChanges, unifiVars>>

Init ==
  /\ claims = [c \in Claims |-> None]
  /\ addrs = [c \in Claims |-> None]
  /\ claimCache = claims
  /\ addrCache = addrs
  /\ claimEvents = << >>
  /\ addrEvents = << >>
  /\ pool \in {obj \in Pools : obj # None => ~obj.paused /\ obj.free = "unknown"}
  /\ clusterPaused = FALSE
  /\ users = [m \in MACs |-> NoUser]
  /\ foreign = {}
  /\ absentReply \in AbsentReplies
  /\ queue = {}
  /\ pc = "idle"
  /\ job = None
  /\ made = [c \in Claims |-> 0]
  /\ faults = 0
  /\ poolChanges = 0
  /\ clusterChanges = 0

-----------------------------------------------------------------------------
(* The API server: a write that changes an object is a watch event. *)

Claim(uid) == [uid |-> uid, fin |-> FALSE, deleting |-> FALSE, ref |-> FALSE]

SetClaim(c, obj) ==
  /\ claims' = [claims EXCEPT ![c] = obj]
  /\ claimEvents' = IF obj = claims[c] THEN claimEvents
                    ELSE Append(claimEvents, <<c, obj>>)

SetAddress(c, obj) ==
  /\ addrs' = [addrs EXCEPT ![c] = obj]
  /\ addrEvents' = IF obj = addrs[c] THEN addrEvents
                   ELSE Append(addrEvents, <<c, obj>>)

\* What a request to delete leaves of an object: finalizers keep it.
Deleted(obj) == IF obj.fin THEN [obj EXCEPT !.deleting = TRUE] ELSE None

\* What removing its finalizer leaves of an object.
Unprotected(obj) == IF obj.deleting THEN None ELSE [obj EXCEPT !.fin = FALSE]

-----------------------------------------------------------------------------
(* How a reconcile ends. *)

Fault(kind) ==
  /\ kind \in FaultKinds
  /\ faults < MaxFaults
  /\ faults' = faults + 1

Finish  == pc' = "idle" /\ job' = None
Done    == Finish /\ UNCHANGED queue
Requeue == Finish /\ queue' = queue \cup {job.name}
GoTo(l) == pc' = l /\ UNCHANGED <<job, queue>>

\* A write whose effect is Effect: it succeeds and the reconcile goes on with
\* Next, or it fails before or after it took effect and the error requeues.
Write(Effect, Ok, NoEffect) ==
  \/ Effect /\ Ok /\ UNCHANGED faults
  \/ Fault("lostReply") /\ Effect /\ Requeue
  \/ Fault("apiError") /\ NoEffect /\ Requeue

-----------------------------------------------------------------------------
(* Reconcile: claim, cluster and pool are read from the cache. *)

Job(c, found) ==
  [name |-> c, claim |-> claimCache[c], found |-> found,
   want |-> IF pool = None THEN NoIP ELSE pool.pre[c],
   network |-> IF pool = None THEN NoNetwork ELSE pool.network, ip |-> NoIP]

\* Mutant: a paused cluster blocks deletion too.
PausedBlocksDeletion(obj) == obj = None \/ clusterPaused

\* Nothing to do: no claim, or checkClusterPaused, which lets deletions through.
Ignored(obj) == obj = None \/ (clusterPaused /\ ~obj.deleting)

\* Mutant: the claim is let go without deleting its address.
DeleteNothing(addr) == "removeFinalizer"

\* Mutant: the address is deleted with its finalizer still there.
DeleteProtected(addr) == IF addr = None THEN "removeFinalizer" ELSE "deleteAddress"

\* reconcileDelete and deleteIPAddress
DeleteRoute(addr) ==
  IF addr = None THEN "removeFinalizer"
  ELSE IF addr.fin THEN "unprotectAddress" ELSE "deleteAddress"

\* Mutant: a claim without its pool is treated as a deleted one.
NoPoolDeletes(addr) ==
  IF pool = None THEN DeleteRoute(addr)
  ELSE IF pool.paused THEN "done" ELSE "ensureAddress"

\* reconcileNormal: FetchPool and the pool's pause
NormalRoute(addr) ==
  IF pool = None THEN "error"
  ELSE IF pool.paused THEN "done" ELSE "ensureAddress"

\* Where a reconcile of c goes first: the early returns of Reconcile.
Route(c) ==
  LET obj  == claimCache[c]
      addr == addrCache[c]
  IN  IF Ignored(obj) THEN "done"
      ELSE IF ~obj.fin THEN "addFinalizer"
      ELSE IF obj.deleting THEN DeleteRoute(addr) ELSE NormalRoute(addr)

\* Reconcile(c) that ends in an error leaves c on the queue.
Reconcile(c) ==
  /\ pc = "idle"
  /\ c \in queue
  /\ CASE Route(c) = "error" -> UNCHANGED <<pc, job, queue>>
       [] Route(c) = "done"  -> Finish /\ queue' = queue \ {c}
       [] OTHER -> /\ pc' = Route(c)
                   /\ job' = Job(c, addrCache[c])
                   /\ queue' = queue \ {c}
  /\ UNCHANGED <<apiVars, cacheVars, envVars, users, faults>>

AddFinalizer ==
  /\ pc = "addFinalizer"
  /\ LET obj == claims[job.name] IN
     IF obj = None THEN Requeue /\ UNCHANGED <<apiVars, faults>>
     ELSE /\ Write(SetClaim(job.name, [obj EXCEPT !.fin = TRUE]), Done,
                   UNCHANGED <<claims, claimEvents>>)
          /\ UNCHANGED <<addrs, addrEvents>>
  /\ UNCHANGED <<cacheVars, envVars, users>>

-----------------------------------------------------------------------------
(* EnsureAddress, GetOrAllocateIP and allocateNextIP. *)

AddressesInUse(cache) ==
  {<<d, cache[d].ip>> : d \in {e \in Claims : cache[e] # None}}

OwnUsers(network)    == {users[m].ip : m \in {n \in MACs : users[n].network = network}}
ForeignUsers(network) == {f[2] : f \in {g \in foreign : g[1] = network}}

\* Mutant: the users the controller created are not listed.
ForeignAssignments(network) == ForeignUsers(network)

\* GetStaticAssignments: the fixed IPs of the users in one network.
StaticAssignments(network) == OwnUsers(network) \cup ForeignUsers(network)

\* The addresses that UniFi users and the given IPAddresses hold.
Taken(inUse) == StaticAssignments(job.network) \cup {u[2] : u \in inUse}

Lowest(ips) == {i \in ips : \A j \in ips : i <= j}

\* Mutant: the requested IP of the annotation is not checked.
AllocateRequested(inUse) ==
  IF job.want # NoIP
  THEN {job.want} \cap (SubnetIPs \ Taken({u \in inUse : u[1] # job.name}))
  ELSE {Requested[job.name]} \cap SubnetIPs

\* Mutant: a pre-allocation in conflict falls back to dynamic allocation.
AllocateFallback(inUse) ==
  LET free == SubnetIPs \ Taken({u \in inUse : u[1] # job.name})
  IN  IF job.want \in free THEN {job.want}
      ELSE IF Requested[job.name] # NoIP THEN {Requested[job.name]} \cap free
      ELSE Lowest(free \ {Gateway})

\* The address allocateNextIP returns, in a set that is empty on an error: the
\* pre-allocated one, else the one the annotation requests, else the lowest.
AllocateNextIP(inUse) ==
  IF job.want # NoIP
  THEN {job.want} \cap (SubnetIPs \ Taken({u \in inUse : u[1] # job.name}))
  ELSE IF Requested[job.name] # NoIP
  THEN {Requested[job.name]} \cap (SubnetIPs \ Taken(inUse))
  ELSE Lowest(SubnetIPs \ (Taken(inUse) \cup {Gateway}))

\* Mutant: any address of the pool counts.
AnyAddressAllocated(c) == \E d \in Claims : addrCache[d] # None

IsAddressAllocated(c) == addrCache[c] # None

Carry(l, ip) == pc' = l /\ job' = [job EXCEPT !.ip = ip] /\ UNCHANGED queue

AllocateIP ==
  LET choice == AllocateNextIP(AddressesInUse(addrCache))
  IN  IF choice = {} THEN Requeue
      ELSE \E ip \in choice : Carry("createUser", ip)

\* GetUserByMAC finds the user, in whatever network it is, or fails as it may,
\* or finds none.  Only a NotFoundError ends the attempt; any other error leads
\* on to an allocation, which may fail at its own requests.
GetOrAllocateIP ==
  LET user == users[MacOf[job.name]]
  IN  \/ user.ip # NoIP /\ Carry("writeAddress", user.ip) /\ UNCHANGED faults
      \/ /\ user.ip = NoIP
         /\ IF absentReply = "notFound" THEN Requeue ELSE AllocateIP
         /\ UNCHANGED faults
      \/ Fault("apiError") /\ (AllocateIP \/ Requeue)

\* allocateIP: the network is the one configured in the pool or discovered.
EnsureAddress ==
  /\ pc = "ensureAddress"
  /\ IF IsAddressAllocated(job.name)
     THEN /\ Carry("writeAddress", IF job.found = None THEN NoIP ELSE job.found.ip)
          /\ UNCHANGED faults
     ELSE IF job.network = NoNetwork THEN Requeue /\ UNCHANGED faults
     ELSE GetOrAllocateIP
  /\ UNCHANGED <<apiVars, cacheVars, envVars, users>>

\* The UniFi controller refuses a second user with the same MAC.
CreateUser ==
  /\ pc = "createUser"
  /\ LET mac == MacOf[job.name] IN
     IF users[mac].ip # NoIP THEN Requeue /\ UNCHANGED <<users, faults>>
     ELSE Write(users' = [users EXCEPT ![mac] = [ip |-> job.ip, network |-> job.network]],
                GoTo("writeAddress"), UNCHANGED users)
  /\ UNCHANGED <<apiVars, cacheVars, envVars>>

-----------------------------------------------------------------------------
(* The rest of createOrPatchAddress, and reconcileNormal to its end. *)

\* Mutant: the owner reference of an existing address is left alone.
WantedKeepsOwner(obj) == [obj EXCEPT !.ip = job.ip, !.fin = TRUE]

\* The IPAddress after the mutate function of createOrPatchAddress.
Wanted(obj) == [obj EXCEPT !.ip = job.ip, !.owner = job.claim.uid, !.fin = TRUE]

\* Mutant: an address that exists already is overwritten.
CreateOverwrites ==
  /\ job.found = None
  /\ Write(SetAddress(job.name, [ip |-> job.ip, owner |-> job.claim.uid,
                                 fin |-> TRUE, deleting |-> FALSE]),
           GoTo("waitForAddress"), UNCHANGED <<addrs, addrEvents>>)
  /\ UNCHANGED <<claims, claimEvents>>

Create ==
  /\ job.found = None
  /\ IF addrs[job.name] # None THEN Requeue /\ UNCHANGED <<apiVars, faults>>
     ELSE /\ Write(SetAddress(job.name, [ip |-> job.ip, owner |-> job.claim.uid,
                                         fin |-> TRUE, deleting |-> FALSE]),
                   GoTo("waitForAddress"), UNCHANGED <<addrs, addrEvents>>)
          /\ UNCHANGED <<claims, claimEvents>>

\* The patch holds the fields in which the mutated copy differs from the copy
\* found in the cache; when there are none, no request is made.
Patch ==
  /\ job.found # None
  /\ LET now == addrs[job.name]
         patched == [now EXCEPT
            !.ip    = IF job.ip # job.found.ip THEN job.ip ELSE @,
            !.owner = job.claim.uid,
            !.fin   = TRUE]
     IN  IF Wanted(job.found) = job.found
         THEN GoTo("waitForAddress") /\ UNCHANGED <<apiVars, faults>>
         ELSE IF now = None THEN Requeue /\ UNCHANGED <<apiVars, faults>>
         ELSE /\ Write(SetAddress(job.name, patched), GoTo("waitForAddress"),
                       UNCHANGED <<addrs, addrEvents>>)
              /\ UNCHANGED <<claims, claimEvents>>

WriteAddress ==
  /\ pc = "writeAddress"
  /\ Create \/ Patch
  /\ UNCHANGED <<cacheVars, envVars, users>>

\* Mutant: the reconcile does not wait.
DoNotWait ==
  /\ pc = "waitForAddress"
  /\ GoTo("setAddressRef")
  /\ UNCHANGED <<apiVars, cacheVars, envVars, users, faults>>

WaitForAddressInCache ==
  /\ pc = "waitForAddress"
  /\ \/ addrCache[job.name] # None /\ GoTo("setAddressRef") /\ UNCHANGED faults
     \/ addrCache[job.name] = None /\ Fault("cacheTimeout") /\ Requeue
  /\ UNCHANGED <<apiVars, cacheVars, envVars, users>>

\* The deferred patch of Reconcile with claim.Status.AddressRef set.
SetAddressRef ==
  /\ pc = "setAddressRef"
  /\ LET obj == claims[job.name] IN
     IF job.claim.ref THEN Done /\ UNCHANGED <<apiVars, faults>>
     ELSE IF obj = None THEN Requeue /\ UNCHANGED <<apiVars, faults>>
     ELSE /\ Write(SetClaim(job.name, [obj EXCEPT !.ref = TRUE]), Done,
                   UNCHANGED <<claims, claimEvents>>)
          /\ UNCHANGED <<addrs, addrEvents>>
  /\ UNCHANGED <<cacheVars, envVars, users>>

-----------------------------------------------------------------------------
(* reconcileDelete: ReleaseAddress does nothing, then the address goes, then *)
(* the claim's finalizer.                                                    *)

UnprotectAddress ==
  /\ pc = "unprotectAddress"
  /\ LET obj == addrs[job.name] IN
     IF obj = None THEN GoTo("deleteAddress") /\ UNCHANGED <<apiVars, faults>>
     ELSE /\ Write(SetAddress(job.name, Unprotected(obj)), GoTo("deleteAddress"),
                   UNCHANGED <<addrs, addrEvents>>)
          /\ UNCHANGED <<claims, claimEvents>>
  /\ UNCHANGED <<cacheVars, envVars, users>>

DeleteAddress ==
  /\ pc = "deleteAddress"
  /\ LET obj == addrs[job.name] IN
     IF obj = None THEN GoTo("removeFinalizer") /\ UNCHANGED <<apiVars, faults>>
     ELSE /\ Write(SetAddress(job.name, Deleted(obj)), GoTo("removeFinalizer"),
                   UNCHANGED <<addrs, addrEvents>>)
          /\ UNCHANGED <<claims, claimEvents>>
  /\ UNCHANGED <<cacheVars, envVars, users>>

RemoveFinalizer ==
  /\ pc = "removeFinalizer"
  /\ LET obj == claims[job.name] IN
     IF obj = None THEN Requeue /\ UNCHANGED <<apiVars, faults>>
     ELSE /\ Write(SetClaim(job.name, Unprotected(obj)), Done,
                   UNCHANGED <<claims, claimEvents>>)
          /\ UNCHANGED <<addrs, addrEvents>>
  /\ UNCHANGED <<cacheVars, envVars, users>>

-----------------------------------------------------------------------------
(* Watch events reach the caches, and the caches the work queue. *)

DeliverClaimEvent ==
  /\ claimEvents # << >>
  /\ LET e == Head(claimEvents) IN
     /\ claimCache' = [claimCache EXCEPT ![e[1]] = e[2]]
     /\ queue' = queue \cup {e[1]}
  /\ claimEvents' = Tail(claimEvents)
  /\ UNCHANGED <<claims, addrs, addrCache, addrEvents, envVars, users, pc, job, faults>>

\* Owns(&IPAddress{}): an address event enqueues the claim that owns it.
DeliverAddressEvent ==
  /\ addrEvents # << >>
  /\ LET e == Head(addrEvents) IN
     /\ addrCache' = [addrCache EXCEPT ![e[1]] = e[2]]
     /\ queue' = queue \cup {e[1]}
  /\ addrEvents' = Tail(addrEvents)
  /\ UNCHANGED <<claims, addrs, claimCache, claimEvents, envVars, users, pc, job, faults>>

CachedClaims == {c \in Claims : claimCache[c] # None}

\* ResourceTransitionedToUnpaused and PoolNoLongerEmpty: WithPredicates wants
\* every predicate to accept the event.
PoolEventPasses(old, new) ==
  IF old = None THEN ~new.paused
  ELSE /\ old.paused /\ ~new.paused
       /\ old.free = "zero" /\ new.free = "some"

\* A pool update changes the metadata and spec or, through the status
\* subresource, the status; either may hold the network's ID.  A deletion event
\* passes and maps to the claims too.
PoolChange ==
  /\ poolChanges < MaxPoolChanges
  /\ poolChanges' = poolChanges + 1
  /\ \E new \in Pools :
       /\ new # pool
       /\ pool # None /\ new # None =>
            new.free = pool.free \/ (new.paused = pool.paused /\ new.pre = pool.pre)
       /\ pool' = new
       /\ queue' = IF new = None \/ PoolEventPasses(pool, new)
                   THEN queue \cup CachedClaims ELSE queue
  /\ UNCHANGED <<apiVars, cacheVars, unifiVars, clusterPaused, clusterChanges, users,
                 pc, job, made, faults>>

\* Mutant: nobody watches the Cluster.
ClusterUnwatched ==
  /\ clusterChanges < MaxClusterChanges
  /\ clusterChanges' = clusterChanges + 1
  /\ clusterPaused' = ~clusterPaused
  /\ UNCHANGED <<apiVars, cacheVars, unifiVars, pool, poolChanges, users, queue, pc,
                 job, made, faults>>

\* The paused -> unpaused update of the Cluster enqueues its claims.
ClusterPauseChange ==
  /\ clusterChanges < MaxClusterChanges
  /\ clusterChanges' = clusterChanges + 1
  /\ clusterPaused' = ~clusterPaused
  /\ queue' = IF clusterPaused THEN queue \cup CachedClaims ELSE queue
  /\ UNCHANGED <<apiVars, cacheVars, unifiVars, pool, poolChanges, users, pc, job, made,
                 faults>>

\* Somebody else fixes an address to a device in UniFi, or lets it go.
ForeignChange ==
  /\ \E f \in Foreign : foreign' = IF f \in foreign THEN foreign \ {f} ELSE foreign \cup {f}
  /\ UNCHANGED <<apiVars, cacheVars, pool, clusterPaused, made, poolChanges,
                 clusterChanges, absentReply, users, queue, pc, job, faults>>

-----------------------------------------------------------------------------
(* Users of the API server, and a restart of the manager. *)

CreateClaim(c) ==
  /\ claims[c] = None
  /\ made[c] < MaxIncarnations
  /\ made' = [made EXCEPT ![c] = @ + 1]
  /\ SetClaim(c, Claim(made[c] + 1))
  /\ UNCHANGED <<addrs, addrEvents, cacheVars, unifiVars, pool, clusterPaused,
                 poolChanges, clusterChanges, users, queue, pc, job, faults>>

RequestClaimDeletion(c) ==
  /\ claims[c] # None
  /\ ~claims[c].deleting
  /\ SetClaim(c, Deleted(claims[c]))
  /\ UNCHANGED <<addrs, addrEvents, cacheVars, envVars, users, queue, pc, job, faults>>

RequestAddressDeletion(c) ==
  /\ addrs[c] # None
  /\ ~addrs[c].deleting
  /\ SetAddress(c, Deleted(addrs[c]))
  /\ UNCHANGED <<claims, claimEvents, cacheVars, envVars, users, queue, pc, job, faults>>

\* The new process lists both kinds and reconciles everything it finds.
Crash ==
  /\ Fault("crash")
  /\ Finish
  /\ claimCache' = claims
  /\ addrCache' = addrs
  /\ claimEvents' = << >>
  /\ addrEvents' = << >>
  /\ queue' = {c \in Claims : claims[c] # None \/ addrs[c] # None}
  /\ UNCHANGED <<claims, addrs, envVars, users>>

-----------------------------------------------------------------------------
Worker ==
  \/ \E c \in Claims : Reconcile(c)
  \/ AddFinalizer
  \/ EnsureAddress
  \/ CreateUser
  \/ WriteAddress
  \/ WaitForAddressInCache
  \/ SetAddressRef
  \/ UnprotectAddress
  \/ DeleteAddress
  \/ RemoveFinalizer

Environment ==
  \/ PoolChange
  \/ ClusterPauseChange
  \/ ForeignChange
  \/ Crash
  \/ \E c \in Claims : \/ CreateClaim(c)
                       \/ RequestClaimDeletion(c)
                       \/ RequestAddressDeletion(c)

Next == Worker \/ DeliverClaimEvent \/ DeliverAddressEvent \/ Environment

Spec == Init /\ [][Next]_vars

\* The steps of a running reconcile, without the choice of the next one.
Step == pc # "idle" /\ Worker

\* The watch streams and a running reconcile make progress, and the work queue
\* is a FIFO: a name on it is taken in the end, so that SF is what it offers.
Fairness ==
  /\ WF_vars(DeliverClaimEvent)
  /\ WF_vars(DeliverAddressEvent)
  /\ WF_vars(Step)
  /\ \A c \in Claims : SF_vars(Reconcile(c))

FairSpec == Spec /\ Fairness

-----------------------------------------------------------------------------
(* Properties. *)

ApiTypeOK ==
  /\ claims \in [Claims -> ClaimObjects \cup {None}]
  /\ addrs \in [Claims -> AddressObjects \cup {None}]
  /\ claimEvents \in Seq(Claims \X (ClaimObjects \cup {None}))
  /\ addrEvents \in Seq(Claims \X (AddressObjects \cup {None}))

CacheTypeOK ==
  /\ claimCache \in [Claims -> ClaimObjects \cup {None}]
  /\ addrCache \in [Claims -> AddressObjects \cup {None}]

WorkerTypeOK ==
  /\ queue \subseteq Claims
  /\ \/ pc = "idle" /\ job = None
     \/ /\ pc \in {"addFinalizer", "ensureAddress", "createUser",
                   "writeAddress", "waitForAddress", "setAddressRef",
                   "unprotectAddress", "deleteAddress", "removeFinalizer"}
        /\ job \in Jobs

EnvTypeOK ==
  /\ pool \in Pools
  /\ clusterPaused \in BOOLEAN
  /\ users \in [MACs -> UserObjects]
  /\ foreign \subseteq Foreign
  /\ absentReply \in AbsentReplies
  /\ made \in [Claims -> Nat]
  /\ faults \in Nat
  /\ poolChanges \in Nat
  /\ clusterChanges \in Nat

\* The types of the variables; the worker holds a job exactly while it is busy.
TypeOK == ApiTypeOK /\ CacheTypeOK /\ WorkerTypeOK /\ EnvTypeOK

\* No two UniFi users the controller created have one fixed IP in one network:
\* GetStaticAssignments is read for one network, and the user created, in two
\* calls, with crashes and lost replies in between, and the pool may be given
\* another network and its old one again (GetOrAllocateIP).
FixedIPsUnique ==
  \A m, n \in MACs : users[m].ip # NoIP /\ users[m] = users[n] => m = n

\* Every IPAddress carries a real address, and it is the fixed IP of its
\* claim's MAC: whatever versions of the address the Get of CreateOrPatch and
\* the list of EnsureAddress saw, no address is written without an allocation.
AddressIsFixedIP ==
  \A c \in Claims : addrs[c] # None =>
    /\ addrs[c].ip # NoIP
    /\ addrs[c].ip = users[MacOf[c]].ip

\* No two claims are served the same address: "Skip gateway and allocated IPs".
NoSharedAddress ==
  \A c, d \in Claims :
    addrs[c] # None /\ addrs[d] # None /\ c # d => addrs[c].ip # addrs[d].ip

\* Two claims are served the same address only if their names give one MAC
\* (generateMACAddress) or if they were given it in two networks that the pool
\* has had, in spite of leaked users, retries and lagging caches.
SharingExplained ==
  \A c, d \in Claims :
    addrs[c] # None /\ addrs[d] # None /\ addrs[c].ip = addrs[d].ip =>
      \/ MacOf[c] = MacOf[d]
      \/ users[MacOf[c]].network # users[MacOf[d]].network

\* A live claim whose status refers to an address has one that exists, is
\* protected, and is owned by this incarnation of the claim, not by an earlier
\* one of the same name that a cache still shows (reconcileNormal).
BoundClaimIsServed ==
  \A c \in Claims :
    claims[c] # None /\ claims[c].ref /\ ~claims[c].deleting =>
      /\ addrs[c] # None
      /\ addrs[c].fin
      /\ addrs[c].owner = claims[c].uid

\* No address outlives its claim: reconcileDelete decides from the cache that
\* there is nothing to delete, which is right because reconcileNormal waited
\* for the cache to show the address (ReleaseAddressFinalizer).
NoOrphanAddress == \A c \in Claims : addrs[c] # None => claims[c] # None

\* An address does not lose its finalizer, nor disappear, before the deletion
\* of its claim is requested (ProtectAddressFinalizer).
AddressProtected ==
  [][\A c \in Claims :
       addrs[c] # None /\ addrs[c].fin /\ (addrs'[c] # None => ~addrs'[c].fin) =>
         claims[c] = None \/ claims[c].deleting]_vars

\* A fixed IP that is assigned while the pool the reconcile fetched pre-allocates
\* one to the claim is that one, whatever the annotation asks, whoever holds it
\* and however often it was tried: "Takes priority over dynamic allocation".
\* A fixed IP assigned before the pre-allocation stays (GetOrAllocateIP).
PreAllocationHonoured ==
  [][\A m \in MACs :
       users[m].ip = NoIP /\ users'[m].ip # NoIP /\ job.want # NoIP =>
         users'[m].ip = job.want]_vars

\* A claim that stays is bound in the end once its cluster and its pool stay
\* there and unpaused and the pool has a network, if its MAC has a user or UniFi
\* does not answer NotFoundError for one that has none: that answer is taken for
\* a failure.  A pool that is unpaused wakes nobody, so that this is about pools
\* that were never paused.
ClaimEventuallyBound ==
  /\ <>[](~clusterPaused /\ pool # None /\ pool.network # NoNetwork)
  /\ [](pool # None => ~pool.paused)
  => \A c \in Claims :
       /\ claims[c] # None
       /\ absentReply # "notFound" \/ users[MacOf[c]].ip # NoIP
       ~> claims[c] = None \/ claims[c].deleting \/ claims[c].ref

\* A claim whose deletion is requested goes away, even if its cluster is paused.
ClaimEventuallyGone ==
  \A c \in Claims :
    claims[c] # None /\ claims[c].deleting ~> claims[c] = None \/ ~claims[c].deleting

-----------------------------------------------------------------------------
(* The controller implements the contract of LeaseContract: a claim leases *)
(* the address that the IPAddress of its name carries, in the network of its *)
(* UniFi user, for the device that has its MAC.                             *)

PhaseOf(obj) == IF obj = None THEN "absent"
                ELSE IF obj.deleting THEN "leaving" ELSE "live"

NoLease  == <<NoNetwork, NoIP>>
Lease(c) == IF addrs[c] = None THEN NoLease
            ELSE <<users[MacOf[c]].network, addrs[c].ip>>

Contract == INSTANCE LeaseContract WITH
  DeviceOf <- MacOf,
  Leases <- (Networks \cup {NoNetwork}) \X IPs,
  phase <- [c \in Claims |-> PhaseOf(claims[c])],
  lease <- [c \in Claims |-> Lease(c)]

\* Every step of the controller and of its environment is a step of the
\* contract or leaves all leases alone.
ImplementsContract == Contract!Spec
=============================================================================
