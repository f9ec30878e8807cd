------------------------------ MODULE Provider ------------------------------
(***************************************************************************)
(* The manager: the claim controller and the pool controller in one        *)
(* process, with one informer cache of the IPAddresses between them.  Each *)
(* runs as its own module has it, on these variables; what that module     *)
(* leaves to its environment is here done by the other controller.  The    *)
(* claim controller creates and deletes the addresses that the pool        *)
(* controller counts, and the pool controller's writes are the pool events *)
(* that wake the claims.  A request of either may fail, and more in the    *)
(* pool controller.  Left to those modules are crashes, which here would   *)
(* restart both, lost replies to the claim controller and its wait for the *)
(* cache, which may leave an address without a claim, the edits of a pool, *)
(* which may move it to another network, its resync, the pause of a        *)
(* Cluster, and a change of the instance or of the network.                *)
(*                                                                         *)
(* ClaimSide and PoolSide say that nothing happens here that the modules   *)
(* do not expect, so that their safety properties hold of the whole.       *)
(***************************************************************************)
EXTENDS Integers, Sequences, FiniteSets

CONSTANTS
  Claims,          \* names of IPAddressClaims that refer to the pool
  IPs,             \* the addresses of the pool's subnet, positive numbers
  MACs, MacOf,     \* generateMACAddress: the MAC of each claim name
  ClaimFaultKinds, \* the faults of the claim controller's requests
  PoolFaultKinds,  \* and those of the pool controller's
  MaxFaults,       \* bound on the number of each
  MaxIncarnations, \* bound on how often a claim name is created
  MaxPools,        \* bound on how often the pool is created
  MaxPoolViews,    \* bound on the changes of the pool that the claims see
  MaxBacklog,      \* bound on the address events on their way
  None             \* an object that does not exist

ASSUME ProviderAssumption ==
  /\ IsFiniteSet(Claims) /\ IsFiniteSet(IPs)
  /\ IPs \subseteq Nat \ {0}
  /\ MacOf \in [Claims -> MACs]
  /\ ClaimFaultKinds \subseteq {"apiError"}
  /\ PoolFaultKinds \subseteq {"apiError", "lostReply", "unifiError"}
  /\ MaxFaults \in Nat /\ MaxIncarnations \in Nat /\ MaxPools \in Nat
  /\ MaxPoolViews \in Nat /\ MaxBacklog \in Nat

VARIABLES
  claims, claimEvents, claimCache,  \* the IPAddressClaims
  addrs, addrEvents, addrCache,     \* the IPAddresses
  users,                            \* the UniFi users
  claimQueue, claimPc, claimJob,    \* the claim controller's queue and worker
  pool, poolEvents, poolCache,      \* the UnifiIPPool
  poolQueued, poolTimers, poolPc, poolJob, \* the pool controller's
  claimFaults, poolFaults,          \* failed requests of each so far
  made, pools,                      \* claims and pools created so far
  created,                          \* history: the addresses created so far
  poolViews                         \* history: pool changes the claims have seen

claimSide == <<claims, claimEvents, claimCache, addrs, addrEvents, addrCache,
               users, claimQueue, claimPc, claimJob, claimFaults, made>>
poolSide  == <<pool, poolEvents, poolCache, poolQueued, poolTimers, poolPc,
               poolJob, poolFaults, pools>>

vars == <<claimSide, poolSide, created, poolViews>>

\* A subnet of its own, with every address but the gateway free at first.
PoolSize == Cardinality(IPs)

\* The network that the pool names, and none.
Network   == 1
NoNetwork == 0

\* A pool with so much free, unpaused and without pre-allocations.
PoolWith(free) ==
  [paused |-> FALSE, free |-> free, pre |-> [c \in Claims |-> 0], network |-> Network]

\* What the claim controller reads of a pool: its free addresses.
View(obj) ==
  IF obj = None THEN None
  ELSE PoolWith(IF obj.status.used = -1 THEN "unknown"
                ELSE IF obj.status.used >= PoolSize THEN "zero" ELSE "some")

Views == {PoolWith(free) : free \in {"unknown", "zero", "some"}} \cup {None}

\* An IPAddress among all that have its name: that of one claim.
Identity(c, owner) == <<c, owner>>

Identities == Claims \X (1 .. MaxIncarnations)

Existing(addresses) ==
  {Identity(c, addresses[c].owner) : c \in {d \in Claims : addresses[d] # None}}

\* The event of a removal is about the address that the cache has.
AddressNotice(e) ==
  [name   |-> Identity(e[1], IF e[2] # None THEN e[2].owner ELSE addrCache[e[1]].owner),
   exists |-> e[2] # None]

AddressNotices == [i \in DOMAIN addrEvents |-> AddressNotice(addrEvents[i])]

\* The address that a running reconcile may still create.
Allocating ==
  IF /\ claimPc \in {"ensureAddress", "createUser", "writeAddress"}
     /\ claimJob.found = None
     /\ addrs[claimJob.name] = None
  THEN Identity(claimJob.name, claimJob.claim.uid) ELSE None

C == INSTANCE LeaseInvariant WITH
  SubnetIPs <- IPs, Gateway <- 0, Networks <- {Network}, Pools <- Views,
  Requested <- [c \in Claims |-> 0], Foreign <- {}, AbsentReplies <- {"otherError"},
  FaultKinds <- ClaimFaultKinds, MaxPoolChanges <- MaxPoolViews, MaxClusterChanges <- 0,
  pool <- View(poolCache), clusterPaused <- ~TRUE, foreign <- {},
  absentReply <- "otherError", queue <- claimQueue, pc <- claimPc, job <- claimJob,
  faults <- claimFaults, poolChanges <- poolViews, clusterChanges <- 0

P == INSTANCE PoolController WITH
  Addresses <- Identities, Outside <- {}, NetworkConfigured <- TRUE,
  Webhooks <- FALSE, FaultKinds <- PoolFaultKinds, MaxEdits <- 0, MaxChanges <- 0,
  addrs <- Existing(addrs), addrCache <- Existing(addrCache),
  addrEvents <- AddressNotices,
  instance <- "ready", network <- "match", queued <- poolQueued,
  timers <- poolTimers, pc <- poolPc, job <- poolJob,
  allocating <- Allocating, faults <- poolFaults, changes <- 0

\* None is neither an object nor a name in either module.
ASSUME NoneAssumption ==
  /\ None \notin C!ClaimObjects /\ None \notin C!AddressObjects
  /\ None \notin C!PoolObjects /\ None \notin C!Jobs
  /\ None \notin P!PoolObjects /\ None \notin P!Jobs /\ None \notin Identities

Init ==
  /\ poolCache = None
  /\ poolViews = 0
  /\ C!Init
  /\ created = {}
  /\ pool = None
  /\ poolEvents = << >>
  /\ poolQueued = FALSE
  /\ poolTimers = {}
  /\ poolPc = "idle"
  /\ poolJob = None
  /\ poolFaults = 0
  /\ pools = 0

-----------------------------------------------------------------------------
\* A step of the claim side alone.
ClaimStep(Action) ==
  /\ UNCHANGED <<poolSide, poolViews>>
  /\ Action
  /\ Len(addrEvents') <= MaxBacklog
  /\ created' = created \cup Existing(addrs')

ReconcileClaim(c) == ClaimStep(C!Reconcile(c))
ClaimWorker       == ClaimStep(C!Step)
DeliverClaimEvent == ClaimStep(C!DeliverClaimEvent)

\* A step of the pool side alone.
PoolStep(Action) ==
  /\ UNCHANGED <<claimSide, created, poolViews>>
  /\ Action

ReconcilePool == PoolStep(P!Reconcile)
PoolWorker    == PoolStep(P!Step)
Retry         == PoolStep(P!TimerFires("retry"))

\* Mutant: the pool controller does not watch the addresses.
AddressEventForClaims ==
  /\ UNCHANGED <<poolSide, poolViews, created>>
  /\ C!DeliverAddressEvent

\* An address event enqueues the claim of the address and the pool it is from.
DeliverAddressEvent ==
  /\ poolQueued' = TRUE
  /\ UNCHANGED <<pool, poolEvents, poolCache, poolTimers, poolPc, poolJob, poolFaults,
                 pools, poolViews, created>>
  /\ C!DeliverAddressEvent

PoolEventOf(queueOf(_, _)) ==
  /\ UNCHANGED <<claims, claimEvents, claimCache, addrs, addrEvents, addrCache,
                 users, claimPc, claimJob, claimFaults, made, created>>
  /\ poolViews < MaxPoolViews
  /\ claimQueue' = queueOf(View(poolCache), View(Head(poolEvents)))
  /\ P!DeliverPoolEvent
  /\ poolViews' = poolViews + (IF View(poolCache') = View(poolCache) THEN 0 ELSE 1)

WokenClaims(old, new) ==
  IF new = None \/ C!PoolEventPasses(old, new) THEN claimQueue \cup C!CachedClaims
  ELSE claimQueue

\* Mutant: the claim controller does not watch the pool.
PoolEventForPool == poolEvents # << >> /\ PoolEventOf(LAMBDA old, new : claimQueue)

\* A pool event enqueues the pool, and its claims if it passes the predicates.
DeliverPoolEvent == poolEvents # << >> /\ PoolEventOf(WokenClaims)

Users ==
  \/ \E c \in Claims : \/ ClaimStep(C!CreateClaim(c))
                       \/ ClaimStep(C!RequestClaimDeletion(c))
                       \/ ClaimStep(C!RequestAddressDeletion(c))
  \/ PoolStep(P!CreatePool)
  \/ PoolStep(P!RequestPoolDeletion)

Next ==
  \/ \E c \in Claims : ReconcileClaim(c)
  \/ ClaimWorker
  \/ DeliverClaimEvent
  \/ DeliverAddressEvent
  \/ DeliverPoolEvent
  \/ ReconcilePool
  \/ PoolWorker
  \/ Retry
  \/ Users

\* As in the two modules: watches, workers and the retry make progress, and a
\* name on the claims' queue is taken in the end.
Fairness ==
  /\ WF_vars(DeliverClaimEvent)
  /\ WF_vars(DeliverAddressEvent)
  /\ WF_vars(DeliverPoolEvent)
  /\ WF_vars(ClaimWorker)
  /\ \A c \in Claims : SF_vars(ReconcileClaim(c))
  /\ WF_vars(ReconcilePool)
  /\ WF_vars(PoolWorker)
  /\ WF_vars(Retry)

Spec == Init /\ [][Next]_vars /\ Fairness

-----------------------------------------------------------------------------
(* Properties. *)

\* The pool controller and the shared cache are an environment that the claim
\* controller's module allows: every pool event it sees is one of PoolChange,
\* which says what an event may change at once and which events wake claims.
ClaimSide == C!Spec

\* The claim controller is the one the pool controller's module assumes: it
\* creates an address only in an attempt that found the pool, one at a time and
\* each once, and wakes the pool with every change of an address.
PoolSide == P!Spec

\* A pool does not go while its status lists the address of a claim that is bound
\* and stays: the claim's finalizer and the pool's, put there by two controllers
\* that read caches of their own, hold what the claim refers to together.
ServedClaimsHoldPool ==
  [][pool # None /\ pool' = None =>
       \A c \in Claims :
         claims[c] # None /\ claims[c].ref /\ ~claims[c].deleting =>
           Identity(c, claims[c].uid) \notin pool.status.allocations]_vars

\* When the claims that stay are settled, the pool's status lists exactly their
\* addresses, whatever the order of the events of the two kinds.
StatusFollowsClaims == P!StatusConverges

\* Claims and pool may be deleted together and in either order: once every
\* claim is on its way out, a pool that is being deleted goes, since no claim
\* needs its pool to release an address, and no address outlives its claim.
DeletionFollowsClaims ==
  <>[](\A c \in Claims : claims[c] = None \/ claims[c].deleting) =>
    (pool # None /\ pool.deleting ~> pool = None \/ ~pool.deleting)
=============================================================================
