--------------------------- MODULE ProviderProofs ---------------------------
(***************************************************************************)
(* Theorems about Provider: each controller is an environment that the     *)
(* other's module allows, and what is proved of the two modules holds of   *)
(* the manager that runs both, for any claims, addresses and bounds.       *)
(***************************************************************************)
EXTENDS ProviderInvariant, EventLemmas, FiniteSetTheorems, TLAPS

\* The theorems about the claim controller, on these variables as C has them.
CL == INSTANCE LeaseProofs WITH
  SubnetIPs <- IPs, Gateway <- 0, Networks <- {Network}, Pools <- Views,
  Requested <- [c \in Claims |-> 0], Foreign <- {}, AbsentReplies <- {"otherError"},
  FaultKinds <- ClaimFaultKinds, MaxPoolChanges <- MaxPoolViews, MaxClusterChanges <- 0,
  pool <- View(poolCache), clusterPaused <- ~TRUE, foreign <- {},
  absentReply <- "otherError", queue <- claimQueue, pc <- claimPc, job <- claimJob,
  faults <- claimFaults, poolChanges <- poolViews, clusterChanges <- 0

\* And those about the pool controller, as P has them.
PP == INSTANCE PoolControllerProofs WITH
  Addresses <- Identities, Outside <- {}, NetworkConfigured <- TRUE,
  Webhooks <- FALSE, FaultKinds <- PoolFaultKinds, MaxEdits <- 0, MaxChanges <- 0,
  addrs <- Existing(addrs), addrCache <- Existing(addrCache),
  addrEvents <- AddressNotices,
  instance <- "ready", network <- "match", queued <- poolQueued,
  timers <- poolTimers, pc <- poolPc, job <- poolJob,
  allocating <- Allocating, faults <- poolFaults, changes <- 0

-----------------------------------------------------------------------------
(* The assumptions of the two modules hold here, and the instances are those  *)
(* of Provider.                                                               *)

\* A pool as the claims see it is one that their module knows.
LEMMA PoolsSeen ==
  ASSUME NEW free \in {"unknown", "zero", "some"}
  PROVE  PoolWith(free) \in CL!PoolObjects
  BY DEF PoolWith, CL!PoolObjects, CL!NoIP

\* What DataAssumption and EnvironmentAssumption say here.
LEMMA ClaimData ==
  /\ IPs \subseteq Nat \ {CL!NoIP}
  /\ IPs \subseteq IPs
  /\ 0 \in IPs \cup {CL!NoIP}
  /\ NoNetwork \notin {Network}
  /\ {} \subseteq {Network} \X IPs
  /\ MacOf \in [Claims -> MACs]
  /\ Views \subseteq CL!PoolObjects \cup {None}
  /\ [c \in Claims |-> 0] \in [Claims -> IPs \cup {CL!NoIP}]
  /\ {"otherError"} \subseteq {"nil", "notFound", "otherError"}
  /\ ClaimFaultKinds \subseteq {"apiError", "lostReply", "cacheTimeout", "crash"}
  /\ MaxFaults \in Nat
  /\ 0 \in Nat
  /\ MaxIncarnations \in Nat
  /\ MaxPoolViews \in Nat
  BY ProviderAssumption, PoolsSeen DEF CL!NoIP, Network, NoNetwork, Views

\* What its NoneAssumption says.
LEMMA ClaimNone ==
  /\ None \notin CL!ClaimObjects
  /\ None \notin CL!AddressObjects
  /\ None \notin CL!PoolObjects
  /\ None \notin CL!Jobs
  BY NoneAssumption DEF CL!ClaimObjects, CL!AddressObjects, CL!PoolObjects, CL!Jobs, CL!NoIP,
     C!ClaimObjects, C!AddressObjects, C!PoolObjects, C!Jobs, C!NoIP

\* Every reply arrives here, and the cache shows a new address in time.
LEMMA ClaimsReliable == CL!Reliable
  BY ProviderAssumption DEF CL!Reliable

\* The manager does not restart here.
LEMMA NoCrash == ~CL!Crash /\ ~PP!Crash
  BY ProviderAssumption DEF CL!Crash, CL!Fault, PP!Crash, PP!Fault

\* Different views differ in the free addresses.
LEMMA Viewed ==
  ASSUME NEW obj
  PROVE  /\ View(obj) \in Views
         /\ View(obj) = None <=> obj = None
         /\ obj # None => /\ View(obj).paused = FALSE /\ ~View(obj).paused
                          /\ View(obj).pre = [c \in Claims |-> 0]
  <1>1. CASE obj = None
    BY <1>1 DEF View, Views
  <1>2. CASE obj # None
    <2>1. PICK free \in {"unknown", "zero", "some"} : View(obj) = PoolWith(free)
      BY <1>2 DEF View
    <2>2. View(obj) # None
      BY <2>1, PoolsSeen, ClaimNone
    <2>3. View(obj) \in Views
      BY <2>1 DEF Views
    <2>4. /\ View(obj).paused = FALSE /\ ~View(obj).paused
          /\ View(obj).pre = [c \in Claims |-> 0]
      BY <2>1 DEF PoolWith
    <2> QED
      BY <1>2, <2>2, <2>3, <2>4
  <1> QED
    BY <1>1, <1>2

\* What PoolAssumption says here.
LEMMA PoolData ==
  /\ PP!IsFiniteSet(Identities)
  /\ {} \subseteq Identities
  /\ PoolSize \in Nat
  /\ TRUE \in BOOLEAN /\ FALSE \in BOOLEAN
  /\ PoolFaultKinds \subseteq {"apiError", "lostReply", "unifiError", "crash"}
  /\ MaxFaults \in Nat /\ 0 \in Nat /\ MaxPools \in Nat /\ MaxBacklog \in Nat
  <1>1. PP!IsFiniteSet(Identities)
    <2>1. IsFiniteSet(Claims) /\ IsFiniteSet(1 .. MaxIncarnations)
      BY ProviderAssumption, FS_Interval
    <2>2. IsFiniteSet(Identities)
      BY <2>1, FS_Product DEF Identities
    <2> QED
      BY <2>2 DEF PP!IsFiniteSet, IsFiniteSet
  <1>2. PoolSize \in Nat
    BY ProviderAssumption, FS_CardinalityType DEF PoolSize
  <1> QED
    BY <1>1, <1>2, ProviderAssumption

\* What NoPoolAssumption says.
LEMMA PoolNone ==
  None \notin PP!PoolObjects /\ None \notin PP!Jobs /\ None \notin Identities
  BY NoneAssumption DEF PP!PoolObjects, PP!Jobs, PP!StatusObjects, PP!Conditions, PP!Unset,
     P!PoolObjects, P!Jobs, P!StatusObjects, P!Conditions, P!Unset

\* The claim controller of LeaseProofs is the one of Provider.
LEMMA SameClaimController ==
  /\ UNCHANGED C!vars <=> UNCHANGED CL!vars
  /\ C!Init <=> CL!Init
  /\ C!Worker <=> CL!Worker
  /\ C!Environment <=> CL!Environment
  /\ C!DeliverClaimEvent <=> CL!DeliverClaimEvent
  /\ C!DeliverAddressEvent <=> CL!DeliverAddressEvent
  /\ C!Next <=> CL!Next
  <1> USE DEF
     C!NoIP, CL!NoIP, C!apiVars, CL!apiVars, C!cacheVars, CL!cacheVars, C!envVars,
     CL!envVars, C!unifiVars, CL!unifiVars, C!NoUser, CL!NoUser, C!SetClaim, CL!SetClaim, C!SetAddress, CL!SetAddress, C!Deleted,
     CL!Deleted, C!Unprotected, CL!Unprotected, C!Fault, CL!Fault, C!Finish, CL!Finish,
     C!Done, CL!Done, C!Requeue, CL!Requeue, C!GoTo, CL!GoTo, C!Write, CL!Write,
     C!Carry, CL!Carry, C!PoolObjects, CL!PoolObjects, C!CachedClaims, CL!CachedClaims
  <1>1. (UNCHANGED C!vars <=> UNCHANGED CL!vars) /\ (C!Init <=> CL!Init)
    BY DEF C!vars, CL!vars, C!Init, CL!Init
  <1>2. \A c \in Claims : C!Reconcile(c) <=> CL!Reconcile(c)
    BY DEF C!Job, CL!Job, C!Ignored, CL!Ignored, C!DeleteRoute, CL!DeleteRoute,
       C!NormalRoute, CL!NormalRoute, C!Route, CL!Route, C!Reconcile, CL!Reconcile
  <1>3. C!EnsureAddress <=> CL!EnsureAddress
    BY DEF C!AddressesInUse, CL!AddressesInUse, C!OwnUsers, CL!OwnUsers, C!ForeignUsers,
       CL!ForeignUsers, C!StaticAssignments, CL!StaticAssignments,
       C!Taken, CL!Taken, C!Lowest, CL!Lowest, C!AllocateNextIP, CL!AllocateNextIP,
       C!IsAddressAllocated, CL!IsAddressAllocated, C!AllocateIP, CL!AllocateIP,
       C!GetOrAllocateIP, CL!GetOrAllocateIP, C!EnsureAddress, CL!EnsureAddress
  <1>4. /\ C!CreateUser <=> CL!CreateUser
        /\ C!WriteAddress <=> CL!WriteAddress
        /\ C!WaitForAddressInCache <=> CL!WaitForAddressInCache
        /\ C!UnprotectAddress <=> CL!UnprotectAddress
        /\ C!DeleteAddress <=> CL!DeleteAddress
    BY DEF C!CreateUser, CL!CreateUser, C!Wanted, CL!Wanted, C!Create, CL!Create, C!Patch,
       CL!Patch, C!WriteAddress, CL!WriteAddress, C!WaitForAddressInCache,
       CL!WaitForAddressInCache, C!UnprotectAddress, CL!UnprotectAddress,
       C!DeleteAddress, CL!DeleteAddress
  <1>5. /\ C!AddFinalizer <=> CL!AddFinalizer
        /\ C!SetAddressRef <=> CL!SetAddressRef
        /\ C!RemoveFinalizer <=> CL!RemoveFinalizer
    BY DEF C!AddFinalizer, CL!AddFinalizer, C!SetAddressRef, CL!SetAddressRef,
       C!RemoveFinalizer, CL!RemoveFinalizer
  <1>6. C!Worker <=> CL!Worker
    BY <1>2, <1>3, <1>4, <1>5 DEF C!Worker, CL!Worker
  <1>7. C!Environment <=> CL!Environment
    BY DEF C!Claim, CL!Claim, C!PoolEventPasses, CL!PoolEventPasses, C!PoolChange,
       CL!PoolChange, C!ClusterPauseChange, CL!ClusterPauseChange, C!ForeignChange,
       CL!ForeignChange, C!CreateClaim,
       CL!CreateClaim, C!RequestClaimDeletion, CL!RequestClaimDeletion,
       C!RequestAddressDeletion, CL!RequestAddressDeletion, C!Crash, CL!Crash,
       C!Environment, CL!Environment
  <1>8. /\ C!DeliverClaimEvent <=> CL!DeliverClaimEvent
        /\ C!DeliverAddressEvent <=> CL!DeliverAddressEvent
    BY DEF C!DeliverClaimEvent, CL!DeliverClaimEvent, C!DeliverAddressEvent,
       CL!DeliverAddressEvent
  <1> QED
    BY <1>1, <1>6, <1>7, <1>8 DEF C!Next, CL!Next

\* So are the claims that leave.
LEMMA SameLeaving ==
  ASSUME NEW c \in Claims
  PROVE  (C!Leaving(c) <=> CL!Leaving(c)) /\ (C!Leaving(c)' <=> CL!Leaving(c)')
  BY DEF C!Leaving, CL!Leaving, C!Current, CL!Current, C!ClaimVersions, CL!ClaimVersions,
     C!ClaimAt, CL!ClaimAt, C!Versions, CL!Versions, C!Version, CL!Version

\* And the pool controller of PoolControllerProofs is the one of Provider.
LEMMA SamePoolController ==
  /\ UNCHANGED P!vars <=> UNCHANGED PP!vars
  /\ P!Init <=> PP!Init
  /\ P!Next <=> PP!Next
  <1> USE DEF
     P!Unset, PP!Unset, P!Conditions, PP!Conditions, P!NoConditions, PP!NoConditions,
     P!poolVars, PP!poolVars, P!addrVars, PP!addrVars, P!cacheVars, PP!cacheVars,
     P!worldVars, PP!worldVars, P!workerVars, PP!workerVars, P!SetPool, PP!SetPool,
     P!Unprotected, PP!Unprotected, P!Fault, PP!Fault, P!Finish, PP!Finish, P!Failed,
     PP!Failed, P!Done, PP!Done, P!RequeueAfter, PP!RequeueAfter, P!Write, PP!Write,
     P!Admitted, PP!Admitted, P!Update, PP!Update, P!StatusWrite, PP!StatusWrite,
     P!MetaWrite, PP!MetaWrite
  <1>1. (UNCHANGED P!vars <=> UNCHANGED PP!vars) /\ (P!Init <=> PP!Init)
    BY DEF P!vars, PP!vars, P!Init, PP!Init
  <1>2. P!Reconcile <=> PP!Reconcile
    BY DEF P!DeletionRoute, PP!DeletionRoute, P!Route, PP!Route, P!Reconcile, PP!Reconcile
  <1>3. \A S : P!Cardinality(S) = PP!Cardinality(S)
    BY DEF P!Cardinality, PP!Cardinality
  <1>4. P!Step <=> PP!Step
    <2> USE <1>3 DEF
       P!Merge, PP!Merge, P!SetCondition, PP!SetCondition, P!Computed, PP!Computed,
       P!Proceed, PP!Proceed, P!Synced, PP!Synced, P!Utilization, PP!Utilization,
       P!WithConditions, PP!WithConditions
    <2>1. P!Discover <=> PP!Discover
      BY DEF P!Discover, PP!Discover
    <2>2. P!SyncWithUnifi <=> PP!SyncWithUnifi
      BY DEF P!SyncWithUnifi, PP!SyncWithUnifi
    <2>3. P!AddFinalizer <=> PP!AddFinalizer
      BY DEF P!AddFinalizer, PP!AddFinalizer
    <2>4. P!WriteStatus <=> PP!WriteStatus
      BY DEF P!WriteStatus, PP!WriteStatus
    <2>5. P!WriteConditions <=> PP!WriteConditions
      BY DEF P!WriteConditions, PP!WriteConditions
    <2>6. P!RemoveFinalizer <=> PP!RemoveFinalizer
      BY DEF P!RemoveFinalizer, PP!RemoveFinalizer
    <2> QED
      BY <2>1, <2>2, <2>3, <2>4, <2>5, <2>6 DEF P!Step, PP!Step
  <1>5. P!Worker <=> PP!Worker
    BY <1>2, <1>4 DEF P!Worker, PP!Worker
  <1>6. P!Delivery <=> PP!Delivery
    BY DEF P!DeliverPoolEvent, PP!DeliverPoolEvent, P!DeliverAddressEvent,
       PP!DeliverAddressEvent, P!TimerFires, PP!TimerFires, P!Delivery, PP!Delivery
  <1>7. P!ClaimController <=> PP!ClaimController
    BY DEF P!CreateAddress, PP!CreateAddress, P!GiveUp, PP!GiveUp, P!FetchPool,
       PP!FetchPool, P!UpdateAddress, PP!UpdateAddress, P!DeleteAddress,
       PP!DeleteAddress, P!ClaimController, PP!ClaimController
  <1>8. P!Environment <=> PP!Environment
    BY DEF P!NewStatus, PP!NewStatus, P!NewPool, PP!NewPool, P!CreatePool, PP!CreatePool,
       P!EditPool, PP!EditPool, P!RequestPoolDeletion, PP!RequestPoolDeletion,
       P!InstanceChanges, PP!InstanceChanges, P!NetworkChanges, PP!NetworkChanges,
       P!Crash, PP!Crash, P!Environment, PP!Environment
  <1> QED
    BY <1>1, <1>5, <1>6, <1>7, <1>8 DEF P!Next, PP!Next

-----------------------------------------------------------------------------
(* What the invariants say of the variables.                                  *)

\* With the inductive invariants of the two modules ProviderInv is inductive.
Whole == ProviderInv /\ CL!LInv /\ PP!PInv

Notice == [name : Claims \X Nat, exists : BOOLEAN]

\* The types of the claim side.
ClaimSideTypes ==
  /\ addrs \in [Claims -> CL!AddressOrNone]
  /\ addrCache \in [Claims -> CL!AddressOrNone]
  /\ addrEvents \in Seq(Claims \X CL!AddressOrNone)
  /\ claims \in [Claims -> CL!ClaimObjects \cup {None}]
  /\ made \in [Claims -> Nat]

LEMMA ClaimTypes == CL!LInv => ClaimSideTypes
  BY DEF CL!LInv, CL!IInv, CL!TypeOK, CL!ApiTypeOK, CL!CacheTypeOK, CL!EnvTypeOK,
     CL!AddressOrNone, ClaimSideTypes

\* An address that is there has an owner.
LEMMA Owners ==
  /\ \A obj \in CL!AddressObjects : obj # None /\ obj.owner \in Nat
  /\ \A obj \in CL!AddressOrNone : obj # None => obj \in CL!AddressObjects
  BY ClaimNone DEF CL!AddressOrNone, CL!AddressObjects

\* Those of the pool side.
LEMMA PoolSideTypes ==
  ASSUME PP!PInv
  PROVE  /\ poolEvents \in Seq(PP!PoolObjects \cup {None})
         /\ Existing(addrs) \subseteq created /\ created \subseteq Identities
         /\ Allocating \in (Identities \ created) \cup {None}
  BY DEF PP!PInv, PP!TypeOK

\* An event of a removal is about an address that the cache has.
LEMMA RemovalIsCached ==
  ASSUME CL!LInv, NEW i \in 1..Len(addrEvents), addrEvents[i][2] = None
  PROVE  addrEvents[i][1] \in Claims /\ addrCache[addrEvents[i][1]] # None
  <1>1. addrEvents[i] \in Claims \X CL!AddressOrNone
    BY ClaimTypes DEF ClaimSideTypes
  <1> QED
    BY <1>1 DEF CL!LInv, CL!IInv, CL!EventInv, CL!NewIsProtected, CL!Protected

\* What the notices of the address events are.
NoticesOK ==
  /\ Len(addrEvents) \in Nat
  /\ AddressNotices \in Seq(Notice) /\ Len(AddressNotices) = Len(addrEvents)
  /\ \A i \in 1..Len(addrEvents) : AddressNotices[i] = AddressNotice(addrEvents[i])

LEMMA Notices == CL!LInv => NoticesOK
  <1> SUFFICES ASSUME CL!LInv PROVE NoticesOK
    OBVIOUS
  <1>1. addrEvents \in Seq(Claims \X CL!AddressOrNone) /\ Len(addrEvents) \in Nat
        /\ DOMAIN addrEvents = 1..Len(addrEvents)
    BY ClaimTypes DEF ClaimSideTypes
  <1>2. ASSUME NEW i \in 1..Len(addrEvents)
        PROVE  AddressNotice(addrEvents[i]) \in Notice
    <2> DEFINE e == addrEvents[i]
    <2>1. e[1] \in Claims /\ e[2] \in CL!AddressOrNone
      BY <1>1
    <2>2. CASE e[2] # None
      BY <2>1, <2>2, Owners DEF AddressNotice, Identity, Notice
    <2>3. CASE e[2] = None
      <3>1. addrCache[e[1]] # None /\ addrCache[e[1]] \in CL!AddressOrNone
        BY <2>1, <2>3, RemovalIsCached, ClaimTypes DEF ClaimSideTypes
      <3> QED
        BY <2>1, <2>3, <3>1, Owners DEF AddressNotice, Identity, Notice
    <2> QED
      BY <2>2, <2>3
  <1>3. AddressNotices = [i \in 1..Len(addrEvents) |-> AddressNotice(addrEvents[i])]
    BY <1>1 DEF AddressNotices
  <1>4. AddressNotices \in Seq(Notice)
    BY <1>1, <1>2, <1>3
  <1> QED
    BY <1>1, <1>3, <1>4 DEF NoticesOK

\* Both hold after a step when the invariant does.
LEMMA TypesNext == CL!LInv' => ClaimSideTypes' /\ NoticesOK'
  BY ClaimTypes, Notices, PTL

\* A sequence that has one element more than another.
LEMMA OneMore ==
  ASSUME NEW S, NEW s \in Seq(S), NEW t \in Seq(S), NEW e \in S,
         Len(t) = Len(s) + 1, t[Len(s) + 1] = e, \A i \in 1..Len(s) : t[i] = s[i]
  PROVE  t = Append(s, e)
  OBVIOUS

\* A sequence that lacks the first element of another.
LEMMA OneLess ==
  ASSUME NEW S, NEW s \in Seq(S), NEW t \in Seq(S), s # << >>,
         Len(t) = Len(s) - 1, \A i \in 1..Len(t) : t[i] = s[i + 1]
  PROVE  t = Tail(s)
  OBVIOUS

\* The address that a reconcile may still create is of its claim's incarnation.
LEMMA AllocatingIs ==
  ASSUME Whole
  PROVE  IF CL!Creates
         THEN /\ claimJob.name \in Claims
              /\ Allocating = Identity(claimJob.name, claimJob.claim.uid)
              /\ Allocating \in Identities /\ Allocating # None
         ELSE Allocating = None
  <1>1. Allocating = IF CL!Creates THEN Identity(claimJob.name, claimJob.claim.uid) ELSE None
    BY DEF Allocating, CL!Creates, CL!Allocating
  <1>2. CASE CL!Creates
    <2> DEFINE c == claimJob.name
    <2>1. claimPc # "idle" /\ claimPc \in CL!Normal
      BY <1>2 DEF CL!Creates, CL!Allocating, CL!Normal
    <2>2. c \in Claims /\ claimJob # None
      BY <2>1, CL!Busy, ClaimData, ClaimNone DEF Whole, CL!LInv, CL!IInv
    <2>3. claims[c] # None /\ claims[c].uid = claimJob.claim.uid /\ claims[c].uid = made[c]
      BY <2>1, <2>2 DEF Whole, CL!LInv, CL!ReconcileKnows, CL!ServesCurrent, CL!Current,
         CL!FreshUIDs
    <2>4. claims[c].uid \in 1 .. MaxIncarnations
      BY <2>2, <2>3, ClaimTypes, ProviderAssumption
         DEF ClaimSideTypes, Whole, ProviderInv, IncarnationsBounded
    <2>5. Identity(c, claims[c].uid) \in Identities
      BY <2>2, <2>4 DEF Identity, Identities
    <2> QED
      BY <1>1, <1>2, <2>2, <2>3, <2>5, PoolNone
  <1> QED
    BY <1>1, <1>2

-----------------------------------------------------------------------------
(* The pool controller and the shared cache are an environment that the claim *)
(* controller's module allows.                                                *)

\* A step of the claim side: one of the claim controller, of the watch of the
\* claims or of their users.
ClaimSideActs ==
  /\ CL!Worker \/ CL!DeliverClaimEvent \/ CL!Environment
  /\ UNCHANGED <<poolSide, poolViews>>
  /\ Len(addrEvents') <= MaxBacklog
  /\ created' = created \cup Existing(addrs')

\* A step of the pool side: one of its worker, of a timer or of the pool's users.
PoolSideActs ==
  /\ PP!Next
  /\ UNCHANGED <<claimSide, poolCache, created, poolViews>>

\* Each step is of one side, or a delivery that both see.
LEMMA Sides ==
  ASSUME [Next]_vars
  PROVE  ClaimSideActs \/ PoolSideActs \/ DeliverAddressEvent \/ DeliverPoolEvent
         \/ UNCHANGED vars
  <1>1. CASE \/ \E c \in Claims : \/ ReconcileClaim(c)
                                  \/ ClaimStep(C!CreateClaim(c))
                                  \/ ClaimStep(C!RequestClaimDeletion(c))
                                  \/ ClaimStep(C!RequestAddressDeletion(c))
             \/ ClaimWorker \/ DeliverClaimEvent
    BY <1>1, SameClaimController
       DEF ReconcileClaim, ClaimWorker, DeliverClaimEvent, ClaimStep, ClaimSideActs, C!Step,
           C!Worker, C!Environment
  <1>2. CASE \/ ReconcilePool \/ PoolWorker \/ Retry
             \/ PoolStep(P!CreatePool) \/ PoolStep(P!RequestPoolDeletion)
    <2>1. PP!Next /\ UNCHANGED <<claimSide, created, poolViews>>
      BY <1>2, SamePoolController
         DEF ReconcilePool, PoolWorker, Retry, PoolStep, P!Next, P!Worker, P!Delivery,
             P!TimerFires, P!Environment
    <2>2. UNCHANGED poolCache
      BY <1>2
         DEF ReconcilePool, PoolWorker, Retry, PoolStep, P!Reconcile, P!Step, P!Discover,
             P!SyncWithUnifi, P!AddFinalizer, P!WriteStatus, P!WriteConditions,
             P!RemoveFinalizer, P!TimerFires, P!CreatePool, P!RequestPoolDeletion, P!cacheVars
    <2> QED
      BY <2>1, <2>2 DEF PoolSideActs
  <1> QED
    BY <1>1, <1>2 DEF Next, Users

\* A pool event wakes the claims if it is one that changes what they see.
LEMMA PoolEventForClaims ==
  ASSUME PoolComesAndGoes, poolEvents \in Seq(PP!PoolObjects \cup {None}),
         poolViews \in Nat, DeliverPoolEvent
  PROVE  CL!PoolChange \/ UNCHANGED CL!vars
  <1> DEFINE old == poolCache
             new == Head(poolEvents)
  <1>1. /\ poolCache' = new /\ poolEvents # << >>
        /\ claimQueue' = WokenClaims(View(old), View(new))
        /\ poolViews < MaxPoolViews
        /\ poolViews' = poolViews + (IF View(new) = View(old) THEN 0 ELSE 1)
        /\ UNCHANGED <<claims, claimEvents, claimCache, addrs, addrEvents, addrCache,
                       users, claimPc, claimJob, claimFaults, made>>
    BY DEF DeliverPoolEvent, PoolEventOf, P!DeliverPoolEvent
  <1>2. View(poolCache)' = View(new)
    BY <1>1
  <1>3. CASE View(new) # View(old)
    <2>1. /\ View(new) \in Views
          /\ View(old) # None /\ View(new) # None =>
               View(new).paused = View(old).paused /\ View(new).pre = View(old).pre
      BY Viewed
    <2>2. claimQueue' = IF View(new) = None \/ CL!PoolEventPasses(View(old), View(new))
                        THEN claimQueue \cup CL!CachedClaims ELSE claimQueue
      BY <1>1 DEF WokenClaims, C!PoolEventPasses, CL!PoolEventPasses, C!CachedClaims,
         CL!CachedClaims
    <2>3. UNCHANGED <<CL!apiVars, CL!cacheVars, CL!unifiVars>>
      BY <1>1 DEF CL!apiVars, CL!cacheVars, CL!unifiVars
    <2>4. \E v \in Views :
            /\ v # View(poolCache)
            /\ View(poolCache) # None /\ v # None =>
                 \/ v.free = View(poolCache).free
                 \/ v.paused = View(poolCache).paused /\ v.pre = View(poolCache).pre
            /\ View(poolCache)' = v
            /\ claimQueue' = IF v = None \/ CL!PoolEventPasses(View(poolCache), v)
                             THEN claimQueue \cup CL!CachedClaims ELSE claimQueue
      BY <1>2, <1>3, <2>1, <2>2
    <2>5. poolViews < MaxPoolViews /\ poolViews' = poolViews + 1
      BY <1>1, <1>3
    <2> QED
      BY <1>1, <2>3, <2>4, <2>5 DEF CL!PoolChange
  <1>4. CASE View(new) = View(old)
    <2>1. new # None
      <3>1. new = None => old # None
        BY <1>1 DEF PoolComesAndGoes, PoolVersion
      <3> QED
        BY <1>4, <3>1, Viewed
    <2>2. ~C!PoolEventPasses(View(old), View(new)) /\ View(new) # None
      <3>1. View(new) # None
        BY <2>1, Viewed
      <3>2. View(old) # None /\ old # None
        BY <1>4, <3>1, Viewed
      <3>3. ~View(old).paused
        BY <3>2, Viewed
      <3> HIDE DEF old, new
      <3> QED
        BY <3>1, <3>2, <3>3 DEF C!PoolEventPasses
    <2>3. claimQueue' = claimQueue /\ poolViews' = poolViews
      BY <1>1, <1>4, <2>2, Viewed DEF WokenClaims
    <2> QED
      BY <1>1, <1>2, <1>4, <2>3 DEF CL!vars
  <1> QED
    BY <1>3, <1>4

\* Every step is one of the claim controller's module.
LEMMA ClaimSideStep ==
  ASSUME Whole, [Next]_vars
  PROVE  [CL!Next]_(CL!vars)
  <1>1. CASE UNCHANGED <<claimSide, poolCache, poolViews>>
    BY <1>1 DEF CL!vars, claimSide
  <1>2. CASE UNCHANGED vars
    BY <1>1, <1>2 DEF vars, poolSide
  <1>3. CASE PoolSideActs
    BY <1>1, <1>3 DEF PoolSideActs
  <1>4. CASE DeliverAddressEvent
    BY <1>4, SameClaimController DEF DeliverAddressEvent, CL!Next
  <1>5. CASE DeliverPoolEvent
    <2>1. /\ PoolComesAndGoes /\ poolViews \in Nat
          /\ poolEvents \in Seq(PP!PoolObjects \cup {None})
      BY PoolSideTypes DEF Whole, ProviderInv, CL!LInv, CL!IInv, CL!TypeOK, CL!EnvTypeOK
    <2> QED
      BY <1>5, <2>1, PoolEventForClaims DEF CL!Next, CL!Environment
  <1>6. CASE ClaimSideActs
    BY <1>6 DEF ClaimSideActs, CL!Next
  <1> QED
    BY <1>2, <1>3, <1>4, <1>5, <1>6, Sides

-----------------------------------------------------------------------------
(* The claim controller is the one that the pool controller's module assumes. *)

\* What a write of an address does to the addresses as the pool controller knows
\* them.
LEMMA ExistingWritten ==
  ASSUME addrs \in [Claims -> CL!AddressOrNone], NEW c \in Claims, NEW obj,
         addrs' = [addrs EXCEPT ![c] = obj]
  PROVE  Existing(addrs') =
           {a \in Existing(addrs) : a[1] # c}
             \cup (IF obj = None THEN {} ELSE {Identity(c, obj.owner)})
  BY DEF Existing, Identity

\* And to the notices of their events: one more.
LEMMA NoticeWritten ==
  ASSUME CL!LInv, CL!LInv', NEW c \in Claims, NEW obj, UNCHANGED addrCache,
         addrEvents' = Append(addrEvents, <<c, obj>>),
         obj = None => addrCache[c] # None
  PROVE  /\ AddressNotices' = Append(AddressNotices, AddressNotice(<<c, obj>>))
         /\ Len(addrEvents') = Len(addrEvents) + 1
  <1>1. /\ addrEvents \in Seq(Claims \X CL!AddressOrNone)
        /\ addrEvents' \in Seq(Claims \X CL!AddressOrNone)
    BY ClaimTypes, TypesNext DEF ClaimSideTypes
  <1>2. /\ Len(addrEvents') = Len(addrEvents) + 1
        /\ addrEvents'[Len(addrEvents) + 1] = <<c, obj>>
        /\ \A i \in 1..Len(addrEvents) : addrEvents'[i] = addrEvents[i]
        /\ Len(addrEvents) \in Nat
    BY <1>1
  <1>3. /\ AddressNotices' \in Seq(Notice) /\ Len(AddressNotices') = Len(addrEvents')
        /\ \A i \in 1..Len(addrEvents') : AddressNotices'[i] = AddressNotice(addrEvents'[i])
    BY TypesNext DEF NoticesOK, AddressNotice
  <1>4. AddressNotice(<<c, obj>>) = AddressNotices'[Len(addrEvents) + 1]
    <2>1. Len(addrEvents) + 1 \in 1..Len(addrEvents')
      BY <1>2
    <2> QED
      BY <1>2, <1>3, <2>1
  <1>5. AddressNotices \in Seq(Notice) /\ Len(AddressNotices) = Len(addrEvents)
        /\ \A i \in 1..Len(addrEvents) : AddressNotices'[i] = AddressNotices[i]
    BY <1>2, <1>3, Notices DEF NoticesOK
  <1> DEFINE s == AddressNotices
             t == AddressNotices'
             e == AddressNotice(<<c, obj>>)
  <1>6. /\ s \in Seq(Notice) /\ t \in Seq(Notice) /\ e \in Notice
        /\ Len(t) = Len(s) + 1 /\ t[Len(s) + 1] = e /\ \A i \in 1..Len(s) : t[i] = s[i]
    BY <1>2, <1>3, <1>4, <1>5
  <1> HIDE DEF s, t, e
  <1>7. t = Append(s, e)
    BY <1>6, OneMore
  <1> QED
    BY <1>2, <1>7 DEF s, t, e

\* The address that a reconcile may create after a step.
NextAllocating ==
  IF CL!Creates' THEN Identity(claimJob'.name, claimJob'.claim.uid) ELSE None

\* An attempt for an address starts, ends, or goes on.
LEMMA AddressesKeptForPool ==
  ASSUME Whole, UNCHANGED poolSide, created' = created \cup Existing(addrs'),
         CL!AddressesKept
  PROVE  [PP!ClaimController]_(PP!vars)
  <1>1. /\ UNCHANGED <<addrs, addrCache, addrEvents>>
        /\ Existing(addrs)' = Existing(addrs) /\ Existing(addrCache)' = Existing(addrCache)
        /\ AddressNotices' = AddressNotices
    BY DEF CL!AddressesKept, Existing, AddressNotices, AddressNotice
  <1>2. UNCHANGED created
    BY <1>1, PoolSideTypes DEF Whole
  <1>3. Allocating' = NextAllocating
    BY DEF Allocating, NextAllocating, CL!Creates, CL!Allocating
  <1>4. CASE Allocating' = Allocating
    BY <1>1, <1>2, <1>4 DEF PP!vars, poolSide
  <1>5. CASE Allocating' = None /\ Allocating # None
    BY <1>1, <1>2, <1>5
       DEF PP!ClaimController, PP!GiveUp, PP!poolVars, PP!cacheVars, PP!worldVars,
           PP!workerVars, poolSide
  <1>6. CASE CL!SameCreates
    BY <1>3, <1>4, <1>6, AllocatingIs DEF CL!SameCreates, NextAllocating
  <1>7. ASSUME NEW c \in Claims, CL!StartsCreating(c), ~CL!Creates, CL!Creates'
        PROVE  [PP!ClaimController]_(PP!vars)
    <2> DEFINE a == Identity(c, claims[c].uid)
    <2>1. /\ View(poolCache) # None /\ addrs[c] = None /\ claims[c] # None
          /\ ~CL!Leaving(c) /\ Allocating' = a
      BY <1>3, <1>7 DEF CL!StartsCreating, NextAllocating
    <2>2. poolCache # None
      BY <2>1, Viewed
    <2>3. a \notin created
      BY <2>1, SameLeaving DEF Whole, ProviderInv, ReleasedLeaves
    <2>4. a \in Identities
      <3>1. claims[c].uid \in 1 .. MaxIncarnations
        BY <2>1, ClaimTypes, ProviderAssumption
           DEF ClaimSideTypes, Whole, ProviderInv, IncarnationsBounded, CL!LInv, CL!FreshUIDs
      <3> QED
        BY <3>1 DEF Identity, Identities
    <2>5. Allocating = None
      BY <1>7, AllocatingIs
    <2>6. PP!FetchPool(a)
      BY <1>1, <1>2, <2>1, <2>2, <2>3, <2>5
         DEF PP!FetchPool, PP!poolVars, PP!cacheVars, PP!worldVars, PP!workerVars, poolSide
    <2> QED
      BY <2>4, <2>6 DEF PP!ClaimController
  <1>8. CASE ~CL!Creates'
    BY <1>3, <1>4, <1>5, <1>8 DEF NextAllocating
  <1> QED
    BY <1>6, <1>7, <1>8 DEF CL!AddressesKept

\* Or it ends with the address created.
LEMMA AddressCreatedForPool ==
  ASSUME Whole, CL!LInv', UNCHANGED poolSide, created' = created \cup Existing(addrs'),
         CL!AddressCreated
  PROVE  PP!ClaimController
  <1> DEFINE c == claimJob.name
             a == Identity(c, claimJob.claim.uid)
  <1>1. /\ CL!Creates /\ ~CL!Creates' /\ UNCHANGED addrCache
        /\ addrs[c] = None
    BY DEF CL!AddressCreated, CL!Creates
  <1>2. c \in Claims /\ Allocating = a /\ Allocating # None
    BY <1>1, AllocatingIs
  <1>3. PICK obj \in CL!AddressObjects :
          obj.owner = claimJob.claim.uid /\ CL!SetAddress(c, obj)
    BY DEF CL!AddressCreated
  <1>4. obj # None
    BY Owners
  <1>5. /\ addrs' = [addrs EXCEPT ![c] = obj]
        /\ addrEvents' = Append(addrEvents, <<c, obj>>)
    BY <1>1, <1>3, <1>4 DEF CL!SetAddress
  <1>6. Existing(addrs') = Existing(addrs) \cup {a}
    <2>1. \A b \in Existing(addrs) : b[1] # c
      BY <1>1 DEF Existing, Identity
    <2>2. addrs \in [Claims -> CL!AddressOrNone]
      BY ClaimTypes DEF ClaimSideTypes, Whole
    <2>3. Existing(addrs') = {b \in Existing(addrs) : b[1] # c} \cup {Identity(c, obj.owner)}
      BY <1>2, <1>4, <1>5, <2>2, ExistingWritten
    <2> QED
      BY <1>3, <2>1, <2>3
  <1>7. AddressNotices' = Append(AddressNotices, [name |-> a, exists |-> TRUE])
    <2>1. AddressNotice(<<c, obj>>) = [name |-> a, exists |-> TRUE]
      BY <1>3, <1>4 DEF AddressNotice
    <2> QED
      BY <1>1, <1>2, <1>4, <1>5, <2>1, NoticeWritten DEF Whole
  <1>8. Allocating' = None
    BY <1>1 DEF Allocating, CL!Creates, CL!Allocating
  <1>9. created' = created \cup {a}
    BY <1>6, PoolSideTypes DEF Whole
  <1>10. Existing(addrs)' = Existing(addrs') /\ Existing(addrCache)' = Existing(addrCache)
    BY <1>1 DEF Existing
  <1> QED
    BY <1>2, <1>6, <1>7, <1>8, <1>9, <1>10
       DEF PP!ClaimController, PP!CreateAddress, PP!poolVars, PP!cacheVars, PP!worldVars,
           PP!workerVars, poolSide

\* A patch leaves an address its claim's, and is one more notice of it.
LEMMA AddressUpdatedForPool ==
  ASSUME Whole, CL!LInv', UNCHANGED poolSide, created' = created \cup Existing(addrs'),
         Len(addrEvents') <= MaxBacklog, CL!AddressUpdated
  PROVE  [PP!ClaimController]_(PP!vars)
  <1>1. PICK c \in Claims, obj \in CL!AddressObjects :
          addrs[c] # None /\ obj.owner = addrs[c].owner /\ CL!SetAddress(c, obj)
    BY DEF CL!AddressUpdated
  <1> DEFINE a == Identity(c, addrs[c].owner)
  <1>2. obj # None /\ UNCHANGED addrCache
    BY Owners DEF CL!AddressUpdated
  <1>3. a \in Existing(addrs) /\ a \in Identities
    BY <1>1, PoolSideTypes DEF Existing, Whole
  <1>4. Existing(addrs') = Existing(addrs)
    <2>1. addrs \in [Claims -> CL!AddressOrNone] /\ addrs' = [addrs EXCEPT ![c] = obj]
      BY <1>1, ClaimTypes DEF ClaimSideTypes, Whole, CL!SetAddress
    <2>2. Existing(addrs') = {b \in Existing(addrs) : b[1] # c} \cup {a}
      BY <1>1, <1>2, <2>1, ExistingWritten
    <2>3. \A b \in Existing(addrs) : b[1] = c => b = a
      BY DEF Existing, Identity
    <2> QED
      BY <1>3, <2>2, <2>3
  <1>5. /\ UNCHANGED created
        /\ Existing(addrs)' = Existing(addrs) /\ Existing(addrCache)' = Existing(addrCache)
    BY <1>2, <1>4, PoolSideTypes DEF Existing, Whole
  <1>6. Allocating' = Allocating
    <2>1. Allocating' = NextAllocating
      BY DEF Allocating, NextAllocating, CL!Creates, CL!Allocating
    <2> QED
      BY <2>1, AllocatingIs DEF CL!AddressUpdated, CL!SameCreates, NextAllocating
  <1>7. CASE UNCHANGED addrEvents
    <2>1. AddressNotices' = AddressNotices
      BY <1>2, <1>7 DEF AddressNotices, AddressNotice
    <2> QED
      BY <1>5, <1>6, <2>1 DEF PP!vars, poolSide
  <1>8. CASE addrEvents' = Append(addrEvents, <<c, obj>>)
    <2>1. AddressNotice(<<c, obj>>) = [name |-> a, exists |-> TRUE]
      BY <1>1, <1>2 DEF AddressNotice
    <2>2. /\ AddressNotices' = Append(AddressNotices, [name |-> a, exists |-> TRUE])
          /\ Len(addrEvents') = Len(addrEvents) + 1
      BY <1>2, <1>8, <2>1, NoticeWritten DEF Whole
    <2>3. Len(AddressNotices) < MaxBacklog
      BY <2>2, Notices, ProviderAssumption DEF NoticesOK, Whole
    <2>4. PP!UpdateAddress(a)
      BY <1>3, <1>5, <1>6, <2>2, <2>3
         DEF PP!UpdateAddress, PP!poolVars, PP!cacheVars, PP!worldVars, PP!workerVars, poolSide
    <2> QED
      BY <1>3, <2>4 DEF PP!ClaimController
  <1> QED
    BY <1>1, <1>7, <1>8 DEF CL!SetAddress

\* The address of a claim that leaves is deleted; the pool controller is told of
\* the address it has.
LEMMA AddressDroppedForPool ==
  ASSUME Whole, CL!LInv', UNCHANGED poolSide, created' = created \cup Existing(addrs'),
         CL!AddressDropped
  PROVE  PP!ClaimController
  <1>1. PICK c \in Claims : addrs[c] # None /\ addrCache[c] # None /\ CL!SetAddress(c, None)
    BY DEF CL!AddressDropped
  <1> DEFINE a == Identity(c, addrs[c].owner)
  <1>2. UNCHANGED addrCache
    BY DEF CL!AddressDropped
  <1>3. a \in Existing(addrs) /\ a \in Identities
    BY <1>1, PoolSideTypes DEF Existing, Whole
  <1>4. /\ addrs' = [addrs EXCEPT ![c] = None]
        /\ addrEvents' = Append(addrEvents, <<c, None>>)
    BY <1>1 DEF CL!SetAddress
  <1>5. Existing(addrs') = Existing(addrs) \ {a}
    <2>1. Existing(addrs') = {b \in Existing(addrs) : b[1] # c} \cup {}
      BY <1>4, ExistingWritten, ClaimTypes DEF ClaimSideTypes, Whole
    <2>2. \A b \in Existing(addrs) : b[1] = c <=> b = a
      BY DEF Existing, Identity
    <2> QED
      BY <2>1, <2>2
  <1>6. /\ UNCHANGED created
        /\ Existing(addrs)' = Existing(addrs') /\ Existing(addrCache)' = Existing(addrCache)
    BY <1>2, <1>5, PoolSideTypes DEF Existing, Whole
  <1>7. AddressNotices' = Append(AddressNotices, [name |-> a, exists |-> FALSE])
    <2>1. addrCache[c].owner = addrs[c].owner
      BY <1>1 DEF Whole, CL!LInv, CL!OneOwner
    <2>2. AddressNotice(<<c, None>>) = [name |-> a, exists |-> FALSE]
      BY <2>1 DEF AddressNotice
    <2> QED
      BY <1>1, <1>2, <1>4, <2>2, NoticeWritten DEF Whole
  <1>8. Allocating' = Allocating
    <2>1. Allocating' = NextAllocating
      BY DEF Allocating, NextAllocating, CL!Creates, CL!Allocating
    <2> QED
      BY <2>1, AllocatingIs DEF CL!AddressDropped, CL!SameCreates, NextAllocating
  <1>9. PP!DeleteAddress(a)
    BY <1>3, <1>5, <1>6, <1>7, <1>8
       DEF PP!DeleteAddress, PP!poolVars, PP!cacheVars, PP!worldVars, PP!workerVars, poolSide
  <1> QED
    BY <1>3, <1>9 DEF PP!ClaimController

\* The event of an address reaches both controllers; the notices that follow are
\* about the addresses they were about.
LEMMA AddressEventForPool ==
  ASSUME Whole, CL!LInv', DeliverAddressEvent
  PROVE  PP!DeliverAddressEvent
  <1> DEFINE e == addrEvents[1]
             c == e[1]
             v == e[2]
  <1>1. /\ CL!DeliverAddressEvent /\ addrEvents # << >> /\ poolQueued' = TRUE
        /\ addrEvents \in Seq(Claims \X CL!AddressOrNone)
        /\ addrCache \in [Claims -> CL!AddressOrNone]
    BY SameClaimController, ClaimTypes
       DEF DeliverAddressEvent, CL!DeliverAddressEvent, Whole, ClaimSideTypes
  <1>2. /\ Head(addrEvents) = e /\ e \in Claims \X CL!AddressOrNone
        /\ 1 \in 1..Len(addrEvents) /\ Len(addrEvents) \in Nat
        /\ Len(Tail(addrEvents)) = Len(addrEvents) - 1
        /\ \A i \in 1..Len(Tail(addrEvents)) :
             /\ i + 1 \in 1..Len(addrEvents) /\ 1 < i + 1
             /\ Tail(addrEvents)[i] = addrEvents[i + 1]
    BY <1>1
  <1>3. /\ addrCache' = [addrCache EXCEPT ![c] = v] /\ addrEvents' = Tail(addrEvents)
        /\ UNCHANGED <<addrs, claimPc, claimJob>>
        /\ c \in Claims
    BY <1>1, <1>2 DEF CL!DeliverAddressEvent
  <1>4. /\ v = None => addrCache[c] # None
        /\ v # None /\ addrCache[c] # None => v.owner = addrCache[c].owner
    BY <1>2, RemovalIsCached DEF Whole, CL!LInv, CL!OneOwner
  <1> DEFINE a == Identity(c, IF v # None THEN v.owner ELSE addrCache[c].owner)
  <1>5. AddressNotices[1] = [name |-> a, exists |-> v # None]
    BY <1>2, Notices DEF NoticesOK, AddressNotice, Whole
  <1>6. Existing(addrCache') = IF v # None THEN Existing(addrCache) \cup {a}
                               ELSE Existing(addrCache) \ {a}
    <2>1. \A d \in Claims : addrCache'[d] = IF d = c THEN v ELSE addrCache[d]
      BY <1>1, <1>3
    <2> QED
      BY <1>3, <1>4, <2>1 DEF Existing, Identity
  <1>7. ASSUME NEW i \in 1..Len(addrEvents')
        PROVE  AddressNotices'[i] = AddressNotices[i + 1]
    <2> DEFINE f == addrEvents[i + 1]
    <2>1. i + 1 \in 1..Len(addrEvents) /\ addrEvents'[i] = f
      BY <1>2, <1>3
    <2>2. f[1] \in Claims
      BY <1>1, <2>1
    <2>3. f[2] # None \/ addrCache'[f[1]].owner = addrCache[f[1]].owner
      <3>1. CASE f[1] = c /\ f[2] = None
        <4>1. v # None
          BY <1>2, <2>1, <3>1 DEF Whole, CL!LInv, CL!IInv, CL!EventInv, CL!RemovalIsLast
        <4>2. addrCache[c] # None
          BY <2>1, <3>1, RemovalIsCached DEF Whole
        <4> QED
          BY <1>1, <1>3, <1>4, <3>1, <4>1, <4>2
      <3> QED
        BY <1>1, <1>3, <2>2, <3>1
    <2>4. AddressNotices[i + 1] =
            [name |-> Identity(f[1], IF f[2] # None THEN f[2].owner
                                     ELSE addrCache[f[1]].owner),
             exists |-> f[2] # None]
      BY <2>1, Notices DEF NoticesOK, AddressNotice, Whole
    <2>5. AddressNotices'[i] =
            [name |-> Identity(f[1], IF f[2] # None THEN f[2].owner
                                     ELSE addrCache'[f[1]].owner),
             exists |-> f[2] # None]
      BY <2>1, TypesNext DEF NoticesOK, AddressNotice
    <2> QED
      BY <2>3, <2>4, <2>5
  <1>8. AddressNotices # << >> /\ AddressNotices' = Tail(AddressNotices)
    <2> DEFINE s == AddressNotices
               t == AddressNotices'
    <2>1. /\ s \in Seq(Notice) /\ Len(s) = Len(addrEvents)
          /\ t \in Seq(Notice) /\ Len(t) = Len(addrEvents')
      BY Notices, TypesNext DEF NoticesOK, Whole
    <2>2. /\ s # << >> /\ Len(t) = Len(s) - 1
          /\ \A i \in 1..Len(t) : t[i] = s[i + 1]
      BY <1>2, <1>3, <1>7, <2>1
    <2> HIDE DEF s, t
    <2>3. t = Tail(s)
      BY <2>1, <2>2, OneLess
    <2> QED
      BY <2>2, <2>3 DEF s, t
  <1>9. Head(AddressNotices) = [name |-> a, exists |-> v # None]
    BY <1>5, <1>8, Notices DEF NoticesOK, Whole
  <1>10. Allocating' = Allocating /\ Existing(addrs)' = Existing(addrs)
         /\ Existing(addrCache)' = Existing(addrCache')
    BY <1>3 DEF Allocating, Existing
  <1>11. Existing(addrCache)' = IF Head(AddressNotices).exists
                                THEN Existing(addrCache) \cup {Head(AddressNotices).name}
                                ELSE Existing(addrCache) \ {Head(AddressNotices).name}
    <2>1. Head(AddressNotices).name = a /\ Head(AddressNotices).exists = (v # None)
      BY <1>9
    <2> HIDE DEF a
    <2>2. CASE v # None
      BY <1>6, <1>10, <2>1, <2>2
    <2>3. CASE v = None
      BY <1>6, <1>10, <2>1, <2>3
    <2> QED
      BY <2>2, <2>3
  <1> QED
    BY <1>1, <1>8, <1>10, <1>11
       DEF DeliverAddressEvent, PP!DeliverAddressEvent, PP!poolVars, PP!worldVars

\* Every step is one of the pool controller's module.
LEMMA PoolSideStep ==
  ASSUME Whole, CL!LInv', [Next]_vars
  PROVE  [PP!Next]_(PP!vars)
  <1>1. CASE UNCHANGED vars
    BY <1>1 DEF PP!vars, vars, claimSide, poolSide, Existing, AddressNotices, AddressNotice,
       Allocating
  <1>2. CASE PoolSideActs
    BY <1>2 DEF PoolSideActs
  <1>3. CASE DeliverPoolEvent
    BY <1>3, SamePoolController
       DEF DeliverPoolEvent, PoolEventOf, P!Next, P!Delivery
  <1>4. CASE DeliverAddressEvent
    BY <1>4, AddressEventForPool DEF PP!Next, PP!Delivery
  <1>5. CASE ClaimSideActs
    <2>1. ~CL!Crash
      BY NoCrash
    <2>2. \/ CL!AddressesKept \/ CL!AddressCreated \/ CL!AddressUpdated \/ CL!AddressDropped
      BY <1>5, <2>1, CL!AddressUse, ClaimData, ClaimNone, ClaimsReliable
         DEF ClaimSideActs, Whole
    <2> QED
      BY <1>5, <2>2, AddressesKeptForPool, AddressCreatedForPool, AddressUpdatedForPool,
         AddressDroppedForPool DEF ClaimSideActs, PP!Next
  <1> QED
    BY <1>1, <1>2, <1>3, <1>4, <1>5, Sides

-----------------------------------------------------------------------------
(* The invariant is inductive.                                                *)

\* A removal of the pool follows a version that was there, whoever writes it.
LEMMA PoolComesAndGoesNext ==
  ASSUME Whole, [PP!Next]_(PP!vars)
  PROVE  PoolComesAndGoes'
  <1>1. /\ PoolVersion(Len(poolEvents)) = pool
        /\ \A i \in 1..Len(poolEvents) : poolEvents[i] = None => PoolVersion(i - 1) # None
        /\ poolEvents \in Seq(PP!PoolObjects \cup {None})
        /\ Len(poolEvents) \in Nat
    BY PoolSideTypes DEF Whole, ProviderInv, PoolComesAndGoes
  <1>2. CASE UNCHANGED <<pool, poolEvents, poolCache>>
    BY <1>1, <1>2 DEF PoolComesAndGoes, PoolVersion
  <1>3. CASE pool' # pool /\ poolEvents' = Append(poolEvents, pool') /\ UNCHANGED poolCache
    <2>1. /\ Len(poolEvents') = Len(poolEvents) + 1
          /\ poolEvents'[Len(poolEvents) + 1] = pool'
          /\ \A i \in 1..Len(poolEvents) : poolEvents'[i] = poolEvents[i]
      BY <1>1, <1>3
    <2>2. \A i \in 0..Len(poolEvents) : PoolVersion(i)' = PoolVersion(i)
      BY <1>1, <1>3, <2>1 DEF PoolVersion
    <2>3. PoolVersion(Len(poolEvents))' = pool'
      BY <1>1, <2>1 DEF PoolVersion
    <2>4. ASSUME NEW i \in 1..Len(poolEvents'), poolEvents'[i] = None
          PROVE  PoolVersion(i - 1)' # None
      <3>1. i - 1 \in 0..Len(poolEvents) /\ PoolVersion(i - 1)' = PoolVersion(i - 1)
        BY <1>1, <2>1, <2>2
      <3>2. CASE i = Len(poolEvents) + 1
        BY <1>1, <1>3, <2>1, <2>4, <3>1, <3>2
      <3>3. CASE i \in 1..Len(poolEvents)
        BY <1>1, <2>1, <2>4, <3>1, <3>3
      <3> QED
        BY <1>1, <2>1, <3>2, <3>3
    <2> QED
      BY <2>3, <2>4 DEF PoolComesAndGoes
  <1>4. CASE PP!DeliverPoolEvent
    <2>1. /\ poolEvents # << >> /\ poolCache' = poolEvents[1] /\ poolEvents' = Tail(poolEvents)
          /\ UNCHANGED pool
      BY <1>1, <1>4 DEF PP!DeliverPoolEvent
    <2>2. /\ Len(poolEvents') = Len(poolEvents) - 1 /\ Len(poolEvents) > 0
          /\ \A i \in 1..Len(poolEvents') :
               i + 1 \in 1..Len(poolEvents) /\ poolEvents'[i] = poolEvents[i + 1]
      BY <1>1, <2>1
    <2>3. \A i \in 0..Len(poolEvents') : PoolVersion(i)' = PoolVersion(i + 1)
      BY <1>1, <2>1, <2>2 DEF PoolVersion
    <2>4. PoolVersion(Len(poolEvents))' = pool'
      BY <1>1, <2>1, <2>2 DEF PoolVersion
    <2>5. ASSUME NEW i \in 1..Len(poolEvents'), poolEvents'[i] = None
          PROVE  PoolVersion(i - 1)' # None
      <3>1. PoolVersion(i - 1)' = PoolVersion(i)
        BY <1>1, <2>2, <2>3
      <3>2. i + 1 \in 1..Len(poolEvents) /\ poolEvents[i + 1] = None
        BY <2>2, <2>5
      <3>3. PoolVersion((i + 1) - 1) # None
        BY <1>1, <3>2
      <3>4. (i + 1) - 1 = i
        BY <1>1
      <3> QED
        BY <3>1, <3>3, <3>4
    <2> QED
      BY <2>4, <2>5 DEF PoolComesAndGoes
  <1> QED
    <2>1. ~PP!Crash
      BY NoCrash
    <2> QED
      BY <1>2, <1>3, <1>4, <2>1, PP!PoolUse, PoolData, PoolNone DEF PP!SetPool

\* The claims that are created are of new incarnations, within the bound.
LEMMA IncarnationsBoundedNext ==
  ASSUME Whole, [CL!Next]_(CL!vars)
  PROVE  IncarnationsBounded'
  <1> SUFFICES ASSUME NEW c \in Claims
               PROVE  made'[c] <= MaxIncarnations /\ (claims'[c] # None => claims'[c].uid >= 1)
    BY DEF IncarnationsBounded
  <1>1. /\ made[c] \in Nat /\ made[c] <= MaxIncarnations
        /\ claims[c] # None => claims[c].uid >= 1
    BY ClaimTypes DEF ClaimSideTypes, Whole, ProviderInv, IncarnationsBounded
  <1>2. CL!SameIncarnation(c) \/ CL!NextIncarnation(c)
    BY CL!ClaimUse, ClaimData, ClaimNone, ClaimsReliable DEF Whole
  <1> QED
    BY <1>1, <1>2, ProviderAssumption DEF CL!SameIncarnation, CL!NextIncarnation

\* What a step adds to the addresses created is there now.
LEMMA CreatedNext ==
  ASSUME Whole, CL!LInv', [Next]_vars
  PROVE  /\ created \subseteq created' /\ created' \subseteq created \cup Existing(addrs')
         /\ Existing(addrs') \subseteq created'
  <1>1. CASE ClaimSideActs
    BY <1>1 DEF ClaimSideActs
  <1>2. CASE UNCHANGED <<addrs, created>>
    BY <1>2, PoolSideTypes DEF Whole
  <1> QED
    BY <1>1, <1>2, Sides, SameClaimController
       DEF PoolSideActs, DeliverAddressEvent, DeliverPoolEvent, PoolEventOf, vars, claimSide,
           CL!DeliverAddressEvent

\* And it is of an incarnation that has been made.
LEMMA CreatedForClaimsNext ==
  ASSUME Whole, CL!LInv', PP!PInv', [Next]_vars
  PROVE  CreatedForClaims'
  <1> SUFFICES ASSUME NEW a \in created'
               PROVE  a \in Identities /\ a[2] <= made'[a[1]]
    BY CreatedNext DEF CreatedForClaims, Existing
  <1>1. a \in Identities
    BY DEF PP!PInv, PP!TypeOK
  <1>2. CASE a \in created
    <2>1. a[1] \in Claims /\ a[2] \in Nat /\ a[2] <= made[a[1]]
      BY <1>1, <1>2, ProviderAssumption DEF Whole, ProviderInv, CreatedForClaims, Identities
    <2>2. made[a[1]] \in Nat /\ made'[a[1]] \in {made[a[1]], made[a[1]] + 1}
      <3>1. CL!SameIncarnation(a[1]) \/ CL!NextIncarnation(a[1])
        BY <2>1, ClaimSideStep, CL!ClaimUse, ClaimData, ClaimNone, ClaimsReliable DEF Whole
      <3> QED
        BY <2>1, <3>1, ClaimTypes
           DEF Whole, ClaimSideTypes, CL!SameIncarnation, CL!NextIncarnation
    <2> QED
      BY <1>1, <2>1, <2>2
  <1>3. CASE a \in Existing(addrs')
    <2>1. PICK c \in Claims : addrs'[c] # None /\ a = Identity(c, addrs'[c].owner)
      BY <1>3 DEF Existing
    <2>2. addrs'[c].owner = claims'[c].uid /\ claims'[c].uid = made'[c]
      BY <2>1 DEF CL!LInv, CL!AddressesOwned, CL!AddressOwned, CL!FreshUIDs
    <2>3. made'[c] \in Nat
      BY TypesNext DEF ClaimSideTypes
    <2> QED
      BY <1>1, <2>1, <2>2, <2>3 DEF Identity
  <1> QED
    BY <1>2, <1>3, CreatedNext

\* An address that goes is that of a claim that leaves.
LEMMA GoneWithClaim ==
  ASSUME Whole, [Next]_vars, NEW c \in Claims, addrs[c] # None, addrs'[c] = None
  PROVE  CL!Leaving(c)
  <1>1. CASE UNCHANGED addrs
    BY <1>1
  <1>2. CASE ClaimSideActs
    <2>1. ~CL!Crash
      BY NoCrash
    <2>2. \/ CL!AddressesKept \/ CL!AddressCreated \/ CL!AddressUpdated \/ CL!AddressDropped
      BY <1>2, <2>1, CL!AddressUse, ClaimData, ClaimNone, ClaimsReliable
         DEF ClaimSideActs, Whole
    <2>3. \A d, obj : CL!SetAddress(d, obj) => c = d /\ obj = None
      BY ClaimTypes DEF Whole, ClaimSideTypes, CL!SetAddress
    <2> QED
      BY <1>1, <2>2, <2>3, Owners
         DEF CL!AddressesKept, CL!AddressCreated, CL!AddressUpdated, CL!AddressDropped
  <1> QED
    BY <1>1, <1>2, Sides, SameClaimController
       DEF PoolSideActs, DeliverAddressEvent, DeliverPoolEvent, PoolEventOf, vars, claimSide,
           CL!DeliverAddressEvent

\* A claim whose address has been created and is gone goes on leaving.
LEMMA ReleasedLeavesNext ==
  ASSUME Whole, CL!LInv', [Next]_vars
  PROVE  ReleasedLeaves'
  <1> SUFFICES ASSUME NEW c \in Claims, claims'[c] # None, addrs'[c] = None,
                      Identity(c, claims'[c].uid) \in created'
               PROVE  CL!Leaving(c)'
    BY SameLeaving DEF ReleasedLeaves, Identity
  <1> DEFINE a == Identity(c, claims'[c].uid)
  <1>1. a \in created
    <2>1. a \notin Existing(addrs')
      BY DEF Existing, Identity
    <2> QED
      BY <2>1, CreatedNext
  <1>2. CL!SameIncarnation(c)
    <2>1. CL!SameIncarnation(c) \/ CL!NextIncarnation(c)
      BY ClaimSideStep, CL!ClaimUse, ClaimData, ClaimNone, ClaimsReliable DEF Whole
    <2>2. a[1] = c /\ a[2] = claims'[c].uid /\ a[2] <= made[a[1]] /\ made[c] \in Nat
      BY <1>1, ClaimTypes
         DEF Whole, ProviderInv, CreatedForClaims, ClaimSideTypes, Identity
    <2> QED
      BY <2>1, <2>2 DEF CL!NextIncarnation
  <1>3. claims[c] # None /\ a = Identity(c, claims[c].uid)
    BY <1>2 DEF CL!SameIncarnation
  <1>4. CL!Leaving(c)
    <2>1. CASE addrs[c] = None
      BY <1>1, <1>3, <2>1, SameLeaving DEF Whole, ProviderInv, ReleasedLeaves
    <2> QED
      BY <2>1, GoneWithClaim
  <1> QED
    BY <1>4, ClaimSideStep, CL!LeavingStays, ClaimData, ClaimNone, ClaimsReliable DEF Whole

\* At the start there is nothing on either side.
LEMMA SidesInit ==
  ASSUME Init
  PROVE  CL!Init /\ PP!Init
  <1>1. CL!Init
    BY SameClaimController DEF Init
  <1>2. /\ \A c \in Claims : addrs[c] = None /\ addrCache[c] = None
        /\ addrEvents = << >> /\ claimPc = "idle"
    BY <1>1 DEF CL!Init
  <1>3. /\ Existing(addrs) = {} /\ Existing(addrCache) = {} /\ Allocating = None
        /\ AddressNotices = << >>
    BY <1>2 DEF Existing, Allocating, AddressNotices
  <1> QED
    BY <1>1, <1>3 DEF Init, PP!Init

\* So the invariants hold there.
LEMMA WholeInit == Init => Whole
  <1> SUFFICES ASSUME Init PROVE Whole
    OBVIOUS
  <1>1. CL!LInv
    BY SidesInit, CL!LInvInit, ClaimData, ClaimNone
  <1>2. PP!PInv
    BY SidesInit, PP!InvInit, PoolData, PoolNone
  <1>3. \A c \in Claims : claims[c] = None /\ addrs[c] = None /\ made[c] = 0
    BY SidesInit DEF CL!Init
  <1>4. ProviderInv
    BY <1>3, ProviderAssumption
       DEF Init, ProviderInv, PoolComesAndGoes, PoolVersion, IncarnationsBounded,
           CreatedForClaims, ReleasedLeaves, Existing
  <1> QED
    BY <1>1, <1>2, <1>4 DEF Whole

\* And every step keeps them.
LEMMA WholeNext ==
  ASSUME Whole, [Next]_vars
  PROVE  Whole' /\ [CL!Next]_(CL!vars) /\ [PP!Next]_(PP!vars)
  <1>1. [CL!Next]_(CL!vars)
    BY ClaimSideStep
  <1>2. CL!LInv'
    BY <1>1, CL!LInvNext, ClaimData, ClaimNone, ClaimsReliable DEF Whole
  <1>3. [PP!Next]_(PP!vars)
    BY <1>2, PoolSideStep
  <1>4. PP!PInv'
    BY <1>3, PP!InvStep, PoolData, PoolNone DEF Whole
  <1>5. ProviderInv'
    BY <1>1, <1>2, <1>3, <1>4, PoolComesAndGoesNext, IncarnationsBoundedNext,
       CreatedForClaimsNext, ReleasedLeavesNext DEF ProviderInv
  <1> QED
    BY <1>1, <1>2, <1>3, <1>4, <1>5 DEF Whole

-----------------------------------------------------------------------------
(* The theorems.                                                              *)

\* What holds between the controllers, with the inductive invariants of both.
LEMMA WholeHolds == Spec => []Whole
  BY WholeInit, WholeNext, PTL DEF Spec

\* The pool's versions come and go in turn, and each address is created once for
\* an incarnation of its claim, however often names are used again.
THEOREM InvariantHolds == Spec => []ProviderInv
  <1>1. Whole => ProviderInv
    BY DEF Whole
  <1> QED
    BY <1>1, WholeHolds, PTL

\* The pool controller and the shared cache are an environment that the claim
\* controller's module allows.
THEOREM ClaimSideHolds == Spec => ClaimSide
  <1>1. Init => C!Init
    BY DEF Init
  <1>2. Whole /\ [Next]_vars => [C!Next]_(C!vars)
    BY ClaimSideStep, SameClaimController
  <1> QED
    BY <1>1, <1>2, WholeHolds, PTL DEF Spec, ClaimSide, C!Spec

\* The claim controller is the one that the pool controller's module assumes, and
\* a claim name that is used again brings a new address.
THEOREM PoolSideHolds == Spec => PoolSide
  <1>1. Init => P!Init
    BY SidesInit, SamePoolController
  <1>2. Whole /\ [Next]_vars => [P!Next]_(P!vars)
    BY WholeNext, SamePoolController
  <1> QED
    BY <1>1, <1>2, WholeHolds, PTL DEF Spec, PoolSide, P!Spec

-----------------------------------------------------------------------------
(* What the modules promise of a controller and its environment, the manager  *)
(* that runs both keeps.                                                      *)

\* Two claims have one address only if their names give one MAC, since the pool
\* stays in its network (generateMACAddress).
SharingIsOfMACs ==
  \A c, d \in Claims :
    addrs[c] # None /\ addrs[d] # None /\ addrs[c].ip = addrs[d].ip => MacOf[c] = MacOf[d]

\* No two claims whose MACs differ have one address, none outlives its claim, and
\* a bound claim is served, whatever becomes of the pool meanwhile and whatever
\* requests of the two controllers fail; no reply to the claim controller is lost,
\* and the manager does not restart.
THEOREM LeasesHold ==
  Spec => [](SharingIsOfMACs /\ C!NoOrphanAddress /\ C!BoundClaimIsServed)
  <1>1. CL!LInv => SharingIsOfMACs
    <2> SUFFICES ASSUME CL!LInv, NEW c \in Claims, NEW d \in Claims,
                        addrs[c] # None, addrs[d] # None, addrs[c].ip = addrs[d].ip
                 PROVE  MacOf[c] = MacOf[d]
      BY DEF SharingIsOfMACs
    <2> DEFINE u == users[MacOf[c]]
               v == users[MacOf[d]]
    <2>1. addrs[c].ip # CL!NoIP /\ u.ip = addrs[c].ip /\ v.ip = addrs[c].ip
      BY DEF CL!LInv, CL!IInv, CL!AllBacked, CL!Backed
    <2>2. MacOf[c] \in MACs /\ MacOf[d] \in MACs
      BY ProviderAssumption
    <2>3. u \in CL!UserObjects /\ v \in CL!UserObjects
      BY <2>2 DEF CL!LInv, CL!IInv, CL!TypeOK, CL!EnvTypeOK
    <2>4. u.network # NoNetwork /\ v.network # NoNetwork
      BY <2>1, <2>2 DEF CL!LInv, CL!IInv, CL!UsersAreSound
    <2> HIDE DEF u, v
    <2>5. u = v
      BY <2>1, <2>3, <2>4 DEF CL!UserObjects
    <2> QED
      BY <2>1, <2>2, <2>5 DEF CL!LInv, CL!IInv, CL!UsersAreSound, CL!FixedIPsUnique, u, v
  <1>2. CL!LInv => CL!NoOrphanAddress /\ CL!BoundClaimIsServed
    BY DEF CL!LInv, CL!AddressesOwned, CL!AddressOwned, CL!NoOrphanAddress
  <1>3. Whole => SharingIsOfMACs /\ C!NoOrphanAddress /\ C!BoundClaimIsServed
    BY <1>1, <1>2
       DEF Whole, C!NoOrphanAddress, CL!NoOrphanAddress, C!BoundClaimIsServed,
           CL!BoundClaimIsServed
  <1> QED
    BY <1>3, WholeHolds, PTL

\* With that, the theorems about the modules are theorems about the manager.
LEMMA SidesHold == Spec => CL!Spec /\ PP!Spec
  <1>1. Init => CL!Init /\ PP!Init
    BY SidesInit
  <1>2. Whole /\ [Next]_vars => [CL!Next]_(CL!vars) /\ [PP!Next]_(PP!vars)
    BY WholeNext
  <1> QED
    BY <1>1, <1>2, WholeHolds, PTL DEF Spec, CL!Spec, PP!Spec

\* An address is protected until the deletion of its claim is requested.
THEOREM AddressesStayProtected == Spec => C!AddressProtected
  <1>1. CL!Spec => CL!AddressProtected
    BY CL!AddressesStayProtected, ClaimData, ClaimNone, ClaimsReliable
  <1> DEFINE Kept == \A c \in Claims :
               addrs[c] # None /\ addrs[c].fin /\ (addrs'[c] # None => ~addrs'[c].fin) =>
                 claims[c] = None \/ claims[c].deleting
  <1>2. [Kept]_(CL!vars) => [Kept]_(C!vars)
    BY SameClaimController
  <1> HIDE DEF Kept
  <1>3. CL!AddressProtected => C!AddressProtected
    BY <1>2, PTL DEF CL!AddressProtected, C!AddressProtected, Kept
  <1> QED
    BY <1>1, <1>3, SidesHold, PTL

\* The manager implements the contract of LeaseContract.
THEOREM ContractImplemented == Spec => C!ImplementsContract
  <1>1. CL!Spec => CL!ImplementsContract
    BY CL!ContractImplemented, ClaimData, ClaimNone, ClaimsReliable
  <1>2. /\ CL!Contract!Init <=> C!Contract!Init
        /\ [CL!Contract!Next]_(CL!Contract!vars) <=> [C!Contract!Next]_(C!Contract!vars)
    BY DEF C!Contract!Init, CL!Contract!Init, C!Contract!Next, CL!Contract!Next,
       C!Contract!vars, CL!Contract!vars, C!Contract!Ask, CL!Contract!Ask,
       C!Contract!Grant, CL!Contract!Grant, C!Contract!Leave, CL!Contract!Leave,
       C!Contract!Release, CL!Contract!Release, C!Contract!Go, CL!Contract!Go,
       C!PhaseOf, CL!PhaseOf, C!NoIP, CL!NoIP, C!NoLease, CL!NoLease, C!Lease, CL!Lease
  <1>3. CL!ImplementsContract => C!ImplementsContract
    BY <1>2, PTL
       DEF CL!ImplementsContract, C!ImplementsContract, CL!Contract!Spec, C!Contract!Spec
  <1> QED
    BY <1>1, <1>3, SidesHold, PTL

\* A pool whose status lists allocations has its finalizer, does not go while one
\* of them exists, and stays deleted once its deletion is requested.
THEOREM PoolsHold ==
  Spec => []P!AllocationsProtected /\ P!ListedAddressesHoldPool /\ P!EditsKept
  <1>1. PP!Spec => []PP!AllocationsProtected /\ PP!ListedAddressesHoldPool /\ PP!EditsKept
    BY PP!AllocationsAreProtected, PP!ListedAddressesHold, PP!EditsAreKept, PoolData, PoolNone,
       PTL
  <1>2. PP!AllocationsProtected => P!AllocationsProtected
    BY DEF PP!AllocationsProtected, P!AllocationsProtected
  <1>3. PP!ListedAddressesHoldPool => P!ListedAddressesHoldPool
    <2> DEFINE Kept == pool # None /\ pool' = None =>
                         pool.status.allocations \cap Existing(addrs) = {}
    <2>1. [Kept]_(PP!vars) => [Kept]_(P!vars)
      BY SamePoolController
    <2> HIDE DEF Kept
    <2> QED
      BY <2>1, PTL DEF PP!ListedAddressesHoldPool, P!ListedAddressesHoldPool, Kept
  <1>4. PP!EditsKept => P!EditsKept
    <2> DEFINE Kept == pool # None /\ pool' # None /\ pool'.uid = pool.uid =>
                         pool'.edit >= pool.edit /\ (pool.deleting => pool'.deleting)
    <2>1. [Kept]_(PP!vars) => [Kept]_(P!vars)
      BY SamePoolController
    <2> HIDE DEF Kept
    <2> QED
      BY <2>1, PTL DEF PP!EditsKept, P!EditsKept, Kept
  <1> QED
    BY <1>1, <1>2, <1>3, <1>4, SidesHold, PTL

\* What neither module says alone: a bound claim that stays holds the pool whose
\* status lists its address.
THEOREM ServedClaimsHold == Spec => ServedClaimsHoldPool
  <1> DEFINE Held == pool # None /\ pool' = None =>
               \A c \in Claims :
                 claims[c] # None /\ claims[c].ref /\ ~claims[c].deleting =>
                   Identity(c, claims[c].uid) \notin pool.status.allocations
  <1>1. Whole /\ [Next]_vars => [Held]_vars
    <2> SUFFICES ASSUME Whole, [Next]_vars, pool # None, pool' = None, NEW c \in Claims,
                        claims[c] # None, claims[c].ref, ~claims[c].deleting
                 PROVE  Identity(c, claims[c].uid) \notin pool.status.allocations
      OBVIOUS
    <2>1. Identity(c, claims[c].uid) \in Existing(addrs)
      BY DEF Whole, CL!LInv, CL!BoundClaimIsServed, Existing
    <2>2. PP!Next
      BY WholeNext DEF PP!vars
    <2>3. pool.status.allocations \cap Existing(addrs) = {}
      BY <2>2, PP!LetGoStep, PoolData, PoolNone DEF Whole
    <2> QED
      BY <2>1, <2>3
  <1> HIDE DEF Held
  <1> QED
    BY <1>1, WholeHolds, PTL DEF Spec, ServedClaimsHoldPool, Held
=============================================================================
