----------------------- MODULE ClaimControllerProofs -----------------------
(***************************************************************************)
(* Theorems about ClaimController, for any claims, addresses, MACs, faults *)
(* and bounds.                                                             *)
(***************************************************************************)
EXTENDS ClaimController, TLAPS

ClaimOrNone   == ClaimObjects \cup {None}
AddressOrNone == AddressObjects \cup {None}

(* The objects that writes leave have the types of the objects they change. *)

\* The ways in which the code changes a claim keep its type.
LEMMA ClaimTypes ==
  /\ \A n \in Nat : Claim(n) \in ClaimObjects
  /\ \A obj \in ClaimObjects :
       /\ Deleted(obj) \in ClaimOrNone
       /\ Unprotected(obj) \in ClaimOrNone
       /\ [obj EXCEPT !.fin = TRUE] \in ClaimObjects
       /\ [obj EXCEPT !.ref = TRUE] \in ClaimObjects
  BY DEF Claim, ClaimObjects, ClaimOrNone, Deleted, Unprotected

\* What a deletion and the removal of a finalizer leave of an address has its type.
LEMMA AddressTypes ==
  \A obj \in AddressObjects :
    /\ Deleted(obj) \in AddressOrNone
    /\ Unprotected(obj) \in AddressOrNone
  BY DEF AddressObjects, AddressOrNone, Deleted, Unprotected

\* A write of a claim keeps the types of the server and of the events.
LEMMA SetClaimType ==
  ASSUME ApiTypeOK, NEW c \in Claims, NEW obj \in ClaimOrNone, SetClaim(c, obj)
  PROVE  /\ claims' \in [Claims -> ClaimObjects \cup {None}]
         /\ claimEvents' \in Seq(Claims \X (ClaimObjects \cup {None}))
  BY DEF ApiTypeOK, SetClaim, ClaimOrNone

\* A write of an address does too.
LEMMA SetAddressType ==
  ASSUME ApiTypeOK, NEW c \in Claims, NEW obj \in AddressOrNone, SetAddress(c, obj)
  PROVE  /\ addrs' \in [Claims -> AddressObjects \cup {None}]
         /\ addrEvents' \in Seq(Claims \X (AddressObjects \cup {None}))
  BY DEF ApiTypeOK, SetAddress, AddressOrNone

-----------------------------------------------------------------------------
(* TypeOK is inductive. *)

\* The initial state has its types.
LEMMA TypeInit == Init => TypeOK
  <1> SUFFICES ASSUME Init PROVE TypeOK
    OBVIOUS
  <1> USE DataAssumption DEF Init
  <1>1. ApiTypeOK
    BY DEF ApiTypeOK
  <1>2. CacheTypeOK
    BY DEF CacheTypeOK
  <1>3. WorkerTypeOK
    BY DEF WorkerTypeOK
  <1>4. NoUser \in UserObjects
    BY DEF NoUser, UserObjects
  <1>5. EnvTypeOK
    BY <1>4 DEF EnvTypeOK
  <1> QED
    BY <1>1, <1>2, <1>3, <1>5 DEF TypeOK

\* What the ways to end or continue a reconcile do to the worker's variables.
LEMMA WorkerTypes ==
  ASSUME WorkerTypeOK
  PROVE  /\ Finish /\ UNCHANGED queue => WorkerTypeOK'
         /\ pc # "idle" /\ Requeue => WorkerTypeOK'
         /\ \A l \in {"waitForAddress", "setAddressRef", "deleteAddress",
                      "removeFinalizer", "writeAddress"} :
              pc # "idle" /\ GoTo(l) => WorkerTypeOK'
         /\ \A l \in {"createUser", "writeAddress"}, ip \in IPs \cup {NoIP} :
              pc # "idle" /\ Carry(l, ip) => WorkerTypeOK'
  <1>1. Finish /\ UNCHANGED queue => WorkerTypeOK'
    BY DEF WorkerTypeOK, Finish
  <1>2. pc # "idle" /\ Requeue => WorkerTypeOK'
    BY DEF WorkerTypeOK, Finish, Requeue, Jobs
  <1>3. ASSUME NEW l \in {"waitForAddress", "setAddressRef", "deleteAddress",
                          "removeFinalizer", "writeAddress"},
               pc # "idle", GoTo(l)
        PROVE  WorkerTypeOK'
    BY <1>3 DEF WorkerTypeOK, GoTo
  <1>4. ASSUME NEW l \in {"createUser", "writeAddress"}, NEW ip \in IPs \cup {NoIP},
               pc # "idle", Carry(l, ip)
        PROVE  WorkerTypeOK'
    <2>1. job \in Jobs
      BY <1>4 DEF WorkerTypeOK
    <2>2. [job EXCEPT !.ip = ip] \in Jobs
      BY <2>1 DEF Jobs
    <2> QED
      BY <1>4, <2>2 DEF WorkerTypeOK, Carry
  <1> QED
    BY <1>1, <1>2, <1>3, <1>4

\* Reconcile keeps the types: a job begins with what the caches hold.
LEMMA ReconcileType ==
  ASSUME TypeOK, NEW c \in Claims, Reconcile(c)
  PROVE  TypeOK'
  <1> USE DEF apiVars, cacheVars, envVars, unifiVars, Reconcile
  <1>1. ApiTypeOK'
    BY DEF TypeOK, ApiTypeOK
  <1>2. CacheTypeOK'
    BY DEF TypeOK, CacheTypeOK
  <1>3. EnvTypeOK'
    BY DEF TypeOK, EnvTypeOK
  <1>4. WorkerTypeOK'
    <2>1. CASE Route(c) = "error"
      BY <2>1 DEF TypeOK, WorkerTypeOK
    <2>2. CASE Route(c) = "done"
      BY <2>2 DEF TypeOK, WorkerTypeOK, Finish
    <2>3. CASE Route(c) \notin {"error", "done"}
      <3>1. pc' = Route(c) /\ job' = Job(c, addrCache[c]) /\ queue' = queue \ {c}
        BY <2>3
      <3>2. Route(c) \in {"addFinalizer", "ensureAddress", "unprotectAddress",
                          "deleteAddress", "removeFinalizer"}
        BY <2>3 DEF Route, DeleteRoute, NormalRoute
      <3>3. claimCache[c] # None
        BY <2>3 DEF Route, Ignored
      <3>4. pool # None => /\ pool.pre[c] \in IPs \cup {NoIP}
                           /\ pool.network \in Networks \cup {NoNetwork}
        BY DataAssumption DEF TypeOK, EnvTypeOK, PoolObjects
      <3>5. Job(c, addrCache[c]) \in Jobs
        BY <3>3, <3>4 DEF TypeOK, CacheTypeOK, Job, Jobs
      <3> QED
        BY <3>1, <3>2, <3>5 DEF TypeOK, WorkerTypeOK
    <2> QED
      BY <2>1, <2>2, <2>3
  <1> QED
    BY <1>1, <1>2, <1>3, <1>4 DEF TypeOK

\* AddFinalizer keeps the types.
LEMMA AddFinalizerType ==
  ASSUME TypeOK, AddFinalizer
  PROVE  TypeOK'
  <1> USE DEF apiVars, cacheVars, envVars, unifiVars, AddFinalizer
  <1>1. job.name \in Claims /\ pc # "idle"
    BY DEF TypeOK, WorkerTypeOK, Jobs
  <1>2. claims[job.name] \in ClaimOrNone
    BY <1>1 DEF TypeOK, ApiTypeOK, ClaimOrNone
  <1>3. ApiTypeOK'
    <2>1. CASE SetClaim(job.name, [claims[job.name] EXCEPT !.fin = TRUE])
               /\ claims[job.name] # None /\ UNCHANGED <<addrs, addrEvents>>
      <3>1. [claims[job.name] EXCEPT !.fin = TRUE] \in ClaimOrNone
        BY <1>2, <2>1, ClaimTypes DEF ClaimOrNone
      <3> QED
        BY <1>1, <2>1, <3>1, SetClaimType DEF TypeOK, ApiTypeOK
    <2>2. CASE UNCHANGED apiVars
      BY <2>2 DEF TypeOK, ApiTypeOK
    <2> QED
      BY <2>1, <2>2 DEF Write
  <1>4. CacheTypeOK'
    BY DEF TypeOK, CacheTypeOK
  <1>5. WorkerTypeOK'
    BY <1>1, WorkerTypes DEF TypeOK, Write, Done
  <1>6. EnvTypeOK'
    BY DEF TypeOK, EnvTypeOK, Write, Fault
  <1> QED
    BY <1>3, <1>4, <1>5, <1>6 DEF TypeOK

\* EnsureAddress keeps the types: the address it carries is one of the IPs.
LEMMA EnsureAddressType ==
  ASSUME TypeOK, EnsureAddress
  PROVE  TypeOK'
  <1> USE DEF apiVars, cacheVars, envVars, unifiVars, EnsureAddress
  <1>1. pc # "idle" /\ job \in Jobs /\ job.name \in Claims
    BY DEF TypeOK, WorkerTypeOK, Jobs
  <1>2. ApiTypeOK'
    BY DEF TypeOK, ApiTypeOK
  <1>3. CacheTypeOK'
    BY DEF TypeOK, CacheTypeOK
  <1>4. EnvTypeOK'
    BY DEF TypeOK, EnvTypeOK, GetOrAllocateIP, Fault
  <1>5. ASSUME AllocateIP PROVE WorkerTypeOK'
    <2>1. AllocateNextIP(AddressesInUse(addrCache)) \subseteq IPs
      BY DataAssumption DEF AllocateNextIP, Lowest
    <2> QED
      BY <1>1, <1>5, <2>1, WorkerTypes DEF AllocateIP, TypeOK
  <1>6. WorkerTypeOK'
    <2>1. CASE IsAddressAllocated(job.name)
      <3>1. (IF job.found = None THEN NoIP ELSE job.found.ip) \in IPs \cup {NoIP}
        BY <1>1 DEF Jobs, AddressObjects
      <3> QED
        BY <1>1, <2>1, <3>1, WorkerTypes DEF TypeOK
    <2>2. CASE GetOrAllocateIP
      <3>1. users[MacOf[job.name]].ip \in IPs \cup {NoIP}
        BY <1>1, DataAssumption DEF TypeOK, EnvTypeOK, UserObjects
      <3> QED
        BY <1>1, <1>5, <2>2, <3>1, WorkerTypes DEF TypeOK, GetOrAllocateIP
    <2>3. CASE Requeue
      BY <1>1, <2>3, WorkerTypes DEF TypeOK
    <2> QED
      BY <2>1, <2>2, <2>3
  <1> QED
    BY <1>2, <1>3, <1>4, <1>6 DEF TypeOK

\* CreateUser keeps the types.
LEMMA CreateUserType ==
  ASSUME TypeOK, CreateUser
  PROVE  TypeOK'
  <1> USE DEF apiVars, cacheVars, envVars, unifiVars, CreateUser
  <1>1. pc # "idle" /\ job.name \in Claims /\ job.ip \in IPs \cup {NoIP}
    BY DEF TypeOK, WorkerTypeOK, Jobs
  <1>2. ApiTypeOK'
    BY DEF TypeOK, ApiTypeOK
  <1>3. CacheTypeOK'
    BY DEF TypeOK, CacheTypeOK
  <1>4. WorkerTypeOK'
    BY <1>1, WorkerTypes DEF TypeOK, Write
  <1>5. EnvTypeOK'
    <2>1. [ip |-> job.ip, network |-> job.network] \in UserObjects
      BY <1>1 DEF TypeOK, WorkerTypeOK, Jobs, UserObjects
    <2> QED
      BY <1>1, <2>1 DEF TypeOK, EnvTypeOK, Write, Fault
  <1> QED
    BY <1>2, <1>3, <1>4, <1>5 DEF TypeOK

\* WriteAddress, a create or a patch, keeps the types.
LEMMA WriteAddressType ==
  ASSUME TypeOK, WriteAddress
  PROVE  TypeOK'
  <1> USE DEF apiVars, cacheVars, envVars, unifiVars, WriteAddress
  <1>1. /\ pc # "idle" /\ job.name \in Claims /\ job.ip \in IPs \cup {NoIP}
        /\ job.claim.uid \in Nat
    BY DEF TypeOK, WorkerTypeOK, Jobs, ClaimObjects
  <1>2. addrs[job.name] \in AddressOrNone
    BY <1>1 DEF TypeOK, ApiTypeOK, AddressOrNone
  <1> DEFINE new == [ip |-> job.ip, owner |-> job.claim.uid,
                     fin |-> TRUE, deleting |-> FALSE]
             patched == [addrs[job.name] EXCEPT
                           !.ip    = IF job.ip # job.found.ip THEN job.ip ELSE @,
                           !.owner = job.claim.uid,
                           !.fin   = TRUE]
  <1>3. new \in AddressOrNone
    BY <1>1 DEF AddressOrNone, AddressObjects
  <1>4. addrs[job.name] # None => patched \in AddressOrNone
    BY <1>1, <1>2 DEF AddressOrNone, AddressObjects
  <1>5. \/ UNCHANGED apiVars
        \/ /\ UNCHANGED <<claims, claimEvents>>
           /\ SetAddress(job.name, new)
        \/ /\ UNCHANGED <<claims, claimEvents>>
           /\ addrs[job.name] # None /\ SetAddress(job.name, patched)
    BY DEF Create, Patch, Write
  <1>6. ApiTypeOK'
    <2>1. CASE UNCHANGED apiVars
      BY <2>1 DEF TypeOK, ApiTypeOK
    <2>2. ASSUME NEW obj \in AddressOrNone, UNCHANGED <<claims, claimEvents>>,
                 SetAddress(job.name, obj)
          PROVE  ApiTypeOK'
      BY <1>1, <2>2, SetAddressType DEF TypeOK, ApiTypeOK
    <2> QED
      BY <1>3, <1>4, <1>5, <2>1, <2>2
  <1>7. CacheTypeOK'
    BY DEF TypeOK, CacheTypeOK
  <1>8. WorkerTypeOK'
    BY <1>1, WorkerTypes DEF TypeOK, Create, Patch, Write
  <1>9. EnvTypeOK'
    BY DEF TypeOK, EnvTypeOK, Create, Patch, Write, Fault
  <1> QED
    BY <1>6, <1>7, <1>8, <1>9 DEF TypeOK

\* WaitForAddressInCache keeps the types.
LEMMA WaitForAddressType ==
  ASSUME TypeOK, WaitForAddressInCache
  PROVE  TypeOK'
  <1> USE DEF apiVars, cacheVars, envVars, unifiVars, WaitForAddressInCache
  <1>1. WorkerTypeOK'
    BY WorkerTypes DEF TypeOK
  <1>2. EnvTypeOK'
    BY DEF TypeOK, EnvTypeOK, Fault
  <1> QED
    BY <1>1, <1>2 DEF TypeOK, ApiTypeOK, CacheTypeOK

\* SetAddressRef keeps the types.
LEMMA SetAddressRefType ==
  ASSUME TypeOK, SetAddressRef
  PROVE  TypeOK'
  <1> USE DEF apiVars, cacheVars, envVars, unifiVars, SetAddressRef
  <1>1. job.name \in Claims /\ pc # "idle"
    BY DEF TypeOK, WorkerTypeOK, Jobs
  <1>2. ApiTypeOK'
    <2>1. CASE SetClaim(job.name, [claims[job.name] EXCEPT !.ref = TRUE])
               /\ claims[job.name] # None /\ UNCHANGED <<addrs, addrEvents>>
      <3>1. [claims[job.name] EXCEPT !.ref = TRUE] \in ClaimOrNone
        BY <1>1, <2>1, ClaimTypes DEF ClaimOrNone, TypeOK, ApiTypeOK
      <3> QED
        BY <1>1, <2>1, <3>1, SetClaimType DEF TypeOK, ApiTypeOK
    <2>2. CASE UNCHANGED apiVars
      BY <2>2 DEF TypeOK, ApiTypeOK
    <2> QED
      BY <2>1, <2>2 DEF Write
  <1>3. CacheTypeOK'
    BY DEF TypeOK, CacheTypeOK
  <1>4. WorkerTypeOK'
    BY <1>1, WorkerTypes DEF TypeOK, Write, Done
  <1>5. EnvTypeOK'
    BY DEF TypeOK, EnvTypeOK, Write, Fault
  <1> QED
    BY <1>2, <1>3, <1>4, <1>5 DEF TypeOK

\* The two calls that take an address away.
LEMMA DropAddressType ==
  ASSUME TypeOK, UnprotectAddress \/ DeleteAddress
  PROVE  TypeOK'
  <1> USE DEF apiVars, cacheVars, envVars, unifiVars, UnprotectAddress, DeleteAddress
  <1>1. job.name \in Claims /\ pc # "idle"
    BY DEF TypeOK, WorkerTypeOK, Jobs
  <1>2. ApiTypeOK'
    <2>1. CASE UNCHANGED apiVars
      BY <2>1 DEF TypeOK, ApiTypeOK
    <2>2. ASSUME NEW obj \in AddressOrNone, UNCHANGED <<claims, claimEvents>>,
                 SetAddress(job.name, obj)
          PROVE  ApiTypeOK'
      BY <1>1, <2>2, SetAddressType DEF TypeOK, ApiTypeOK
    <2>3. addrs[job.name] # None =>
            /\ Unprotected(addrs[job.name]) \in AddressOrNone
            /\ Deleted(addrs[job.name]) \in AddressOrNone
      BY <1>1, AddressTypes DEF TypeOK, ApiTypeOK
    <2> QED
      BY <2>1, <2>2, <2>3 DEF Write
  <1>3. CacheTypeOK'
    BY DEF TypeOK, CacheTypeOK
  <1>4. WorkerTypeOK'
    BY <1>1, WorkerTypes DEF TypeOK, Write
  <1>5. EnvTypeOK'
    BY DEF TypeOK, EnvTypeOK, Write, Fault
  <1> QED
    BY <1>2, <1>3, <1>4, <1>5 DEF TypeOK

\* RemoveFinalizer keeps the types.
LEMMA RemoveFinalizerType ==
  ASSUME TypeOK, RemoveFinalizer
  PROVE  TypeOK'
  <1> USE DEF apiVars, cacheVars, envVars, unifiVars, RemoveFinalizer
  <1>1. job.name \in Claims /\ pc # "idle"
    BY DEF TypeOK, WorkerTypeOK, Jobs
  <1>2. ApiTypeOK'
    <2>1. CASE SetClaim(job.name, Unprotected(claims[job.name]))
               /\ claims[job.name] # None /\ UNCHANGED <<addrs, addrEvents>>
      <3>1. Unprotected(claims[job.name]) \in ClaimOrNone
        BY <1>1, <2>1, ClaimTypes DEF TypeOK, ApiTypeOK
      <3> QED
        BY <1>1, <2>1, <3>1, SetClaimType DEF TypeOK, ApiTypeOK
    <2>2. CASE UNCHANGED apiVars
      BY <2>2 DEF TypeOK, ApiTypeOK
    <2> QED
      BY <2>1, <2>2 DEF Write
  <1>3. CacheTypeOK'
    BY DEF TypeOK, CacheTypeOK
  <1>4. WorkerTypeOK'
    BY <1>1, WorkerTypes DEF TypeOK, Write, Done
  <1>5. EnvTypeOK'
    BY DEF TypeOK, EnvTypeOK, Write, Fault
  <1> QED
    BY <1>2, <1>3, <1>4, <1>5 DEF TypeOK

\* Every step of the worker keeps the types.
LEMMA WorkerType ==
  ASSUME TypeOK, Worker
  PROVE  TypeOK'
  BY ReconcileType, AddFinalizerType, EnsureAddressType, CreateUserType,
     WriteAddressType, WaitForAddressType, SetAddressRefType, DropAddressType,
     RemoveFinalizerType DEF Worker

\* The delivery of a watch event keeps the types.
LEMMA DeliveryType ==
  ASSUME TypeOK, DeliverClaimEvent \/ DeliverAddressEvent
  PROVE  TypeOK'
  <1> USE DEF apiVars, cacheVars, envVars, unifiVars
  <1>1. CASE DeliverClaimEvent
    <2>1. /\ Head(claimEvents) \in Claims \X (ClaimObjects \cup {None})
          /\ Tail(claimEvents) \in Seq(Claims \X (ClaimObjects \cup {None}))
      BY <1>1 DEF DeliverClaimEvent, TypeOK, ApiTypeOK
    <2>2. ApiTypeOK' /\ EnvTypeOK'
      BY <1>1, <2>1 DEF DeliverClaimEvent, TypeOK, ApiTypeOK, EnvTypeOK
    <2>3. CacheTypeOK' /\ WorkerTypeOK'
      BY <1>1, <2>1 DEF DeliverClaimEvent, TypeOK, CacheTypeOK, WorkerTypeOK
    <2> QED
      BY <2>2, <2>3 DEF TypeOK
  <1>2. CASE DeliverAddressEvent
    <2>1. /\ Head(addrEvents) \in Claims \X (AddressObjects \cup {None})
          /\ Tail(addrEvents) \in Seq(Claims \X (AddressObjects \cup {None}))
      BY <1>2 DEF DeliverAddressEvent, TypeOK, ApiTypeOK
    <2>2. ApiTypeOK' /\ EnvTypeOK'
      BY <1>2, <2>1 DEF DeliverAddressEvent, TypeOK, ApiTypeOK, EnvTypeOK
    <2>3. CacheTypeOK' /\ WorkerTypeOK'
      BY <1>2, <2>1 DEF DeliverAddressEvent, TypeOK, CacheTypeOK, WorkerTypeOK
    <2> QED
      BY <2>2, <2>3 DEF TypeOK
  <1> QED
    BY <1>1, <1>2

\* Users, changes of pool and cluster, and a restart keep the types.
LEMMA EnvironmentType ==
  ASSUME TypeOK, Environment
  PROVE  TypeOK'
  <1> USE DEF apiVars, cacheVars, envVars, unifiVars
  <1>1. CASE PoolChange
    <2>1. ApiTypeOK' /\ CacheTypeOK'
      BY <1>1 DEF PoolChange, TypeOK, ApiTypeOK, CacheTypeOK
    <2>2. WorkerTypeOK'
      BY <1>1 DEF PoolChange, TypeOK, WorkerTypeOK, CachedClaims
    <2>3. EnvTypeOK'
      BY <1>1 DEF PoolChange, TypeOK, EnvTypeOK
    <2> QED
      BY <2>1, <2>2, <2>3 DEF TypeOK
  <1>2. CASE ClusterPauseChange
    <2>1. ApiTypeOK' /\ CacheTypeOK'
      BY <1>2 DEF ClusterPauseChange, TypeOK, ApiTypeOK, CacheTypeOK
    <2>2. WorkerTypeOK'
      BY <1>2 DEF ClusterPauseChange, TypeOK, WorkerTypeOK, CachedClaims
    <2>3. EnvTypeOK'
      BY <1>2 DEF ClusterPauseChange, TypeOK, EnvTypeOK
    <2> QED
      BY <2>1, <2>2, <2>3 DEF TypeOK
  <1>3. CASE Crash
    <2>1. ApiTypeOK' /\ CacheTypeOK'
      BY <1>3 DEF Crash, TypeOK, ApiTypeOK, CacheTypeOK
    <2>2. WorkerTypeOK'
      BY <1>3 DEF Crash, Finish, TypeOK, WorkerTypeOK
    <2>3. EnvTypeOK'
      BY <1>3 DEF Crash, Fault, TypeOK, EnvTypeOK
    <2> QED
      BY <2>1, <2>2, <2>3 DEF TypeOK
  <1>4. ASSUME NEW c \in Claims, CreateClaim(c)
        PROVE  TypeOK'
    <2>1. Claim(made[c] + 1) \in ClaimOrNone
      BY ClaimTypes DEF TypeOK, EnvTypeOK, ClaimOrNone
    <2>2. ApiTypeOK'
      BY <1>4, <2>1, SetClaimType DEF CreateClaim, TypeOK, ApiTypeOK
    <2>3. EnvTypeOK'
      BY <1>4 DEF CreateClaim, TypeOK, EnvTypeOK
    <2> QED
      BY <1>4, <2>2, <2>3 DEF CreateClaim, TypeOK, CacheTypeOK, WorkerTypeOK
  <1>5. ASSUME NEW c \in Claims, RequestClaimDeletion(c)
        PROVE  TypeOK'
    <2>1. Deleted(claims[c]) \in ClaimOrNone
      BY <1>5, ClaimTypes DEF RequestClaimDeletion, TypeOK, ApiTypeOK
    <2>2. ApiTypeOK'
      BY <1>5, <2>1, SetClaimType DEF RequestClaimDeletion, TypeOK, ApiTypeOK
    <2> QED
      BY <1>5, <2>2 DEF RequestClaimDeletion, TypeOK, CacheTypeOK, WorkerTypeOK,
                        EnvTypeOK
  <1>6. ASSUME NEW c \in Claims, RequestAddressDeletion(c)
        PROVE  TypeOK'
    <2>1. Deleted(addrs[c]) \in AddressOrNone
      BY <1>6, AddressTypes DEF RequestAddressDeletion, TypeOK, ApiTypeOK
    <2>2. ApiTypeOK'
      BY <1>6, <2>1, SetAddressType DEF RequestAddressDeletion, TypeOK, ApiTypeOK
    <2> QED
      BY <1>6, <2>2 DEF RequestAddressDeletion, TypeOK, CacheTypeOK, WorkerTypeOK,
                        EnvTypeOK
  <1>7. CASE ForeignChange
    BY <1>7 DEF ForeignChange, TypeOK, ApiTypeOK, CacheTypeOK, WorkerTypeOK, EnvTypeOK
  <1> QED
    BY <1>1, <1>2, <1>3, <1>4, <1>5, <1>6, <1>7 DEF Environment

\* TypeOK is inductive.
LEMMA TypeNext ==
  ASSUME TypeOK, [Next]_vars
  PROVE  TypeOK'
  <1>1. CASE Next
    BY <1>1, WorkerType, DeliveryType, EnvironmentType DEF Next
  <1>2. CASE UNCHANGED vars
    BY <1>2 DEF vars, TypeOK, ApiTypeOK, CacheTypeOK, WorkerTypeOK, EnvTypeOK
  <1> QED
    BY <1>1, <1>2

\* Every variable keeps its type, and the worker holds a job exactly while a
\* reconcile runs.
THEOREM TypeCorrect == Spec => []TypeOK
  <1>1. Init => TypeOK
    BY TypeInit
  <1>2. TypeOK /\ [Next]_vars => TypeOK'
    BY TypeNext
  <1> QED
    BY <1>1, <1>2, PTL DEF Spec
=============================================================================
