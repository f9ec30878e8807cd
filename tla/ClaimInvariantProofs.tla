------------------------ MODULE ClaimInvariantProofs ------------------------
(***************************************************************************)
(* IInv is an invariant of ClaimController, and with it: fixed IPs are     *)
(* unique in a network, every IPAddress carries the fixed IP of its        *)
(* claim's MAC, and two claims are served the same address only if they    *)
(* have one MAC or got it in two networks.                                 *)
(***************************************************************************)
EXTENDS ClaimInvariant, ClaimControllerProofs

-----------------------------------------------------------------------------
(* The watch events of addresses. *)

\* The address events on their way name claims and carry addresses.
LEMMA EventTypes ==
  ASSUME TypeOK
  PROVE  /\ addrs \in [Claims -> AddressOrNone]
         /\ addrCache \in [Claims -> AddressOrNone]
         /\ addrEvents \in Seq(Claims \X AddressOrNone)
         /\ \A i \in 1..Len(addrEvents) :
              /\ addrEvents[i] \in Claims \X AddressOrNone
              /\ addrEvents[i] = <<addrEvents[i][1], addrEvents[i][2]>>
  <1>1. addrEvents \in Seq(Claims \X AddressOrNone)
    BY DEF TypeOK, ApiTypeOK, AddressOrNone
  <1>2. \A i \in 1..Len(addrEvents) : addrEvents[i] \in Claims \X AddressOrNone
    BY <1>1
  <1>3. \A i \in 1..Len(addrEvents) :
          addrEvents[i] = <<addrEvents[i][1], addrEvents[i][2]>>
    BY <1>2
  <1> QED
    BY <1>1, <1>2, <1>3 DEF TypeOK, ApiTypeOK, CacheTypeOK, AddressOrNone

\* No removal is on its way for an address that exists.
LEMMA NoRemovalPending ==
  ASSUME TypeOK, EventInv, NEW c \in Claims, addrs[c] # None
  PROVE  \A i \in 1..Len(addrEvents) :
           addrEvents[i][1] = c => addrEvents[i][2] # None
  <1> SUFFICES ASSUME NEW i \in 1..Len(addrEvents), addrEvents[i][1] = c,
                      addrEvents[i][2] = None
               PROVE  FALSE
    OBVIOUS
  <1>1. PICK k \in 1..Len(addrEvents) :
          /\ addrEvents[k] = <<c, addrs[c]>>
          /\ \A j \in 1..Len(addrEvents) : j > k => addrEvents[j][1] # c
    BY DEF EventInv, CacheCatchesUp
  <1>2. Len(addrEvents) \in Nat
    BY EventTypes
  <1>3. i < k
    <2>1. ~(i > k)
      BY <1>1
    <2>2. i # k
      BY <1>1
    <2> QED
      BY <1>2, <2>1, <2>2
  <1> QED
    BY <1>1, <1>3 DEF EventInv, RemovalIsLast

\* What a write does to the addresses and to their events.
LEMMA SetAddressEffect ==
  ASSUME TypeOK, NEW c \in Claims, NEW obj \in AddressOrNone, SetAddress(c, obj)
  PROVE  /\ \A d \in Claims : addrs'[d] = IF d = c THEN obj ELSE addrs[d]
         /\ \A i \in 1..Len(addrEvents') :
              \/ i \in 1..Len(addrEvents) /\ addrEvents'[i] = addrEvents[i]
              \/ addrEvents'[i] = <<c, obj>>
  <1>1. addrs' = [addrs EXCEPT ![c] = obj] /\ addrs \in [Claims -> AddressOrNone]
    BY EventTypes DEF SetAddress
  <1>2. \/ addrEvents' = addrEvents
        \/ addrEvents' = Append(addrEvents, <<c, obj>>)
    BY DEF SetAddress
  <1>3. CASE addrEvents' = Append(addrEvents, <<c, obj>>)
    <2>1. /\ Len(addrEvents') = Len(addrEvents) + 1 /\ Len(addrEvents) \in Nat
          /\ \A i \in 1..Len(addrEvents) : addrEvents'[i] = addrEvents[i]
          /\ addrEvents'[Len(addrEvents) + 1] = <<c, obj>>
      BY <1>3, EventTypes
    <2> QED
      BY <1>1, <2>1
  <1> QED
    BY <1>1, <1>2, <1>3

\* Steps that leave addresses, their cache and their events alone keep EventInv.
LEMMA EventsKept ==
  ASSUME EventInv, UNCHANGED <<addrs, addrCache, addrEvents>>
  PROVE  EventInv'
  BY DEF EventInv, CacheCatchesUp, RemovalIsLast, NewIsProtected, Protected

\* A write of obj to the address of c keeps the account of events.
LEMMA EventsAfterWrite ==
  ASSUME TypeOK, EventInv, NEW c \in Claims, NEW obj \in AddressOrNone,
         SetAddress(c, obj), UNCHANGED addrCache,
         addrs[c] = None /\ obj # None =>
           \A i \in 1..Len(addrEvents) :
             addrEvents[i][1] = c => addrEvents[i][2] # None,
         addrCache[c] = None /\ obj # addrs[c] => Protected(obj)
  PROVE  EventInv'
  <1>1. CASE obj = addrs[c]
    <2>1. addrs' = addrs /\ addrEvents' = addrEvents
      BY <1>1, EventTypes DEF SetAddress
    <2> QED
      BY <2>1, EventsKept
  <1>2. CASE obj # addrs[c]
    <2> DEFINE n == Len(addrEvents)
    <2>1. n \in Nat
      BY EventTypes
    <2>2. /\ addrs' = [addrs EXCEPT ![c] = obj]
          /\ addrEvents' = Append(addrEvents, <<c, obj>>)
      BY <1>2 DEF SetAddress
    <2>3. /\ Len(addrEvents') = n + 1
          /\ \A i \in 1..n : addrEvents'[i] = addrEvents[i]
          /\ addrEvents'[n + 1] = <<c, obj>>
      BY <2>2, EventTypes
    <2> HIDE DEF n
    <2>4. CacheCatchesUp'
      <3> SUFFICES ASSUME NEW d \in Claims
                   PROVE  \/ \E i \in 1..(n + 1) :
                               /\ addrEvents'[i] = <<d, addrs'[d]>>
                               /\ \A j \in 1..(n + 1) : j > i => addrEvents'[j][1] # d
                          \/ /\ addrCache[d] = addrs'[d]
                             /\ \A j \in 1..(n + 1) : addrEvents'[j][1] # d
        BY <2>3 DEF CacheCatchesUp
      <3>1. CASE d = c
        <4>1. addrEvents'[n + 1] = <<d, addrs'[d]>>
          BY <2>2, <2>3, <3>1, EventTypes
        <4>2. \A j \in 1..(n + 1) : ~(j > n + 1)
          BY <2>1
        <4> QED
          BY <2>1, <4>1, <4>2
      <3>2. CASE d # c
        <4>1. addrs'[d] = addrs[d]
          BY <2>2, <3>2, EventTypes
        <4>2. addrEvents'[n + 1][1] # d
          BY <2>3, <3>2
        <4>3. CASE \E i \in 1..n : /\ addrEvents[i] = <<d, addrs[d]>>
                                   /\ \A j \in 1..n : j > i => addrEvents[j][1] # d
          <5>1. PICK i \in 1..n : /\ addrEvents[i] = <<d, addrs[d]>>
                                  /\ \A j \in 1..n : j > i => addrEvents[j][1] # d
            BY <4>3
          <5>2. i \in 1..(n + 1) /\ addrEvents'[i] = <<d, addrs'[d]>>
            BY <2>1, <2>3, <4>1, <5>1
          <5>3. \A j \in 1..(n + 1) : j > i => addrEvents'[j][1] # d
            BY <2>1, <2>3, <4>2, <5>1
          <5> QED
            BY <5>2, <5>3
        <4>4. CASE addrCache[d] = addrs[d] /\ \A j \in 1..n : addrEvents[j][1] # d
          BY <2>1, <2>3, <4>1, <4>2, <4>4
        <4> QED
          BY <4>3, <4>4 DEF EventInv, CacheCatchesUp, n
      <3> QED
        BY <3>1, <3>2
    <2>5. RemovalIsLast'
      <3>1. \A i \in 1..n : addrEvents[i][1] = c => addrEvents[i][2] # None
        <4>1. CASE addrs[c] # None
          BY <4>1, NoRemovalPending DEF n
        <4>2. CASE addrs[c] = None
          BY <1>2, <4>2 DEF n
        <4> QED
          BY <4>1, <4>2
      <3> SUFFICES ASSUME NEW i \in 1..(n + 1), NEW j \in 1..(n + 1),
                          addrEvents'[i][2] = None, i < j
                   PROVE  addrEvents'[j][1] # addrEvents'[i][1]
        BY <2>3 DEF RemovalIsLast
      <3>2. i \in 1..n
        BY <2>1
      <3>3. CASE j \in 1..n
        BY <2>3, <3>2, <3>3 DEF EventInv, RemovalIsLast, n
      <3>4. CASE j = n + 1
        BY <2>3, <3>1, <3>2, <3>4
      <3> QED
        BY <2>1, <3>3, <3>4
    <2>6. NewIsProtected'
      <3> SUFFICES ASSUME NEW d \in Claims, addrCache[d] = None,
                          NEW i \in 1..(n + 1), addrEvents'[i][1] = d
                   PROVE  Protected(addrEvents'[i][2])
        BY <2>3 DEF NewIsProtected, Protected
      <3>1. CASE i \in 1..n
        BY <2>3, <3>1 DEF EventInv, NewIsProtected, n
      <3>2. CASE i = n + 1
        BY <1>2, <2>3, <3>2
      <3> QED
        BY <2>1, <3>1, <3>2
    <2> QED
      BY <2>4, <2>5, <2>6 DEF EventInv
  <1> QED
    BY <1>1, <1>2

\* So does the delivery of an event; one that empties the cache's entry shows
\* the address as it is, gone.
LEMMA EventsAfterDelivery ==
  ASSUME TypeOK, EventInv, DeliverAddressEvent
  PROVE  /\ EventInv'
         /\ LET e == Head(addrEvents) IN
              addrCache'[e[1]] = None => addrs[e[1]] = None
  <1> DEFINE n == Len(addrEvents)
             e == addrEvents[1]
  <1>1. /\ n \in Nat \ {0}
        /\ Head(addrEvents) = e
        /\ Len(addrEvents') = n - 1
        /\ \A i \in 1..(n - 1) : addrEvents'[i] = addrEvents[i + 1]
    BY EventTypes DEF DeliverAddressEvent
  <1>2. /\ 1 \in 1..n
        /\ e[1] \in Claims
        /\ e = <<e[1], e[2]>>
        /\ addrCache' = [addrCache EXCEPT ![e[1]] = e[2]]
        /\ addrs' = addrs
    <2>1. 1 \in 1..n
      BY <1>1
    <2>2. e[1] \in Claims /\ e = <<e[1], e[2]>>
      BY <2>1, EventTypes
    <2>3. addrCache' = [addrCache EXCEPT ![Head(addrEvents)[1]] = Head(addrEvents)[2]]
      BY DEF DeliverAddressEvent
    <2>4. addrs' = addrs
      BY DEF DeliverAddressEvent
    <2> QED
      BY <1>1, <2>1, <2>2, <2>3, <2>4
  <1>3. \A i \in 1..(n - 1) : i + 1 \in 1..n /\ 1 < i + 1
    BY <1>1
  <1> HIDE DEF n, e
  <1>4. addrCache'[e[1]] = e[2] /\ \A d \in Claims : d # e[1] => addrCache'[d] = addrCache[d]
    BY <1>2, EventTypes
  <1>5. CacheCatchesUp'
    <2> SUFFICES ASSUME NEW d \in Claims
                 PROVE  \/ \E i \in 1..(n - 1) :
                             /\ addrEvents'[i] = <<d, addrs[d]>>
                             /\ \A j \in 1..(n - 1) : j > i => addrEvents'[j][1] # d
                        \/ /\ addrCache'[d] = addrs[d]
                           /\ \A j \in 1..(n - 1) : addrEvents'[j][1] # d
      BY <1>1, <1>2 DEF CacheCatchesUp
    <2>1. CASE \E i \in 1..n : /\ addrEvents[i] = <<d, addrs[d]>>
                               /\ \A j \in 1..n : j > i => addrEvents[j][1] # d
      <3>1. PICK i \in 1..n : /\ addrEvents[i] = <<d, addrs[d]>>
                              /\ \A j \in 1..n : j > i => addrEvents[j][1] # d
        BY <2>1
      <3>2. CASE i = 1
        <4>1. e = <<d, addrs[d]>>
          BY <3>1, <3>2 DEF e
        <4>2. addrCache'[d] = addrs[d]
          BY <1>4, <4>1
        <4>3. \A j \in 1..(n - 1) : addrEvents'[j][1] # d
          BY <1>1, <1>3, <3>1, <3>2
        <4> QED
          BY <4>2, <4>3
      <3>3. CASE i # 1
        <4>1. i - 1 \in 1..(n - 1) /\ (i - 1) + 1 = i
          BY <1>1, <3>3
        <4>2. addrEvents'[i - 1] = <<d, addrs[d]>>
          BY <1>1, <3>1, <4>1
        <4>3. ASSUME NEW j \in 1..(n - 1), j > i - 1 PROVE addrEvents'[j][1] # d
          <5>1. j + 1 \in 1..n /\ j + 1 > i
            BY <1>3, <4>1, <4>3
          <5> QED
            BY <1>1, <3>1, <5>1
        <4> QED
          BY <4>1, <4>2, <4>3
      <3> QED
        BY <3>2, <3>3
    <2>2. CASE addrCache[d] = addrs[d] /\ \A j \in 1..n : addrEvents[j][1] # d
      <3>1. e[1] # d
        BY <1>2, <2>2 DEF e
      <3>2. \A j \in 1..(n - 1) : addrEvents'[j][1] # d
        BY <1>1, <1>3, <2>2
      <3> QED
        BY <1>4, <2>2, <3>1, <3>2
    <2> QED
      BY <2>1, <2>2 DEF EventInv, CacheCatchesUp, n
  <1>6. RemovalIsLast'
    <2> SUFFICES ASSUME NEW i \in 1..(n - 1), NEW j \in 1..(n - 1),
                        addrEvents'[i][2] = None, i < j
                 PROVE  addrEvents'[j][1] # addrEvents'[i][1]
      BY <1>1 DEF RemovalIsLast
    <2>1. i + 1 < j + 1
      OBVIOUS
    <2> QED
      BY <1>1, <1>3, <2>1 DEF EventInv, RemovalIsLast, n
  <1>7. e[2] = None => \A i \in 1..(n - 1) : addrEvents'[i][1] # e[1]
    BY <1>1, <1>2, <1>3 DEF EventInv, RemovalIsLast, n, e
  <1>8. NewIsProtected'
    <2> SUFFICES ASSUME NEW d \in Claims, addrCache'[d] = None,
                        NEW i \in 1..(n - 1), addrEvents'[i][1] = d
                 PROVE  Protected(addrEvents'[i][2])
      BY <1>1 DEF NewIsProtected, Protected
    <2>1. CASE d = e[1]
      BY <1>4, <1>7, <2>1
    <2>2. CASE d # e[1]
      BY <1>1, <1>3, <1>4, <2>2 DEF EventInv, NewIsProtected, n
    <2> QED
      BY <2>1, <2>2
  <1>9. addrCache'[e[1]] = None => addrs[e[1]] = None
    BY <1>1, <1>2, <1>4, NoRemovalPending DEF n, e
  <1> QED
    BY <1>1, <1>5, <1>6, <1>8, <1>9 DEF EventInv

-----------------------------------------------------------------------------
(* IInv is inductive.  TypeOK is known from ClaimControllerProofs; IRest is   *)
(* the rest of it.                                                            *)

IRest ==
  /\ UsersAreSound
  /\ AllBacked
  /\ EventInv
  /\ MissingIsProtected
  /\ DroppedIsGone
  /\ ChosenIsFree
  /\ WrittenIsFixed

BusyWithAddress ==
  {"ensureAddress", "createUser", "writeAddress", "unprotectAddress", "deleteAddress"}

\* The invariant holds at the start, where there is nothing.
LEMMA IInvInit == Init => IInv
  <1> SUFFICES ASSUME Init PROVE IInv
    OBVIOUS
  <1>1. TypeOK
    BY TypeInit
  <1>2. UsersAreSound
    BY DEF Init, UsersAreSound, FixedIPsUnique, NoUser
  <1>3. AllBacked /\ EventInv
    BY DEF Init, AllBacked, Backed, EventInv, CacheCatchesUp, RemovalIsLast,
           NewIsProtected
  <1>4. MissingIsProtected /\ DroppedIsGone /\ ChosenIsFree /\ WrittenIsFixed
    BY DEF Init, MissingIsProtected, Allocating, DroppedIsGone, ChosenIsFree,
           WrittenIsFixed
  <1> QED
    BY <1>1, <1>2, <1>3, <1>4 DEF IInv

\* A step that leaves the addresses, their events and the UniFi users alone,
\* and the worker as it is or outside the calls that concern an address.
LEMMA QuietStep ==
  ASSUME IInv, UNCHANGED <<addrs, addrCache, addrEvents, users>>,
         \/ UNCHANGED <<pc, job>>
         \/ pc' \notin BusyWithAddress /\ job' \in {None, job}
  PROVE  IRest'
  <1> USE DEF IInv
  <1>1. UsersAreSound' /\ AllBacked'
    BY DEF UsersAreSound, FixedIPsUnique, AllBacked, Backed
  <1>2. EventInv'
    BY EventsKept
  <1>3. CASE UNCHANGED <<pc, job>>
    <2>1. MissingIsProtected' /\ DroppedIsGone'
      BY <1>3 DEF MissingIsProtected, Allocating, Protected, DroppedIsGone
    <2>2. ChosenIsFree' /\ WrittenIsFixed'
      BY <1>3 DEF ChosenIsFree, OwnUsers, WrittenIsFixed
    <2> QED
      BY <1>1, <1>2, <2>1, <2>2 DEF IRest
  <1>4. CASE pc' \notin BusyWithAddress
    BY <1>1, <1>2, <1>4 DEF IRest, BusyWithAddress, MissingIsProtected, Allocating,
       DroppedIsGone, ChosenIsFree, WrittenIsFixed
  <1> QED
    BY <1>3, <1>4

\* The actions that do not concern addresses are quiet.
LEMMA QuietActions ==
  ASSUME IInv,
         \/ AddFinalizer \/ WaitForAddressInCache \/ SetAddressRef \/ RemoveFinalizer
         \/ DeliverClaimEvent \/ PoolChange \/ ClusterPauseChange \/ ForeignChange
         \/ \E c \in Claims : CreateClaim(c) \/ RequestClaimDeletion(c)
         \/ UNCHANGED vars
  PROVE  IRest'
  <1> USE DEF apiVars, cacheVars, envVars, unifiVars
  <1>1. UNCHANGED <<addrs, addrCache, addrEvents, users>>
    BY DEF AddFinalizer, WaitForAddressInCache, SetAddressRef, RemoveFinalizer,
           DeliverClaimEvent, PoolChange, ClusterPauseChange, ForeignChange, CreateClaim,
           RequestClaimDeletion, vars
  <1>2. \/ UNCHANGED <<pc, job>>
        \/ pc' \notin BusyWithAddress /\ job' \in {None, job}
    BY DEF AddFinalizer, WaitForAddressInCache, SetAddressRef, RemoveFinalizer,
           DeliverClaimEvent, PoolChange, ClusterPauseChange, ForeignChange, CreateClaim,
           RequestClaimDeletion, vars, Write, Requeue, Done, Finish, GoTo,
           BusyWithAddress
  <1> QED
    BY <1>1, <1>2, QuietStep

\* Reconcile keeps the invariant: what it found missing has not been unprotected.
LEMMA ReconcileStep ==
  ASSUME IInv, NEW c \in Claims, Reconcile(c)
  PROVE  IRest'
  <1> USE DEF apiVars, cacheVars, envVars, unifiVars, Reconcile
  <1>1. UNCHANGED <<addrs, addrCache, addrEvents, users>>
    OBVIOUS
  <1>2. CASE Route(c) \in {"error", "done"}
    <2>1. pc' \notin BusyWithAddress /\ job' \in {None, job}
      BY <1>2 DEF Finish, BusyWithAddress
    <2> QED
      BY <1>1, <2>1, QuietStep
  <1>3. CASE Route(c) \notin {"error", "done"}
    <2>1. pc' = Route(c) /\ job' = Job(c, addrCache[c])
      BY <1>3
    <2>2. job'.name = c /\ job'.found = addrCache[c]
      BY <2>1 DEF Job
    <2>3. UsersAreSound' /\ AllBacked'
      BY <1>1, <2>2 DEF IInv, UsersAreSound, FixedIPsUnique, AllBacked, Backed
    <2>4. EventInv'
      BY <1>1, EventsKept DEF IInv
    <2>5. MissingIsProtected'
      <3> SUFFICES ASSUME addrCache[c] = None
                   PROVE  /\ \A i \in 1..Len(addrEvents) :
                               addrEvents[i][1] = c => Protected(addrEvents[i][2])
                          /\ addrs[c] # None => addrs[c].fin
        BY <1>1, <2>2 DEF MissingIsProtected, Protected
      <3>1. \A i \in 1..Len(addrEvents) :
              addrEvents[i][1] = c => Protected(addrEvents[i][2])
        BY DEF IInv, EventInv, NewIsProtected
      <3>2. ASSUME addrs[c] # None PROVE addrs[c].fin
        <4>1. PICK i \in 1..Len(addrEvents) : addrEvents[i] = <<c, addrs[c]>>
          BY <3>2 DEF IInv, EventInv, CacheCatchesUp
        <4> QED
          BY <3>1, <4>1 DEF Protected
      <3> QED
        BY <3>1, <3>2
    <2>6. DroppedIsGone'
      BY <1>1, <2>1, <2>2 DEF DroppedIsGone, Route, DeleteRoute, NormalRoute
    <2>7. ChosenIsFree' /\ WrittenIsFixed'
      BY <2>1 DEF ChosenIsFree, WrittenIsFixed, Route, DeleteRoute, NormalRoute
    <2> QED
      BY <2>3, <2>4, <2>5, <2>6, <2>7 DEF IRest
  <1> QED
    BY <1>2, <1>3

\* What a running reconcile holds.
LEMMA JobTypes ==
  ASSUME TypeOK, pc # "idle"
  PROVE  /\ job \in Jobs /\ job # None
         /\ job.name \in Claims
         /\ MacOf[job.name] \in MACs
         /\ job.ip \in IPs \cup {NoIP}
         /\ job.claim.uid \in Nat
         /\ \A ip : /\ [job EXCEPT !.ip = ip].name = job.name
                    /\ [job EXCEPT !.ip = ip].found = job.found
                    /\ [job EXCEPT !.ip = ip].network = job.network
                    /\ [job EXCEPT !.ip = ip].want = job.want
                    /\ [job EXCEPT !.ip = ip].ip = ip
                    /\ ip \in IPs \cup {NoIP} => [job EXCEPT !.ip = ip] # None
  <1>1. job \in Jobs
    BY DEF TypeOK, WorkerTypeOK
  <1>2. \A ip \in IPs \cup {NoIP} : [job EXCEPT !.ip = ip] \in Jobs
    BY <1>1 DEF Jobs
  <1> QED
    BY <1>1, <1>2, NoneAssumption, DataAssumption DEF Jobs, ClaimObjects

\* Carrying an IP on to CreateUser or to the write.
LEMMA CarryStep ==
  ASSUME IInv, Allocating, UNCHANGED <<addrs, addrCache, addrEvents, users>>,
         NEW l \in {"createUser", "writeAddress"}, NEW ip \in IPs \cup {NoIP},
         Carry(l, ip),
         l = "createUser" => /\ ip # NoIP /\ job.network # NoNetwork
                             /\ ip \notin OwnUsers(job.network) /\ job.want \in {NoIP, ip},
         l = "writeAddress" =>
           IF ip = NoIP THEN job.found = None /\ addrs[job.name] # None
           ELSE ip = users[MacOf[job.name]].ip
  PROVE  IRest'
  <1>1. pc # "idle"
    BY DEF Allocating
  <1>2. /\ pc' = l /\ job'.name = job.name /\ job'.found = job.found /\ job'.ip = ip
        /\ job'.network = job.network /\ job'.want = job.want
    BY <1>1, JobTypes DEF IInv, Carry
  <1>3. job # None
    BY <1>1, JobTypes DEF IInv
  <1>4. UsersAreSound' /\ AllBacked'
    BY <1>2, <1>3 DEF IInv, UsersAreSound, FixedIPsUnique, AllBacked, Backed
  <1>5. EventInv'
    BY EventsKept DEF IInv
  <1>6. MissingIsProtected' /\ DroppedIsGone'
    BY <1>2 DEF IInv, MissingIsProtected, Allocating, Protected, DroppedIsGone
  <1>7. ChosenIsFree' /\ WrittenIsFixed'
    BY <1>2 DEF ChosenIsFree, OwnUsers, WrittenIsFixed
  <1> QED
    BY <1>4, <1>5, <1>6, <1>7 DEF IRest

\* EnsureAddress keeps the invariant: what it chooses is free.
LEMMA EnsureAddressStep ==
  ASSUME IInv, EnsureAddress
  PROVE  IRest'
  <1> USE DEF apiVars, cacheVars, envVars, unifiVars, EnsureAddress
  <1>1. UNCHANGED <<addrs, addrCache, addrEvents, users>>
    OBVIOUS
  <1>2. Allocating /\ pc # "idle" /\ TypeOK
    BY DEF Allocating, IInv
  <1>3. ASSUME Requeue PROVE IRest'
    BY <1>1, <1>3, QuietStep DEF Requeue, Finish, BusyWithAddress
  <1>4. ASSUME AllocateIP, job.network # NoNetwork PROVE IRest'
    <2> DEFINE choice == AllocateNextIP(AddressesInUse(addrCache))
    <2>1. \A ip \in choice : /\ ip \in SubnetIPs /\ ip \notin OwnUsers(job.network)
                             /\ job.want \in {NoIP, ip}
      BY DEF AllocateNextIP, Lowest, Taken, StaticAssignments
    <2>2. \A ip \in choice : ip \in IPs /\ ip # NoIP
      BY <2>1, DataAssumption
    <2> HIDE DEF choice
    <2>3. ASSUME NEW ip \in choice, Carry("createUser", ip) PROVE IRest'
      BY <1>1, <1>2, <1>4, <2>1, <2>2, <2>3, CarryStep
    <2> QED
      BY <1>3, <1>4, <2>3 DEF AllocateIP, choice
  <1>5. CASE IsAddressAllocated(job.name)
    <2> DEFINE keep == IF job.found = None THEN NoIP ELSE job.found.ip
    <2>1. Carry("writeAddress", keep)
      BY <1>5
    <2>2. Backed(job.name, job.found) /\ job.found \in AddressOrNone
      BY <1>2, JobTypes DEF IInv, AllBacked, Jobs, AddressOrNone
    <2>3. keep \in IPs \cup {NoIP}
      BY <2>2 DEF AddressOrNone, AddressObjects
    <2>4. IF keep = NoIP THEN job.found = None /\ addrs[job.name] # None
          ELSE keep = users[MacOf[job.name]].ip
      BY <1>2, <1>5, <2>2 DEF Backed, IInv, MissingIsProtected, IsAddressAllocated
    <2> QED
      BY <1>1, <1>2, <2>1, <2>3, <2>4, CarryStep
  <1>6. CASE job.network # NoNetwork /\ GetOrAllocateIP
    <2> DEFINE ip == users[MacOf[job.name]].ip
    <2>1. ip \in IPs \cup {NoIP}
      BY <1>2, JobTypes DEF TypeOK, EnvTypeOK, UserObjects
    <2>2. ASSUME ip # NoIP, Carry("writeAddress", ip) PROVE IRest'
      BY <1>1, <1>2, <2>1, <2>2, CarryStep
    <2> QED
      BY <1>3, <1>4, <1>6, <2>2 DEF GetOrAllocateIP
  <1> QED
    BY <1>3, <1>5, <1>6

\* CreateUser keeps the invariant: what was chosen is still free.
LEMMA CreateUserStep ==
  ASSUME IInv, CreateUser
  PROVE  IRest'
  <1> USE DEF apiVars, cacheVars, envVars, unifiVars, CreateUser
  <1> DEFINE mac == MacOf[job.name]
  <1>1. /\ UNCHANGED <<addrs, addrCache, addrEvents>>
        /\ pc = "createUser" /\ TypeOK
    BY DEF IInv
  <1>2. job # None /\ job.name \in Claims /\ mac \in MACs /\ job.ip \in IPs \cup {NoIP}
    BY <1>1, JobTypes
  <1>3. CASE UNCHANGED users /\ Requeue
    BY <1>1, <1>3, QuietStep DEF Requeue, Finish, BusyWithAddress
  <1> DEFINE new == [ip |-> job.ip, network |-> job.network]
  <1>4. CASE /\ users[mac].ip = NoIP
             /\ users' = [users EXCEPT ![mac] = new]
             /\ Requeue \/ GoTo("writeAddress")
    <2>1. users \in [MACs -> UserObjects]
      BY <1>1 DEF TypeOK, EnvTypeOK
    <2>2. /\ users'[mac] = new
          /\ \A m \in MACs : m # mac => users'[m] = users[m]
      BY <1>2, <1>4, <2>1
    <2>3. \A c \in Claims : MacOf[c] \in MACs
      BY DataAssumption
    <2>4. job.ip # NoIP /\ job.network # NoNetwork /\ \A m \in MACs : users[m] # new
      BY <1>1 DEF IInv, ChosenIsFree, OwnUsers
    <2>5. UsersAreSound'
      BY <2>2, <2>4 DEF IInv, UsersAreSound, FixedIPsUnique
    <2>6. \A c \in Claims : \A obj : Backed(c, obj) =>
            (obj # None => obj.ip # NoIP /\ obj.ip = users'[MacOf[c]].ip)
      BY <1>4, <2>2, <2>3 DEF Backed
    <2>7. \/ pc' = "idle" /\ job' = None
          \/ pc' = "writeAddress" /\ job' = job
      BY <1>4 DEF Requeue, Finish, GoTo
    <2>8. AllBacked'
      <3>1. \A i \in 1..Len(addrEvents) : addrEvents[i][1] \in Claims
        BY <1>1, EventTypes
      <3> QED
        BY <1>1, <1>2, <2>6, <2>7, <3>1 DEF IInv, AllBacked, Backed
    <2>9. EventInv'
      BY <1>1, EventsKept DEF IInv
    <2>10. MissingIsProtected' /\ DroppedIsGone'
      BY <1>1, <2>7 DEF IInv, MissingIsProtected, Allocating, Protected, DroppedIsGone
    <2>11. ChosenIsFree' /\ WrittenIsFixed'
      BY <2>2, <2>4, <2>7 DEF ChosenIsFree, WrittenIsFixed
    <2> QED
      BY <2>5, <2>8, <2>9, <2>10, <2>11 DEF IRest
  <1> QED
    BY <1>3, <1>4 DEF Write

\* A step that writes obj, an address with the fixed IP of its claim's MAC or
\* none, and leaves the worker outside the calls that concern an address.
LEMMA WrittenStep ==
  ASSUME IInv, UNCHANGED <<addrCache, users>>, NEW c \in Claims,
         NEW obj \in AddressOrNone, SetAddress(c, obj), Backed(c, obj),
         addrs[c] = None /\ obj # None =>
           \A i \in 1..Len(addrEvents) :
             addrEvents[i][1] = c => addrEvents[i][2] # None,
         addrCache[c] = None /\ obj # addrs[c] => Protected(obj),
         job' \in {None, job}
  PROVE  UsersAreSound' /\ AllBacked' /\ EventInv'
  <1>1. TypeOK /\ EventInv
    BY DEF IInv
  <1>2. UsersAreSound'
    BY DEF IInv, UsersAreSound, FixedIPsUnique
  <1>3. EventInv'
    BY <1>1, EventsAfterWrite
  <1>4. /\ \A d \in Claims : addrs'[d] = IF d = c THEN obj ELSE addrs[d]
        /\ \A i \in 1..Len(addrEvents') :
             \/ i \in 1..Len(addrEvents) /\ addrEvents'[i] = addrEvents[i]
             \/ addrEvents'[i] = <<c, obj>>
    BY <1>1, SetAddressEffect
  <1>5. AllBacked'
    BY <1>4 DEF IInv, AllBacked, Backed
  <1> QED
    BY <1>2, <1>3, <1>5

\* WriteAddress keeps the invariant: the server refuses the address without an IP.
LEMMA WriteAddressStep ==
  ASSUME IInv, WriteAddress
  PROVE  IRest'
  <1> USE DEF apiVars, cacheVars, envVars, unifiVars, WriteAddress
  <1> DEFINE c == job.name
  <1>1. UNCHANGED <<addrCache, users>> /\ pc = "writeAddress" /\ Allocating /\ TypeOK
    BY DEF IInv, Allocating
  <1>2. /\ c \in Claims /\ job # None /\ job.ip \in IPs \cup {NoIP}
        /\ job.claim.uid \in Nat /\ addrs \in [Claims -> AddressOrNone]
        /\ job.found \in AddressOrNone
    BY <1>1, JobTypes, EventTypes DEF Jobs, AddressOrNone
  <1>3. ASSUME \/ Requeue
               \/ GoTo("waitForAddress")
        PROVE  pc' \notin BusyWithAddress /\ job' \in {None, job}
    BY <1>3 DEF Requeue, Finish, GoTo, BusyWithAddress
  <1>4. CASE UNCHANGED <<addrs, addrEvents>> /\ (Requeue \/ GoTo("waitForAddress"))
    BY <1>1, <1>3, <1>4, QuietStep
  <1>5. ASSUME NEW obj \in AddressOrNone, SetAddress(c, obj),
               Requeue \/ GoTo("waitForAddress"),
               obj # None, obj.fin, obj.ip # NoIP, obj.ip = users[MacOf[c]].ip,
               addrs[c] = None => job.found = None
        PROVE  IRest'
    <2>1. addrs[c] = None =>
            \A i \in 1..Len(addrEvents) : addrEvents[i][1] = c => addrEvents[i][2] # None
      BY <1>1, <1>5 DEF IInv, MissingIsProtected, Protected
    <2>2. UsersAreSound' /\ AllBacked' /\ EventInv'
      BY <1>1, <1>2, <1>3, <1>5, <2>1, WrittenStep DEF Protected, Backed
    <2>3. MissingIsProtected' /\ DroppedIsGone' /\ ChosenIsFree' /\ WrittenIsFixed'
      BY <1>3, <1>5 DEF BusyWithAddress, MissingIsProtected, Allocating, DroppedIsGone,
         ChosenIsFree, WrittenIsFixed
    <2> QED
      BY <2>2, <2>3 DEF IRest
  <1>6. CASE Create
    <2> DEFINE obj == [ip |-> job.ip, owner |-> job.claim.uid,
                       fin |-> TRUE, deleting |-> FALSE]
    <2>1. CASE addrs[c] # None
      BY <1>4, <1>6, <2>1 DEF Create
    <2>2. CASE addrs[c] = None
      <3>1. job.ip # NoIP /\ job.ip = users[MacOf[c]].ip /\ job.found = None
        BY <1>1, <1>6, <2>2 DEF IInv, WrittenIsFixed, Create
      <3>2. obj \in AddressObjects
        BY <1>2 DEF AddressObjects
      <3>3. obj \in AddressOrNone /\ obj # None
        BY <3>2, NoneAssumption DEF AddressOrNone
      <3>4. CASE SetAddress(c, obj) /\ (Requeue \/ GoTo("waitForAddress"))
        BY <1>5, <3>1, <3>3, <3>4
      <3> QED
        BY <1>4, <1>6, <2>2, <3>4 DEF Create, Write
    <2> QED
      BY <2>1, <2>2
  <1>7. CASE Patch
    <2> DEFINE now == addrs[c]
               patched == [now EXCEPT
                 !.ip    = IF job.ip # job.found.ip THEN job.ip ELSE @,
                 !.owner = job.claim.uid,
                 !.fin   = TRUE]
    <2>1. CASE now = None \/ Wanted(job.found) = job.found
      BY <1>4, <1>7, <2>1 DEF Patch
    <2>2. CASE now # None /\ Wanted(job.found) # job.found
      <3>1. now \in AddressObjects /\ job.found # None
        BY <1>2, <1>7, <2>2 DEF AddressOrNone, Patch
      <3>2. now.ip = users[MacOf[c]].ip /\ now.ip # NoIP /\ job.ip = users[MacOf[c]].ip
        BY <1>1, <1>2, <2>2, <3>1 DEF IInv, AllBacked, Backed, WrittenIsFixed
      <3>3. patched \in AddressObjects /\ patched.fin /\ patched.ip = users[MacOf[c]].ip
        BY <1>2, <3>1, <3>2 DEF AddressObjects
      <3>4. patched \in AddressOrNone /\ patched # None
        BY <3>3, NoneAssumption DEF AddressOrNone
      <3> HIDE DEF patched
      <3>5. CASE SetAddress(c, patched) /\ (Requeue \/ GoTo("waitForAddress"))
        BY <1>5, <2>2, <3>2, <3>3, <3>4, <3>5
      <3> QED
        BY <1>4, <1>7, <2>2, <3>5 DEF Patch, Write, patched
    <2> QED
      BY <2>1, <2>2
  <1> QED
    BY <1>6, <1>7

\* What Deleted and Unprotected leave of an address is backed as it was.
LEMMA Remains ==
  ASSUME NEW c \in Claims, NEW obj \in AddressObjects, Backed(c, obj)
  PROVE  /\ Deleted(obj) \in AddressOrNone /\ Backed(c, Deleted(obj))
         /\ obj.fin => Protected(Deleted(obj))
         /\ Unprotected(obj) \in AddressOrNone /\ Backed(c, Unprotected(obj))
  <1>1. obj # None
    BY NoneAssumption
  <1>2. /\ [obj EXCEPT !.deleting = TRUE] \in AddressObjects
        /\ [obj EXCEPT !.deleting = TRUE].ip = obj.ip
        /\ [obj EXCEPT !.deleting = TRUE].fin = obj.fin
        /\ [obj EXCEPT !.fin = FALSE] \in AddressObjects
        /\ [obj EXCEPT !.fin = FALSE].ip = obj.ip
    BY DEF AddressObjects
  <1>3. \A x \in AddressObjects : x \in AddressOrNone /\ x # None
    BY NoneAssumption DEF AddressOrNone
  <1>4. None \in AddressOrNone
    BY DEF AddressOrNone
  <1>5. Deleted(obj) \in AddressOrNone /\ Backed(c, Deleted(obj))
    BY <1>1, <1>2, <1>3, <1>4 DEF Deleted, Backed
  <1>6. obj.fin => Protected(Deleted(obj))
    BY <1>2, <1>3 DEF Deleted, Protected
  <1>7. Unprotected(obj) \in AddressOrNone /\ Backed(c, Unprotected(obj))
    BY <1>1, <1>2, <1>3, <1>4 DEF Unprotected, Backed
  <1> QED
    BY <1>5, <1>6, <1>7

\* UnprotectAddress and DeleteAddress keep the invariant.
LEMMA DropAddressStep ==
  ASSUME IInv, UnprotectAddress \/ DeleteAddress
  PROVE  IRest'
  <1> USE DEF apiVars, cacheVars, envVars, unifiVars
  <1> DEFINE c == job.name
             next == IF pc = "unprotectAddress" THEN "deleteAddress" ELSE "removeFinalizer"
  <1>1. /\ UNCHANGED <<addrCache, users>> /\ TypeOK
        /\ pc \in {"unprotectAddress", "deleteAddress"}
    BY DEF IInv, UnprotectAddress, DeleteAddress
  <1>2. c \in Claims /\ addrs \in [Claims -> AddressOrNone]
    BY <1>1, JobTypes, EventTypes
  <1>3. ASSUME Requeue \/ GoTo(next)
        PROVE  /\ job' \in {None, job}
               /\ MissingIsProtected' /\ ChosenIsFree' /\ WrittenIsFixed'
               /\ pc' \in {"unprotectAddress", "deleteAddress"} => job'.name = c
    BY <1>1, <1>3 DEF Requeue, Finish, GoTo, MissingIsProtected, Allocating,
       ChosenIsFree, WrittenIsFixed
  <1>4. CASE UNCHANGED <<addrs, addrEvents>> /\ (Requeue \/ GoTo(next))
    <2>1. UsersAreSound' /\ AllBacked'
      BY <1>1, <1>3, <1>4 DEF IInv, UsersAreSound, FixedIPsUnique, AllBacked, Backed
    <2>2. EventInv'
      BY <1>1, <1>4, EventsKept DEF IInv
    <2>3. DroppedIsGone'
      BY <1>1, <1>3, <1>4 DEF IInv, DroppedIsGone
    <2> QED
      BY <1>3, <1>4, <2>1, <2>2, <2>3 DEF IRest
  <1>5. CASE /\ addrs[c] # None
             /\ SetAddress(c, Unprotected(addrs[c])) \/ SetAddress(c, Deleted(addrs[c]))
             /\ Requeue \/ GoTo(next)
    <2>1. PICK obj \in {Unprotected(addrs[c]), Deleted(addrs[c])} : SetAddress(c, obj)
      BY <1>5
    <2>2. addrs[c] \in AddressObjects /\ Backed(c, addrs[c])
      BY <1>2, <1>5 DEF AddressOrNone, IInv, AllBacked
    <2>3. obj \in AddressOrNone /\ Backed(c, obj)
      BY <1>2, <2>1, <2>2, Remains
    <2>4. addrCache[c] # None
      BY <1>1, <1>5 DEF IInv, DroppedIsGone
    <2>5. UsersAreSound' /\ AllBacked' /\ EventInv'
      BY <1>1, <1>2, <1>3, <1>5, <2>1, <2>3, <2>4, WrittenStep
    <2>6. DroppedIsGone'
      BY <1>1, <1>3, <1>5, <2>4 DEF DroppedIsGone
    <2> QED
      BY <1>3, <1>5, <2>5, <2>6 DEF IRest
  <1>6. CASE UnprotectAddress
    BY <1>4, <1>5, <1>6 DEF UnprotectAddress, Write
  <1>7. CASE DeleteAddress
    BY <1>4, <1>5, <1>7 DEF DeleteAddress, Write
  <1> QED
    BY <1>6, <1>7

\* A user's request to delete an address keeps the invariant.
LEMMA RequestAddressDeletionStep ==
  ASSUME IInv, NEW c \in Claims, RequestAddressDeletion(c)
  PROVE  IRest'
  <1> USE DEF apiVars, cacheVars, envVars, unifiVars, RequestAddressDeletion
  <1> DEFINE obj == Deleted(addrs[c])
  <1>1. UNCHANGED <<addrCache, users, pc, job>> /\ SetAddress(c, obj) /\ TypeOK /\ EventInv
    BY DEF IInv
  <1>2. addrs[c] \in AddressObjects /\ Backed(c, addrs[c])
    BY <1>1, EventTypes DEF AddressOrNone, IInv, AllBacked
  <1>3. obj \in AddressOrNone /\ Backed(c, obj) /\ (addrs[c].fin => Protected(obj))
    BY <1>2, Remains
  <1>4. addrCache[c] = None => Protected(obj)
    <2> SUFFICES ASSUME addrCache[c] = None PROVE addrs[c].fin
      BY <1>3
    <2>1. addrs[c] # None
      BY <1>2, NoneAssumption
    <2>2. PICK i \in 1..Len(addrEvents) : addrEvents[i] = <<c, addrs[c]>>
      BY <1>1, <2>1 DEF EventInv, CacheCatchesUp
    <2>3. addrEvents[i][1] = c /\ addrEvents[i][2] = addrs[c]
      BY <2>2
    <2> QED
      BY <1>1, <2>3 DEF EventInv, NewIsProtected, Protected
  <1> HIDE DEF obj
  <1>5. UsersAreSound' /\ AllBacked' /\ EventInv'
    BY <1>1, <1>3, <1>4, WrittenStep
  <1>6. /\ \A d \in Claims : addrs'[d] = IF d = c THEN obj ELSE addrs[d]
        /\ \A i \in 1..Len(addrEvents') :
             \/ i \in 1..Len(addrEvents) /\ addrEvents'[i] = addrEvents[i]
             \/ addrEvents'[i] = <<c, obj>>
    BY <1>1, <1>3, SetAddressEffect
  <1>7. ASSUME Allocating PROVE job.name \in Claims
    BY <1>1, <1>7, JobTypes DEF Allocating
  <1>8. MissingIsProtected'
    <2> SUFFICES ASSUME Allocating, job.found = None
                 PROVE  /\ \A i \in 1..Len(addrEvents') :
                             addrEvents'[i][1] = job.name => Protected(addrEvents'[i][2])
                        /\ addrs'[job.name] # None => addrs'[job.name].fin
                        /\ addrCache[job.name] # None => addrs'[job.name] # None
      BY <1>1 DEF MissingIsProtected, Allocating, Protected
    <2>1. job.name = c => Protected(obj)
      BY <1>3 DEF IInv, MissingIsProtected
    <2> QED
      BY <1>6, <1>7, <2>1 DEF IInv, MissingIsProtected, Protected
  <1>9. DroppedIsGone'
    BY <1>1, <1>6, JobTypes DEF IInv, DroppedIsGone
  <1>10. ChosenIsFree' /\ WrittenIsFixed'
    <2>1. ChosenIsFree'
      BY <1>1 DEF IInv, ChosenIsFree, OwnUsers
    <2>2. ASSUME pc = "writeAddress", job.ip = NoIP PROVE addrs'[job.name] # None
      <3>1. job.found = None /\ addrs[job.name] # None /\ Allocating
        BY <2>2 DEF IInv, WrittenIsFixed, Allocating
      <3>2. job.name = c => Protected(obj)
        BY <1>3, <3>1 DEF IInv, MissingIsProtected
      <3> QED
        BY <1>6, <1>7, <3>1, <3>2 DEF Protected
    <2> QED
      BY <1>1, <2>1, <2>2 DEF IInv, WrittenIsFixed
  <1> QED
    BY <1>5, <1>8, <1>9, <1>10 DEF IRest

\* The delivery of an address event keeps the invariant.
LEMMA DeliverAddressStep ==
  ASSUME IInv, DeliverAddressEvent
  PROVE  IRest'
  <1> USE DEF envVars, DeliverAddressEvent
  <1> DEFINE e == Head(addrEvents)
  <1>1. UNCHANGED <<addrs, users, pc, job>> /\ TypeOK /\ EventInv
    BY DEF IInv
  <1>2. /\ e = addrEvents[1] /\ 1 \in 1..Len(addrEvents)
        /\ e[1] \in Claims
        /\ \A i \in 1..Len(addrEvents') :
             i + 1 \in 1..Len(addrEvents) /\ addrEvents'[i] = addrEvents[i + 1]
    <2>1. /\ Len(addrEvents) \in Nat \ {0} /\ e = addrEvents[1]
          /\ Len(addrEvents') = Len(addrEvents) - 1
          /\ \A i \in 1..(Len(addrEvents) - 1) : addrEvents'[i] = addrEvents[i + 1]
      BY <1>1, EventTypes
    <2>2. 1 \in 1..Len(addrEvents)
      BY <2>1
    <2>3. e[1] \in Claims
      BY <1>1, <2>1, <2>2, EventTypes
    <2> QED
      BY <2>1, <2>2, <2>3
  <1>3. \A d \in Claims : addrCache'[d] = IF d = e[1] THEN e[2] ELSE addrCache[d]
    BY <1>1, EventTypes
  <1>4. EventInv' /\ (addrCache'[e[1]] = None => addrs[e[1]] = None)
    BY <1>1, EventsAfterDelivery
  <1> HIDE DEF e
  <1>5. UsersAreSound' /\ AllBacked'
    BY <1>1, <1>2, <1>3 DEF IInv, UsersAreSound, FixedIPsUnique, AllBacked, Backed
  <1>6. ASSUME pc # "idle" PROVE job.name \in Claims
    BY <1>1, <1>6, JobTypes
  <1>7. MissingIsProtected'
    <2> SUFFICES ASSUME Allocating, job.found = None
                 PROVE  /\ \A i \in 1..Len(addrEvents') :
                             addrEvents'[i][1] = job.name => Protected(addrEvents'[i][2])
                        /\ addrs[job.name] # None => addrs[job.name].fin
                        /\ addrCache'[job.name] # None => addrs[job.name] # None
      BY <1>1 DEF MissingIsProtected, Allocating, Protected
    <2>1. \A i \in 1..Len(addrEvents) :
            addrEvents[i][1] = job.name => Protected(addrEvents[i][2])
      BY DEF IInv, MissingIsProtected
    <2>2. job.name \in Claims
      BY <1>6 DEF Allocating
    <2>3. ASSUME addrs[job.name] = None
          PROVE  \A i \in 1..Len(addrEvents) : addrEvents[i][1] # job.name
      <3>1. ASSUME NEW i \in 1..Len(addrEvents), addrEvents[i] = <<job.name, None>>
            PROVE  FALSE
        <4>1. addrEvents[i][1] = job.name /\ addrEvents[i][2] = None
          BY <3>1
        <4> QED
          BY <2>1, <4>1 DEF Protected
      <3> QED
        BY <1>1, <2>2, <2>3, <3>1 DEF EventInv, CacheCatchesUp
    <2> QED
      BY <1>2, <1>3, <2>1, <2>2, <2>3 DEF IInv, MissingIsProtected
  <1>8. DroppedIsGone'
    BY <1>1, <1>3, <1>4, <1>6 DEF IInv, DroppedIsGone
  <1>9. ChosenIsFree' /\ WrittenIsFixed'
    BY <1>1 DEF IInv, ChosenIsFree, OwnUsers, WrittenIsFixed
  <1> QED
    BY <1>4, <1>5, <1>7, <1>8, <1>9 DEF IRest

\* A restart keeps the invariant: no event is left, and the cache is current.
LEMMA CrashStep ==
  ASSUME IInv, Crash
  PROVE  IRest'
  <1> USE DEF Crash, envVars
  <1>1. /\ UNCHANGED <<addrs, users>> /\ addrCache' = addrs /\ addrEvents' = << >>
        /\ pc' = "idle" /\ job' = None
    BY DEF Finish
  <1>2. UsersAreSound' /\ AllBacked'
    BY <1>1 DEF IInv, UsersAreSound, FixedIPsUnique, AllBacked, Backed
  <1>3. EventInv'
    BY <1>1 DEF EventInv, CacheCatchesUp, RemovalIsLast, NewIsProtected
  <1>4. MissingIsProtected' /\ DroppedIsGone' /\ ChosenIsFree' /\ WrittenIsFixed'
    BY <1>1 DEF MissingIsProtected, Allocating, DroppedIsGone, ChosenIsFree, WrittenIsFixed
  <1> QED
    BY <1>2, <1>3, <1>4 DEF IRest

\* IInv is inductive.
LEMMA IInvNext == IInv /\ [Next]_vars => IInv'
  <1> SUFFICES ASSUME IInv, [Next]_vars PROVE IInv'
    OBVIOUS
  <1>1. TypeOK'
    BY TypeNext DEF IInv
  <1> SUFFICES IRest'
    BY <1>1 DEF IInv, IRest
  <1>2. CASE UNCHANGED vars
    BY <1>2, QuietActions
  <1>3. CASE Worker
    BY <1>3, ReconcileStep, QuietActions, EnsureAddressStep, CreateUserStep,
       WriteAddressStep, DropAddressStep DEF Worker
  <1>4. CASE DeliverClaimEvent \/ DeliverAddressEvent
    BY <1>4, QuietActions, DeliverAddressStep
  <1>5. CASE Environment
    BY <1>5, QuietActions, CrashStep, RequestAddressDeletionStep DEF Environment
  <1> QED
    BY <1>2, <1>3, <1>4, <1>5 DEF Next

-----------------------------------------------------------------------------
(* The theorems. *)

\* The inductive invariant holds of every behaviour, with any number of claims,
\* addresses, faults, restarts and incarnations.
THEOREM InvariantHolds == Spec => []IInv
  <1>1. Init => IInv
    BY IInvInit
  <1>2. IInv /\ [Next]_vars => IInv'
    BY IInvNext
  <1> QED
    BY <1>1, <1>2, PTL DEF Spec

\* No two users of the controller have one fixed IP in one network: the list of
\* the static assignments and the creation of a user are two calls, and the pool's
\* network may change between two allocations.
THEOREM UniqueFixedIPs == Spec => []FixedIPsUnique
  <1>1. IInv => FixedIPsUnique
    BY DEF IInv, UsersAreSound
  <1> QED
    BY <1>1, InvariantHolds, PTL

\* Every IPAddress carries the fixed IP of its claim's MAC, whatever the caches
\* showed to the reconcile that wrote it.
THEOREM AddressesAreFixedIPs == Spec => []AddressIsFixedIP
  <1>1. IInv => AddressIsFixedIP
    BY DEF IInv, AllBacked, Backed, AddressIsFixedIP
  <1> QED
    BY <1>1, InvariantHolds, PTL

\* Two claims are served the same address only if generateMACAddress gives them
\* one MAC or the pool was in another network when one of them got it.
THEOREM SharingIsExplained == Spec => []SharingExplained
  <1>1. IInv => SharingExplained
    <2> SUFFICES ASSUME IInv, NEW c \in Claims, NEW d \in Claims,
                        addrs[c] # None, addrs[d] # None, addrs[c].ip = addrs[d].ip,
                        users[MacOf[c]].network = users[MacOf[d]].network
                 PROVE  MacOf[c] = MacOf[d]
      BY DEF SharingExplained
    <2>1. /\ addrs[c].ip = users[MacOf[c]].ip /\ addrs[d].ip = users[MacOf[d]].ip
          /\ addrs[c].ip # NoIP
      BY DEF IInv, AllBacked, Backed
    <2>2. /\ MacOf[c] \in MACs /\ MacOf[d] \in MACs
          /\ users \in [MACs -> UserObjects]
      BY DataAssumption DEF IInv, TypeOK, EnvTypeOK
    <2>3. \A u, v \in UserObjects : u.ip = v.ip /\ u.network = v.network => u = v
      BY DEF UserObjects
    <2>4. users[MacOf[c]] = users[MacOf[d]]
      BY <2>1, <2>2, <2>3, Zenon
    <2> QED
      BY <2>1, <2>2, <2>4 DEF IInv, UsersAreSound, FixedIPsUnique
  <1> QED
    BY <1>1, InvariantHolds, PTL

\* A user appears only when the worker creates it, with what it has chosen.
LEMMA OnlyCreated ==
  ASSUME TypeOK, [Next]_vars, NEW m \in MACs, users'[m].ip # users[m].ip
  PROVE  pc = "createUser" /\ users'[m].ip = job.ip
  <1>1. Next /\ users' # users
    BY DEF vars
  <1>2. CreateUser
    <2>1. Worker
      BY <1>1 DEF Next, DeliverClaimEvent, DeliverAddressEvent, Environment, PoolChange,
         ClusterPauseChange, ForeignChange, Crash, CreateClaim, RequestClaimDeletion,
         RequestAddressDeletion
    <2> QED
      BY <1>1, <2>1 DEF Worker, Reconcile, AddFinalizer, EnsureAddress, WriteAddress,
         WaitForAddressInCache, SetAddressRef, UnprotectAddress, DeleteAddress,
         RemoveFinalizer
  <1>3. users \in [MACs -> UserObjects]
    BY DEF TypeOK, EnvTypeOK
  <1>4. users' = [users EXCEPT ![MacOf[job.name]] =
                    [ip |-> job.ip, network |-> job.network]]
    BY <1>1, <1>2 DEF CreateUser, Write
  <1> QED
    BY <1>2, <1>3, <1>4 DEF CreateUser

\* A fixed IP that is assigned while the pool pre-allocates one to the claim is
\* that one: what EnsureAddress chose is what CreateUser asks UniFi for.
THEOREM PreAllocationsAreHonoured == Spec => PreAllocationHonoured
  <1> DEFINE Honours == \A m \in MACs :
               users[m].ip = NoIP /\ users'[m].ip # NoIP /\ job.want # NoIP =>
                 users'[m].ip = job.want
  <1>1. IInv /\ [Next]_vars => Honours
    BY OnlyCreated DEF IInv, ChosenIsFree
  <1>2. Spec => [][Honours]_vars
    <2> HIDE DEF Honours
    <2> QED
      BY <1>1, InvariantHolds, PTL DEF Spec
  <1> QED
    BY <1>2 DEF PreAllocationHonoured
=============================================================================
