----------------------------- MODULE LeaseProofs -----------------------------
(***************************************************************************)
(* LInv is an invariant of ClaimController when every reply arrives and    *)
(* the cache shows a new address in time, and with it: no address outlives *)
(* its claim, a bound claim is served, an address is protected until its   *)
(* claim leaves, and the controller implements LeaseContract.              *)
(***************************************************************************)
EXTENDS LeaseInvariant, ClaimInvariantProofs, EventLemmas

-----------------------------------------------------------------------------
(* The versions of an object. *)

\* Where a version was before the first of the events was delivered.
Before(events, c, i) == IF i = 0 /\ Head(events)[1] # c THEN 0 ELSE i + 1

\* The delivery of an event moves the versions of an object one place ahead, the
\* first of them into the cache.
LEMMA VersionsDelivered ==
  ASSUME NEW S, NEW cache, NEW events \in Seq(S), events # << >>, NEW c, NEW new,
         new[c] = IF Head(events)[1] = c THEN Head(events)[2] ELSE cache[c],
         NEW i \in Versions(Tail(events), c)
  PROVE  /\ Before(events, c, i) \in Versions(events, c)
         /\ Version(new, Tail(events), c, i) = Version(cache, events, c, Before(events, c, i))
         /\ \A j \in Versions(Tail(events), c) :
              /\ i < j => Before(events, c, i) < Before(events, c, j)
              /\ j < i => Before(events, c, j) < Before(events, c, i)
  <1> DEFINE e == events[1]
             old(k) == Before(events, c, k)
  <1>1. /\ Len(events) \in Nat /\ Len(events) > 0 /\ Head(events) = e
        /\ 1 \in 1..Len(events)
        /\ Tail(events) \in Seq(S) /\ Len(Tail(events)) = Len(events) - 1
        /\ \A k \in 1..Len(events) - 1 : Tail(events)[k] = events[k + 1]
    OBVIOUS
  <1>2. new[c] = IF e[1] = c THEN e[2] ELSE cache[c]
    BY <1>1
  <1>3. ASSUME NEW k \in Versions(Tail(events), c)
        PROVE  /\ k = 0 \/ (k \in 1..Len(events) - 1 /\ events[k + 1][1] = c)
               /\ k \in Nat /\ k + 1 # 0
               /\ k # 0 => k + 1 \in 1..Len(events)
               /\ k # 0 => Tail(events)[k] = events[k + 1]
               /\ old(k) = IF k = 0 /\ e[1] # c THEN 0 ELSE k + 1
    BY <1>1, <1>3 DEF Versions, Before
  <1> HIDE DEF e, old
  <1>4. /\ old(i) \in Versions(events, c)
        /\ Version(new, Tail(events), c, i) = Version(cache, events, c, old(i))
    <2>1. CASE i = 0
      BY <1>1, <1>2, <1>3, <2>1 DEF Versions, Version, e
    <2>2. CASE i # 0
      BY <1>3, <2>2 DEF Versions, Version
    <2> QED
      BY <2>1, <2>2
  <1>5. ASSUME NEW j \in Versions(Tail(events), c), NEW k \in Versions(Tail(events), c),
               j < k
        PROVE  old(j) < old(k)
    BY <1>3, <1>5
  <1> QED
    BY <1>4, <1>5 DEF old

\* A write adds at most one version, after all others.
LEMMA VersionsWritten ==
  ASSUME NEW D, NEW O, NEW cache, NEW events \in Seq(D \X O),
         NEW c \in D, NEW d \in D, NEW o \in O, NEW new,
         new = events \/ new = Append(events, <<d, o>>),
         NEW i \in Versions(new, c)
  PROVE  \/ /\ i \in Versions(events, c)
            /\ Version(cache, new, c, i) = Version(cache, events, c, i)
         \/ /\ new # events /\ c = d
            /\ Version(cache, new, c, i) = o
            /\ \A j \in Versions(new, c) : ~(i < j)
  <1>1. CASE new = events
    BY <1>1
  <1>2. CASE new = Append(events, <<d, o>>)
    <2> DEFINE n == Len(events)
    <2>1. /\ n \in Nat /\ Len(new) = n + 1 /\ new # events
          /\ new[n + 1] = <<d, o>>
          /\ \A k \in 1..n : new[k] = events[k]
      BY <1>2
    <2> HIDE DEF n
    <2>2. CASE i = 0
      BY <2>2 DEF Versions, Version
    <2>3. CASE i \in 1..n
      BY <2>1, <2>3 DEF Versions, Version, n
    <2>4. CASE i = n + 1
      <3>1. c = d /\ Version(cache, new, c, i) = o
        BY <2>1, <2>4 DEF Versions, Version
      <3>2. ASSUME NEW j \in Versions(new, c) PROVE ~(i < j)
        BY <2>1, <2>4 DEF Versions
      <3> QED
        BY <2>1, <3>1, <3>2
    <2>5. i = 0 \/ i \in 1..(n + 1)
      BY <2>1 DEF Versions
    <2> QED
      BY <2>1, <2>2, <2>3, <2>4, <2>5
  <1> QED
    BY <1>1, <1>2

\* What the versions of a claim are.
LEMMA ClaimVersionTypes ==
  ASSUME TypeOK, NEW c \in Claims
  PROVE  /\ claims[c] \in ClaimOrNone
         /\ 0 \in ClaimVersions(c)
         /\ \A i \in ClaimVersions(c) : i \in Nat /\ ClaimAt(c, i) \in ClaimOrNone
         /\ \A v \in ClaimOrNone : v # None =>
              v.uid \in Nat /\ v.fin \in BOOLEAN /\ v.deleting \in BOOLEAN
  <1>1. /\ claims \in [Claims -> ClaimOrNone] /\ claimCache \in [Claims -> ClaimOrNone]
        /\ claimEvents \in Seq(Claims \X ClaimOrNone)
    BY DEF TypeOK, ApiTypeOK, CacheTypeOK, ClaimOrNone
  <1>2. ASSUME NEW i \in 1..Len(claimEvents)
        PROVE  i \in Nat /\ claimEvents[i][2] \in ClaimOrNone
    BY <1>1
  <1>3. \A v \in ClaimOrNone : v # None =>
          v.uid \in Nat /\ v.fin \in BOOLEAN /\ v.deleting \in BOOLEAN
    BY DEF ClaimOrNone, ClaimObjects
  <1> QED
    BY <1>1, <1>2, <1>3 DEF ClaimVersions, Versions, ClaimAt, Version

\* What the versions of an address are.
LEMMA AddressVersionTypes ==
  ASSUME TypeOK, NEW c \in Claims
  PROVE  /\ addrs[c] \in AddressOrNone
         /\ 0 \in AddressVersions(c)
         /\ \A i \in AddressVersions(c) : i \in Nat /\ AddressAt(c, i) \in AddressOrNone
         /\ \A v \in AddressOrNone : v # None => v.owner \in Nat /\ v.fin \in BOOLEAN
  <1>1. ASSUME NEW i \in 1..Len(addrEvents)
        PROVE  i \in Nat /\ addrEvents[i][2] \in AddressOrNone
    BY EventTypes
  <1>2. \A v \in AddressOrNone : v # None => v.owner \in Nat /\ v.fin \in BOOLEAN
    BY DEF AddressOrNone, AddressObjects
  <1> QED
    BY <1>1, <1>2, EventTypes DEF AddressVersions, Versions, AddressAt, Version

\* What a write of a claim does to the claims and their versions.
LEMMA ClaimWritten ==
  ASSUME TypeOK, NEW c \in Claims, NEW obj \in ClaimOrNone, SetClaim(c, obj),
         UNCHANGED claimCache
  PROVE  /\ \A d \in Claims : claims'[d] = IF d = c THEN obj ELSE claims[d]
         /\ \A d \in Claims : \A i \in Versions(claimEvents', d) :
              \/ /\ i \in ClaimVersions(d)
                 /\ Version(claimCache', claimEvents', d, i) = ClaimAt(d, i)
              \/ /\ d = c /\ obj # claims[c]
                 /\ Version(claimCache', claimEvents', d, i) = obj
                 /\ \A j \in Versions(claimEvents', d) : ~(i < j)
  <1>1. /\ claims \in [Claims -> ClaimOrNone]
        /\ claimEvents \in Seq(Claims \X ClaimOrNone)
    BY DEF TypeOK, ApiTypeOK, ClaimOrNone
  <1>2. claims' = [claims EXCEPT ![c] = obj]
    BY DEF SetClaim
  <1>3. /\ claimEvents' = claimEvents \/ claimEvents' = Append(claimEvents, <<c, obj>>)
        /\ claimEvents' # claimEvents => obj # claims[c]
    BY DEF SetClaim
  <1>4. ASSUME NEW d \in Claims, NEW i \in Versions(claimEvents', d)
        PROVE  \/ /\ i \in Versions(claimEvents, d)
                  /\ Version(claimCache, claimEvents', d, i)
                       = Version(claimCache, claimEvents, d, i)
               \/ /\ claimEvents' # claimEvents /\ d = c
                  /\ Version(claimCache, claimEvents', d, i) = obj
                  /\ \A j \in Versions(claimEvents', d) : ~(i < j)
    BY <1>1, <1>3, <1>4, VersionsWritten
  <1> QED
    BY <1>1, <1>2, <1>3, <1>4 DEF ClaimVersions, ClaimAt

-----------------------------------------------------------------------------
(* The claims and their versions.  A write of a claim updates, creates or     *)
(* removes it.                                                                *)

ClaimInv == FreshUIDs /\ VersionsFollow /\ FinishedFirst

\* An update keeps the incarnation, the finalizer and the request to delete, and
\* protects a claim only when no finished incarnation is left in the cache.
LEMMA ClaimUpdated ==
  ASSUME TypeOK, ClaimInv, NEW c \in Claims, claims[c] # None,
         NEW obj \in ClaimObjects, obj.uid = claims[c].uid, Follows(obj, claims[c]),
         obj.fin => claims[c].fin \/ NoneFinished(c),
         SetClaim(c, obj), UNCHANGED <<claimCache, addrCache, addrEvents, made>>
  PROVE  /\ ClaimInv'
         /\ \A d \in Claims : Leaving(d) => Leaving(d)'
         /\ \A d \in Claims : NoneFinished(d) => NoneFinished(d)'
  <1>1. obj \in ClaimOrNone /\ obj # None
    BY NoneAssumption DEF ClaimOrNone
  <1>2. /\ \A d \in Claims : claims'[d] = IF d = c THEN obj ELSE claims[d]
        /\ \A d \in Claims : \A i \in Versions(claimEvents', d) :
             \/ /\ i \in ClaimVersions(d)
                /\ Version(claimCache', claimEvents', d, i) = ClaimAt(d, i)
             \/ /\ d = c /\ obj # claims[c]
                /\ Version(claimCache', claimEvents', d, i) = obj
                /\ \A j \in Versions(claimEvents', d) : ~(i < j)
    BY <1>1, ClaimWritten
  <1>3. /\ \A v : /\ Current(obj, v) <=> Current(claims[c], v)
               /\ Finished(obj, v) <=> Finished(claims[c], v)
        /\ Current(obj, obj) /\ ~Finished(obj, obj)
    BY <1>1 DEF Current, Finished
  <1>4. FreshUIDs'
    <2>1. \A d \in Claims : claims'[d] # None => claims'[d].uid = made[d]
      BY <1>1, <1>2 DEF ClaimInv, FreshUIDs
    <2>2. ASSUME NEW d \in Claims, NEW i \in Versions(claimEvents', d),
                 Version(claimCache', claimEvents', d, i) # None
          PROVE  Version(claimCache', claimEvents', d, i).uid <= made[d]
      <3>1. made[c] \in Nat /\ made[c] <= made[c]
        BY DEF TypeOK, EnvTypeOK
      <3> QED
        BY <1>2, <2>2, <3>1 DEF ClaimInv, FreshUIDs
    <2> QED
      BY <2>1, <2>2 DEF ClaimInv, FreshUIDs, ClaimVersions, ClaimAt, AddressVersions, AddressAt
  <1>5. ASSUME NEW d \in Claims PROVE claims[d] = claims'[d] \/ (d = c /\ claims'[d] = obj)
    BY <1>2
  <1>6. ASSUME NEW d \in Claims, NEW v
        PROVE  /\ Current(claims'[d], v) <=> Current(claims[d], v)
               /\ Finished(claims'[d], v) <=> Finished(claims[d], v)
    <2>1. CASE claims'[d] = claims[d]
      BY <2>1
    <2>2. CASE d = c /\ claims'[d] = obj
      BY <1>1, <2>2 DEF Current, Finished
    <2> QED
      BY <1>5, <2>1, <2>2
  <1>7. VersionsFollow'
    <2> SUFFICES ASSUME NEW d \in Claims, NEW i \in Versions(claimEvents', d),
                        Current(claims'[d], Version(claimCache', claimEvents', d, i))
                 PROVE  /\ Follows(claims'[d], Version(claimCache', claimEvents', d, i))
                        /\ \A j \in Versions(claimEvents', d) : i < j =>
                             /\ Current(claims'[d], Version(claimCache', claimEvents', d, j))
                             /\ Follows(Version(claimCache', claimEvents', d, j),
                                        Version(claimCache', claimEvents', d, i))
      BY DEF VersionsFollow, ClaimVersions, ClaimAt
    <2>1. CASE /\ i \in ClaimVersions(d)
               /\ Version(claimCache', claimEvents', d, i) = ClaimAt(d, i)
      <3>1. /\ Follows(claims[d], ClaimAt(d, i))
            /\ \A j \in ClaimVersions(d) : i < j =>
                 Current(claims[d], ClaimAt(d, j)) /\ Follows(ClaimAt(d, j), ClaimAt(d, i))
        BY <1>6, <2>1 DEF ClaimInv, VersionsFollow
      <3>2. Follows(claims'[d], ClaimAt(d, i))
        BY <1>5, <3>1 DEF Follows
      <3>3. ASSUME NEW j \in Versions(claimEvents', d), i < j
            PROVE  /\ Current(claims'[d], Version(claimCache', claimEvents', d, j))
                   /\ Follows(Version(claimCache', claimEvents', d, j), ClaimAt(d, i))
        <4>1. CASE d = c /\ Version(claimCache', claimEvents', d, j) = obj
          BY <1>2, <1>3, <3>2, <4>1
        <4>2. CASE j \in ClaimVersions(d) /\ Version(claimCache', claimEvents', d, j) = ClaimAt(d, j)
          BY <1>6, <3>1, <3>3, <4>2
        <4> QED
          BY <1>2, <4>1, <4>2
      <3> QED
        BY <2>1, <3>2, <3>3
    <2>2. CASE /\ d = c /\ Version(claimCache', claimEvents', d, i) = obj
               /\ \A j \in Versions(claimEvents', d) : ~(i < j)
      BY <1>2, <2>2 DEF Follows
    <2> QED
      BY <1>2, <2>1, <2>2
  <1>8. FinishedFirst'
    <2> SUFFICES ASSUME NEW d \in Claims, NEW i \in Versions(claimEvents', d),
                        Finished(claims'[d], Version(claimCache', claimEvents', d, i))
                 PROVE  /\ Version(claimCache', claimEvents', d, i).deleting
                        /\ claims'[d] = None \/ ~claims'[d].fin
                        /\ \A j \in Versions(claimEvents', d) : j < i =>
                             Finished(claims'[d], Version(claimCache', claimEvents', d, j))
      BY DEF FinishedFirst, ClaimVersions, ClaimAt
    <2>1. /\ i \in ClaimVersions(d)
          /\ Version(claimCache', claimEvents', d, i) = ClaimAt(d, i)
      BY <1>2, <1>3
    <2>2. /\ ClaimAt(d, i).deleting
          /\ claims[d] = None \/ ~claims[d].fin
          /\ \A j \in ClaimVersions(d) : j < i => Finished(claims[d], ClaimAt(d, j))
      BY <1>6, <2>1 DEF ClaimInv, FinishedFirst
    <2>3. claims'[d] = None \/ ~claims'[d].fin
      BY <1>5, <1>6, <2>1, <2>2 DEF NoneFinished
    <2>4. ASSUME NEW j \in Versions(claimEvents', d), j < i
          PROVE  Finished(claims'[d], Version(claimCache', claimEvents', d, j))
      <3>1. j \in ClaimVersions(d) /\ Version(claimCache', claimEvents', d, j) = ClaimAt(d, j)
        BY <1>2, <2>4
      <3> QED
        BY <1>6, <2>2, <2>4, <3>1
    <2> QED
      BY <2>1, <2>2, <2>3, <2>4
  <1>9. ASSUME NEW d \in Claims, Leaving(d) PROVE Leaving(d)'
    <2>1. /\ claims[d] # None /\ claims[d].fin /\ claims[d].deleting
          /\ \A i \in ClaimVersions(d) :
               Current(claims[d], ClaimAt(d, i)) /\ ClaimAt(d, i).fin /\ ClaimAt(d, i).deleting
      BY <1>9 DEF Leaving
    <2>2. claims'[d] # None /\ claims'[d].fin /\ claims'[d].deleting
      BY <1>1, <1>5, <2>1 DEF Follows
    <2>3. ASSUME NEW i \in Versions(claimEvents', d)
          PROVE  LET v == Version(claimCache', claimEvents', d, i) IN
                 Current(claims'[d], v) /\ v.fin /\ v.deleting
      <3>1. CASE i \in ClaimVersions(d) /\ Version(claimCache', claimEvents', d, i) = ClaimAt(d, i)
        BY <1>6, <2>1, <3>1
      <3>2. CASE d = c /\ Version(claimCache', claimEvents', d, i) = obj
        BY <1>2, <1>3, <2>2, <3>2
      <3> QED
        BY <1>2, <3>1, <3>2
    <2> QED
      BY <2>2, <2>3 DEF Leaving, ClaimVersions, ClaimAt
  <1>10. ASSUME NEW d \in Claims, NoneFinished(d) PROVE NoneFinished(d)'
    <2>1. ASSUME NEW i \in Versions(claimEvents', d)
          PROVE  ~Finished(claims'[d], Version(claimCache', claimEvents', d, i))
      <3>1. CASE i \in ClaimVersions(d) /\ Version(claimCache', claimEvents', d, i) = ClaimAt(d, i)
        BY <1>6, <1>10, <3>1 DEF NoneFinished
      <3>2. CASE d = c /\ Version(claimCache', claimEvents', d, i) = obj
        BY <1>2, <1>3, <3>2
      <3> QED
        BY <1>2, <3>1, <3>2
    <2> QED
      BY <2>1 DEF NoneFinished, ClaimVersions, ClaimAt
  <1> QED
    BY <1>4, <1>7, <1>8, <1>9, <1>10 DEF ClaimInv

\* A new claim is of an incarnation that no version shows.
LEMMA ClaimCreated ==
  ASSUME TypeOK, ClaimInv, NEW c \in Claims, CreateClaim(c)
  PROVE  /\ ClaimInv'
         /\ \A d \in Claims : Leaving(d) => Leaving(d)'
         /\ \A d \in Claims : NoneFinished(d) => NoneFinished(d)'
  <1> DEFINE obj == Claim(made[c] + 1)
  <1>1. /\ made[c] \in Nat /\ made' = [made EXCEPT ![c] = made[c] + 1]
        /\ made \in [Claims -> Nat] /\ claims[c] = None
        /\ SetClaim(c, obj) /\ UNCHANGED <<claimCache, addrCache, addrEvents>>
    BY DEF TypeOK, EnvTypeOK, CreateClaim, cacheVars
  <1>2. /\ obj \in ClaimOrNone /\ obj # None
        /\ ~obj.fin /\ ~obj.deleting /\ obj.uid = made[c] + 1
    BY <1>1, ClaimTypes, NoneAssumption DEF ClaimOrNone, Claim
  <1> HIDE DEF obj
  <1>3. /\ \A d \in Claims : claims'[d] = IF d = c THEN obj ELSE claims[d]
        /\ \A d \in Claims : \A i \in Versions(claimEvents', d) :
             \/ /\ i \in ClaimVersions(d)
                /\ Version(claimCache', claimEvents', d, i) = ClaimAt(d, i)
             \/ /\ d = c /\ obj # claims[c]
                /\ Version(claimCache', claimEvents', d, i) = obj
                /\ \A j \in Versions(claimEvents', d) : ~(i < j)
    BY <1>1, <1>2, ClaimWritten
  <1>4. \A d \in Claims : made'[d] = IF d = c THEN made[c] + 1 ELSE made[d]
    BY <1>1
  <1>5. ASSUME NEW i \in ClaimVersions(c)
        PROVE  /\ ~Current(claims[c], ClaimAt(c, i)) /\ ~Current(obj, ClaimAt(c, i))
               /\ Finished(obj, ClaimAt(c, i)) <=> Finished(claims[c], ClaimAt(c, i))
    <2>1. ClaimAt(c, i) # None => ClaimAt(c, i).uid <= made[c] /\ ClaimAt(c, i).uid \in Nat
      BY ClaimVersionTypes DEF ClaimInv, FreshUIDs
    <2>2. ClaimAt(c, i) # None => ClaimAt(c, i).uid # obj.uid
      BY <1>1, <1>2, <2>1
    <2> QED
      BY <1>1, <2>2 DEF Current, Finished
  <1>6. FreshUIDs'
    <2>1. \A d \in Claims : claims'[d] # None => claims'[d].uid = made'[d]
      BY <1>2, <1>3, <1>4 DEF ClaimInv, FreshUIDs
    <2>2. ASSUME NEW d \in Claims
          PROVE  made[d] \in Nat /\ made'[d] \in Nat /\ made[d] <= made'[d]
      BY <1>1, <1>4
    <2>3. ASSUME NEW d \in Claims, NEW i \in Versions(claimEvents', d),
                 Version(claimCache', claimEvents', d, i) # None
          PROVE  Version(claimCache', claimEvents', d, i).uid <= made'[d]
      <3>1. CASE i \in ClaimVersions(d) /\ Version(claimCache', claimEvents', d, i) = ClaimAt(d, i)
        <4>1. ClaimAt(d, i).uid \in Nat /\ ClaimAt(d, i).uid <= made[d]
          BY <2>3, <3>1, ClaimVersionTypes DEF ClaimInv, FreshUIDs
        <4> QED
          BY <2>2, <3>1, <4>1
      <3>2. CASE d = c /\ Version(claimCache', claimEvents', d, i) = obj
        BY <1>1, <1>2, <1>4, <3>2
      <3> QED
        BY <1>3, <3>1, <3>2
    <2>4. ASSUME NEW d \in Claims, NEW i \in AddressVersions(d), AddressAt(d, i) # None
          PROVE  AddressAt(d, i).owner <= made'[d]
      <3>1. AddressAt(d, i).owner \in Nat
        BY <2>4, AddressVersionTypes
      <3>2. AddressAt(d, i).owner <= made[d]
        BY <2>4 DEF ClaimInv, FreshUIDs
      <3> QED
        BY <2>2, <3>1, <3>2
    <2> QED
      BY <1>1, <2>1, <2>3, <2>4 DEF FreshUIDs, ClaimVersions, ClaimAt, AddressVersions, AddressAt
  <1>7. VersionsFollow'
    <2> SUFFICES ASSUME NEW d \in Claims, NEW i \in Versions(claimEvents', d),
                        Current(claims'[d], Version(claimCache', claimEvents', d, i))
                 PROVE  /\ Follows(claims'[d], Version(claimCache', claimEvents', d, i))
                        /\ \A j \in Versions(claimEvents', d) : i < j =>
                             /\ Current(claims'[d], Version(claimCache', claimEvents', d, j))
                             /\ Follows(Version(claimCache', claimEvents', d, j),
                                        Version(claimCache', claimEvents', d, i))
      BY DEF VersionsFollow, ClaimVersions, ClaimAt
    <2>1. CASE d # c
      BY <1>3, <2>1 DEF ClaimInv, VersionsFollow
    <2>2. CASE d = c
      <3>1. /\ Version(claimCache', claimEvents', d, i) = obj
            /\ \A j \in Versions(claimEvents', d) : ~(i < j)
        BY <1>3, <1>5, <2>2
      <3> QED
        BY <1>3, <2>2, <3>1 DEF Follows
    <2> QED
      BY <2>1, <2>2
  <1>8. FinishedFirst'
    <2> SUFFICES ASSUME NEW d \in Claims, NEW i \in Versions(claimEvents', d),
                        Finished(claims'[d], Version(claimCache', claimEvents', d, i))
                 PROVE  /\ Version(claimCache', claimEvents', d, i).deleting
                        /\ claims'[d] = None \/ ~claims'[d].fin
                        /\ \A j \in Versions(claimEvents', d) : j < i =>
                             Finished(claims'[d], Version(claimCache', claimEvents', d, j))
      BY DEF FinishedFirst, ClaimVersions, ClaimAt
    <2>1. CASE d # c
      BY <1>3, <2>1 DEF ClaimInv, FinishedFirst
    <2>2. CASE d = c
      <3>1. /\ i \in ClaimVersions(d)
            /\ Version(claimCache', claimEvents', d, i) = ClaimAt(d, i)
        BY <1>2, <1>3, <2>2 DEF Finished
      <3>2. Finished(claims[d], ClaimAt(d, i)) /\ claims'[d] = obj
        BY <1>3, <1>5, <2>2, <3>1
      <3>3. /\ ClaimAt(d, i).deleting
            /\ \A j \in ClaimVersions(d) : j < i => Finished(claims[d], ClaimAt(d, j))
        BY <3>1, <3>2 DEF ClaimInv, FinishedFirst
      <3>4. ASSUME NEW j \in Versions(claimEvents', d), j < i
            PROVE  Finished(obj, Version(claimCache', claimEvents', d, j))
        <4>1. j \in ClaimVersions(d) /\ Version(claimCache', claimEvents', d, j) = ClaimAt(d, j)
          BY <1>3, <3>4
        <4> QED
          BY <1>5, <2>2, <3>3, <3>4, <4>1
      <3> QED
        BY <1>2, <3>1, <3>2, <3>3, <3>4
    <2> QED
      BY <2>1, <2>2
  <1>9. ASSUME NEW d \in Claims, Leaving(d) PROVE Leaving(d)'
    <2>1. d # c
      BY <1>1, <1>9 DEF Leaving
    <2>2. /\ claims[d] # None /\ claims[d].fin /\ claims[d].deleting
          /\ \A i \in ClaimVersions(d) :
               Current(claims[d], ClaimAt(d, i)) /\ ClaimAt(d, i).fin /\ ClaimAt(d, i).deleting
      BY <1>9 DEF Leaving
    <2>3. /\ claims'[d] = claims[d]
          /\ \A i \in Versions(claimEvents', d) :
               /\ i \in ClaimVersions(d)
               /\ Version(claimCache', claimEvents', d, i) = ClaimAt(d, i)
      BY <1>3, <2>1
    <2> QED
      BY <2>2, <2>3 DEF Leaving, ClaimVersions, ClaimAt
  <1>10. ASSUME NEW d \in Claims, NoneFinished(d) PROVE NoneFinished(d)'
    <2>1. ASSUME NEW i \in Versions(claimEvents', d)
          PROVE  ~Finished(claims'[d], Version(claimCache', claimEvents', d, i))
      <3>1. CASE i \in ClaimVersions(d) /\ Version(claimCache', claimEvents', d, i) = ClaimAt(d, i)
        <4>1. ~Finished(claims[d], ClaimAt(d, i))
          BY <1>10, <3>1 DEF NoneFinished
        <4> QED
          BY <1>3, <1>5, <3>1, <4>1
      <3>2. CASE d = c /\ Version(claimCache', claimEvents', d, i) = obj
        BY <1>2, <3>2 DEF Finished
      <3> QED
        BY <1>3, <3>1, <3>2
    <2> QED
      BY <2>1 DEF NoneFinished, ClaimVersions, ClaimAt
  <1> QED
    BY <1>6, <1>7, <1>8, <1>9, <1>10 DEF ClaimInv

\* A claim goes when it never had its finalizer, or when it leaves.
LEMMA ClaimRemoved ==
  ASSUME TypeOK, ClaimInv, NEW c \in Claims, claims[c] # None,
         ~claims[c].fin \/ Leaving(c),
         SetClaim(c, None), UNCHANGED <<claimCache, addrCache, addrEvents, made>>
  PROVE  /\ ClaimInv'
         /\ \A d \in Claims : d # c /\ Leaving(d) => Leaving(d)'
         /\ \A d \in Claims : (d = c => ~claims[c].fin) /\ NoneFinished(d) => NoneFinished(d)'
  <1>1. None \in ClaimOrNone
    BY DEF ClaimOrNone
  <1>2. /\ \A d \in Claims : claims'[d] = IF d = c THEN None ELSE claims[d]
        /\ \A d \in Claims : \A i \in Versions(claimEvents', d) :
             \/ /\ i \in ClaimVersions(d)
                /\ Version(claimCache', claimEvents', d, i) = ClaimAt(d, i)
             \/ /\ d = c /\ None # claims[c]
                /\ Version(claimCache', claimEvents', d, i) = None
                /\ \A j \in Versions(claimEvents', d) : ~(i < j)
    BY <1>1, ClaimWritten
  <1>3. ASSUME NEW i \in ClaimVersions(c), Finished(None, ClaimAt(c, i))
        PROVE  /\ ClaimAt(c, i).deleting
               /\ \A j \in ClaimVersions(c) : j < i => Finished(None, ClaimAt(c, j))
    <2>1. \A v : Finished(claims[c], v) => Finished(None, v)
      BY DEF Finished, Current
    <2>2. CASE Leaving(c)
      <3>1. \A j \in ClaimVersions(c) :
              Current(claims[c], ClaimAt(c, j)) /\ ClaimAt(c, j).fin /\ ClaimAt(c, j).deleting
        BY <2>2 DEF Leaving
      <3> QED
        BY <3>1 DEF Finished, Current
    <2>3. CASE ~claims[c].fin
      <3>1. ~Current(claims[c], ClaimAt(c, i))
        BY <1>3, <2>3 DEF ClaimInv, VersionsFollow, Follows, Finished
      <3>2. Finished(claims[c], ClaimAt(c, i))
        BY <1>3, <3>1 DEF Finished
      <3> QED
        BY <2>1, <3>2 DEF ClaimInv, FinishedFirst
    <2> QED
      BY <2>2, <2>3
  <1>4. FreshUIDs'
    <2>1. \A d \in Claims : claims'[d] # None => claims'[d].uid = made[d]
      BY <1>2 DEF ClaimInv, FreshUIDs
    <2>2. ASSUME NEW d \in Claims, NEW i \in Versions(claimEvents', d),
                 Version(claimCache', claimEvents', d, i) # None
          PROVE  Version(claimCache', claimEvents', d, i).uid <= made[d]
      BY <1>2, <2>2 DEF ClaimInv, FreshUIDs
    <2> QED
      BY <2>1, <2>2 DEF ClaimInv, FreshUIDs, ClaimVersions, ClaimAt, AddressVersions, AddressAt
  <1>5. VersionsFollow'
    <2> SUFFICES ASSUME NEW d \in Claims, NEW i \in Versions(claimEvents', d),
                        Current(claims'[d], Version(claimCache', claimEvents', d, i))
                 PROVE  /\ Follows(claims'[d], Version(claimCache', claimEvents', d, i))
                        /\ \A j \in Versions(claimEvents', d) : i < j =>
                             /\ Current(claims'[d], Version(claimCache', claimEvents', d, j))
                             /\ Follows(Version(claimCache', claimEvents', d, j),
                                        Version(claimCache', claimEvents', d, i))
      BY DEF VersionsFollow, ClaimVersions, ClaimAt
    <2>1. d # c
      BY <1>2 DEF Current
    <2> QED
      BY <1>2, <2>1 DEF ClaimInv, VersionsFollow
  <1>6. FinishedFirst'
    <2> SUFFICES ASSUME NEW d \in Claims, NEW i \in Versions(claimEvents', d),
                        Finished(claims'[d], Version(claimCache', claimEvents', d, i))
                 PROVE  /\ Version(claimCache', claimEvents', d, i).deleting
                        /\ claims'[d] = None \/ ~claims'[d].fin
                        /\ \A j \in Versions(claimEvents', d) : j < i =>
                             Finished(claims'[d], Version(claimCache', claimEvents', d, j))
      BY DEF FinishedFirst, ClaimVersions, ClaimAt
    <2>1. CASE d # c
      BY <1>2, <2>1 DEF ClaimInv, FinishedFirst
    <2>2. CASE d = c
      <3>1. /\ i \in ClaimVersions(c) /\ claims'[d] = None
            /\ Version(claimCache', claimEvents', d, i) = ClaimAt(c, i)
        BY <1>2, <2>2 DEF Finished
      <3>2. ASSUME NEW j \in Versions(claimEvents', d), j < i
            PROVE  Finished(None, Version(claimCache', claimEvents', d, j))
        <4>1. j \in ClaimVersions(c) /\ Version(claimCache', claimEvents', d, j) = ClaimAt(c, j)
          BY <1>2, <2>2, <3>2
        <4> QED
          BY <1>3, <3>1, <3>2, <4>1
      <3> QED
        BY <1>3, <3>1, <3>2
    <2> QED
      BY <2>1, <2>2
  <1>7. ASSUME NEW d \in Claims, d # c, Leaving(d) PROVE Leaving(d)'
    <2>1. /\ claims[d] # None /\ claims[d].fin /\ claims[d].deleting
          /\ \A i \in ClaimVersions(d) :
               Current(claims[d], ClaimAt(d, i)) /\ ClaimAt(d, i).fin /\ ClaimAt(d, i).deleting
      BY <1>7 DEF Leaving
    <2>2. /\ claims'[d] = claims[d]
          /\ \A i \in Versions(claimEvents', d) :
               /\ i \in ClaimVersions(d)
               /\ Version(claimCache', claimEvents', d, i) = ClaimAt(d, i)
      BY <1>2, <1>7
    <2> QED
      BY <2>1, <2>2 DEF Leaving, ClaimVersions, ClaimAt
  <1>8. ASSUME NEW d \in Claims, d = c => ~claims[c].fin, NoneFinished(d)
        PROVE  NoneFinished(d)'
    <2>1. ASSUME NEW i \in Versions(claimEvents', d)
          PROVE  ~Finished(claims'[d], Version(claimCache', claimEvents', d, i))
      <3>1. CASE d # c
        BY <1>2, <1>8, <3>1 DEF NoneFinished
      <3>2. CASE d = c
        <4>1. CASE i \in ClaimVersions(c) /\ Version(claimCache', claimEvents', d, i) = ClaimAt(c, i)
          <5>1. ~Finished(claims[c], ClaimAt(c, i))
            BY <1>8, <3>2, <4>1 DEF NoneFinished
          <5>2. ~ClaimAt(c, i).fin \/ ClaimAt(c, i) = None
            BY <1>8, <3>2, <4>1, <5>1 DEF Finished, ClaimInv, VersionsFollow, Follows
          <5> QED
            BY <4>1, <5>2 DEF Finished
        <4>2. CASE Version(claimCache', claimEvents', d, i) = None
          BY <4>2 DEF Finished
        <4> QED
          BY <1>2, <3>2, <4>1, <4>2
      <3> QED
        BY <3>1, <3>2
    <2> QED
      BY <2>1 DEF NoneFinished, ClaimVersions, ClaimAt
  <1> QED
    BY <1>4, <1>5, <1>6, <1>7, <1>8 DEF ClaimInv

\* The delivery of a claim's event only drops the version that the cache showed.
LEMMA ClaimDelivered ==
  ASSUME TypeOK, ClaimInv, DeliverClaimEvent
  PROVE  /\ ClaimInv'
         /\ \A d \in Claims : Leaving(d) => Leaving(d)'
         /\ \A d \in Claims : NoneFinished(d) => NoneFinished(d)'
  <1> DEFINE old(d, i) == Before(claimEvents, d, i)
  <1>1. /\ UNCHANGED <<claims, addrs, addrCache, addrEvents, made>>
        /\ claimEvents # << >> /\ claimEvents' = Tail(claimEvents)
        /\ claimCache \in [Claims -> ClaimOrNone]
        /\ claimEvents \in Seq(Claims \X ClaimOrNone)
        /\ \A d \in Claims : claimCache'[d] =
             IF Head(claimEvents)[1] = d THEN Head(claimEvents)[2] ELSE claimCache[d]
    BY DEF DeliverClaimEvent, envVars, unifiVars, TypeOK, ApiTypeOK, CacheTypeOK, ClaimOrNone
  <1>2. ASSUME NEW d \in Claims
        PROVE  \A i \in Versions(claimEvents', d) :
                 /\ old(d, i) \in ClaimVersions(d)
                 /\ Version(claimCache', claimEvents', d, i) = ClaimAt(d, old(d, i))
                 /\ \A j \in Versions(claimEvents', d) :
                      /\ i < j => old(d, i) < old(d, j)
                      /\ j < i => old(d, j) < old(d, i)
    BY <1>1, VersionsDelivered DEF ClaimVersions, ClaimAt
  <1> HIDE DEF old
  <1>3. FreshUIDs'
    <2>1. ASSUME NEW d \in Claims, NEW i \in Versions(claimEvents', d),
                 Version(claimCache', claimEvents', d, i) # None
          PROVE  Version(claimCache', claimEvents', d, i).uid <= made[d]
      BY <1>2, <2>1 DEF ClaimInv, FreshUIDs
    <2> QED
      BY <1>1, <2>1 DEF ClaimInv, FreshUIDs, ClaimVersions, ClaimAt, AddressVersions, AddressAt
  <1>4. VersionsFollow'
    <2> SUFFICES ASSUME NEW d \in Claims, NEW i \in Versions(claimEvents', d),
                        Current(claims[d], Version(claimCache', claimEvents', d, i))
                 PROVE  /\ Follows(claims[d], Version(claimCache', claimEvents', d, i))
                        /\ \A j \in Versions(claimEvents', d) : i < j =>
                             /\ Current(claims[d], Version(claimCache', claimEvents', d, j))
                             /\ Follows(Version(claimCache', claimEvents', d, j),
                                        Version(claimCache', claimEvents', d, i))
      BY <1>1 DEF VersionsFollow, ClaimVersions, ClaimAt
    <2> QED
      BY <1>2 DEF ClaimInv, VersionsFollow
  <1>5. FinishedFirst'
    <2> SUFFICES ASSUME NEW d \in Claims, NEW i \in Versions(claimEvents', d),
                        Finished(claims[d], Version(claimCache', claimEvents', d, i))
                 PROVE  /\ Version(claimCache', claimEvents', d, i).deleting
                        /\ claims[d] = None \/ ~claims[d].fin
                        /\ \A j \in Versions(claimEvents', d) : j < i =>
                             Finished(claims[d], Version(claimCache', claimEvents', d, j))
      BY <1>1 DEF FinishedFirst, ClaimVersions, ClaimAt
    <2> QED
      BY <1>2 DEF ClaimInv, FinishedFirst
  <1>6. ASSUME NEW d \in Claims, Leaving(d) PROVE Leaving(d)'
    <2>1. /\ claims[d] # None /\ claims[d].fin /\ claims[d].deleting
          /\ \A i \in ClaimVersions(d) :
               Current(claims[d], ClaimAt(d, i)) /\ ClaimAt(d, i).fin /\ ClaimAt(d, i).deleting
      BY <1>6 DEF Leaving
    <2>2. ASSUME NEW i \in Versions(claimEvents', d)
          PROVE  LET v == Version(claimCache', claimEvents', d, i) IN
                 Current(claims[d], v) /\ v.fin /\ v.deleting
      BY <1>2, <2>1
    <2> QED
      BY <1>1, <2>1, <2>2 DEF Leaving, ClaimVersions, ClaimAt
  <1>7. ASSUME NEW d \in Claims, NoneFinished(d) PROVE NoneFinished(d)'
    <2>1. ASSUME NEW i \in Versions(claimEvents', d)
          PROVE  ~Finished(claims'[d], Version(claimCache', claimEvents', d, i))
      BY <1>1, <1>2, <1>7 DEF NoneFinished
    <2> QED
      BY <2>1 DEF NoneFinished, ClaimVersions, ClaimAt
  <1> QED
    BY <1>3, <1>4, <1>5, <1>6, <1>7 DEF ClaimInv

\* After a restart the caches show the present and nothing else.
LEMMA AfterCrash ==
  ASSUME TypeOK, ClaimInv, AddressesOwned, Crash
  PROVE  /\ ClaimInv'
         /\ \A d \in Claims : Leaving(d) => Leaving(d)'
  <1>1. /\ UNCHANGED <<claims, addrs, made>>
        /\ claimCache' = claims /\ claimEvents' = << >>
        /\ addrCache' = addrs /\ addrEvents' = << >>
    BY DEF Crash, envVars, unifiVars
  <1>2. ASSUME NEW d \in Claims
        PROVE  /\ Versions(claimEvents', d) = {0} /\ Versions(addrEvents', d) = {0}
               /\ Version(claimCache', claimEvents', d, 0) = claims[d]
               /\ Version(addrCache', addrEvents', d, 0) = addrs[d]
    BY <1>1 DEF Versions, Version
  <1>3. FreshUIDs'
    <2>1. ASSUME NEW d \in Claims
          PROVE  /\ claims[d] # None => claims[d].uid = made[d] /\ claims[d].uid <= made[d]
                 /\ addrs[d] # None => addrs[d].owner <= made[d]
      <3>1. made[d] \in Nat
        BY DEF TypeOK, EnvTypeOK
      <3> QED
        BY <3>1 DEF ClaimInv, FreshUIDs, AddressesOwned, AddressOwned
    <2> QED
      BY <1>1, <1>2, <2>1 DEF FreshUIDs, ClaimVersions, ClaimAt, AddressVersions, AddressAt
  <1>4. VersionsFollow'
    BY <1>1, <1>2 DEF VersionsFollow, ClaimVersions, ClaimAt, Follows
  <1>5. FinishedFirst'
    BY <1>1, <1>2 DEF FinishedFirst, ClaimVersions, ClaimAt, Finished, Current
  <1>6. ASSUME NEW d \in Claims, Leaving(d) PROVE Leaving(d)'
    <2>1. claims[d] # None /\ claims[d].fin /\ claims[d].deleting
      BY <1>6 DEF Leaving
    <2> QED
      BY <1>1, <1>2, <2>1 DEF Leaving, ClaimVersions, ClaimAt, Current
  <1> QED
    BY <1>3, <1>4, <1>5, <1>6 DEF ClaimInv

-----------------------------------------------------------------------------
(* Steps that write neither claims nor addresses.                             *)

\* LInv is IInv, known from ClaimInvariantProofs, OneOwner and this.
LRest == ClaimInv /\ ReconcileKnows /\ AddressesOwned /\ BoundClaimIsServed

\* A reconcile is running when the worker is busy.
LEMMA Busy ==
  ASSUME TypeOK
  PROVE  /\ pc # "idle" <=> job # None
         /\ pc # "idle" => job.name \in Claims
         /\ job # None => job.claim \in ClaimObjects /\ job.found \in AddressOrNone
  <1>1. job \in Jobs => job # None
    BY NoneAssumption
  <1>2. job \in Jobs => /\ job.name \in Claims /\ job.claim \in ClaimObjects
                        /\ job.found \in AddressOrNone
    BY DEF Jobs, AddressOrNone
  <1> QED
    BY <1>1, <1>2 DEF TypeOK, WorkerTypeOK

\* When claims, addresses and caches stay, it is the reconcile that matters; an
\* address that its cache does not show must still be waited for.
LEMMA StoreUnchanged ==
  ASSUME LInv, ReconcileKnows',
         UNCHANGED <<claims, claimCache, claimEvents, addrs, addrCache, addrEvents, made>>,
         \/ UNCHANGED <<pc, job>>
         \/ pc # "waitForAddress"
         \/ addrCache[job.name] # None
  PROVE  LRest'
  <1>1. ClaimInv'
    BY DEF LInv, ClaimInv, FreshUIDs, VersionsFollow, FinishedFirst, ClaimVersions,
           ClaimAt, AddressVersions, AddressAt
  <1>2. ASSUME NEW c \in Claims PROVE Leaving(c) => Leaving(c)'
    BY DEF Leaving, ClaimVersions, ClaimAt
  <1>3. AddressesOwned'
    <2> SUFFICES ASSUME NEW c \in Claims
                 PROVE  AddressOwned(c)' /\ VersionsOwned(c)'
      BY DEF AddressesOwned
    <2>1. AddressOwned(c)'
      BY <1>2 DEF LInv, AddressesOwned, AddressOwned
    <2>2. VersionsOwned(c)'
      BY <1>2 DEF LInv, AddressesOwned, VersionsOwned, AddressVersions, AddressAt
    <2> QED
      BY <2>1, <2>2
  <1>4. BoundClaimIsServed'
    BY DEF LInv, BoundClaimIsServed
  <1> QED
    BY <1>1, <1>3, <1>4 DEF LRest

\* A reconcile that ends relies on nothing any more, and neither does one that
\* the step does not concern.
LEMMA NobodyKnows ==
  ASSUME job' = None
  PROVE  ReconcileKnows'
  BY DEF ReconcileKnows

\* What a reconcile found in the caches when it chose its route.
LEMMA ReconcileLease ==
  ASSUME LInv, NEW c \in Claims, Reconcile(c)
  PROVE  LRest'
  <1> USE DEF Reconcile, apiVars, cacheVars, envVars, unifiVars
  <1>1. /\ UNCHANGED <<claims, claimCache, claimEvents, addrs, addrCache, addrEvents, made>>
        /\ pc = "idle"
    OBVIOUS
  <1>2. TypeOK /\ IInv
    BY DEF LInv, IInv
  <1> SUFFICES ReconcileKnows'
    BY <1>1, StoreUnchanged
  <1>3. CASE Route(c) = "error"
    BY <1>1, <1>2, <1>3, Busy DEF ReconcileKnows
  <1>4. CASE Route(c) = "done"
    BY <1>4, NobodyKnows DEF Finish
  <1>5. CASE Route(c) \notin {"error", "done"}
    <2> DEFINE v == claimCache[c]
               a == addrCache[c]
    <2>1. pc' = Route(c) /\ job'.name = c /\ job'.claim = v /\ job'.found = a
      BY <1>5 DEF Job
    <2>2. /\ 0 \in ClaimVersions(c) /\ ClaimAt(c, 0) = v
          /\ 0 \in AddressVersions(c) /\ AddressAt(c, 0) = a
          /\ \A i \in ClaimVersions(c) : i = 0 \/ 0 < i
      BY <1>2, ClaimVersionTypes DEF ClaimVersions, AddressVersions, Versions, ClaimAt, AddressAt, Version
    <2>3. v # None
      BY <1>5 DEF Route, Ignored
    <2>4. CASE pc' = "addFinalizer"
      <3>1. ~v.fin
        BY <2>1, <2>4 DEF Route, NormalRoute, DeleteRoute
      <3>2. NoneFinished(c)
        BY <2>2, <3>1 DEF LInv, FinishedFirst, Finished, NoneFinished
      <3> QED
        BY <1>1, <2>1, <2>4, <3>2 DEF ReconcileKnows, AddsToNew, DeletesLeaving, ServesCurrent,
           AddressThereOrGone, Deletion, Normal, NoneFinished, ClaimVersions, ClaimAt
    <2>5. CASE pc' \in Deletion
      <3>1. v.fin /\ v.deleting /\ pc' = DeleteRoute(a)
        BY <2>1, <2>5 DEF Route, NormalRoute, DeleteRoute, Deletion
      <3>2. claims[c] = None \/ ~claims[c].fin \/ Leaving(c)
        <4>1. CASE Current(claims[c], v)
          <5>1. /\ Follows(claims[c], v)
                /\ \A i \in ClaimVersions(c) : 0 < i =>
                     Current(claims[c], ClaimAt(c, i)) /\ Follows(ClaimAt(c, i), v)
            BY <2>2, <4>1 DEF LInv, VersionsFollow
          <5> QED
            BY <2>2, <3>1, <4>1, <5>1 DEF Leaving, Follows, Current
        <4>2. CASE ~Current(claims[c], v)
          BY <2>2, <2>3, <3>1, <4>2 DEF LInv, FinishedFirst, Finished
        <4> QED
          BY <4>1, <4>2
      <3>3. a = None => addrs[c] = None
        BY <1>1 DEF LInv, AddressesOwned, AddressOwned
      <3>4. a # None => pc' \in {"unprotectAddress", "deleteAddress"}
        BY <3>1 DEF DeleteRoute
      <3>5. pc' = "deleteAddress" => addrs[c] = None \/ ~addrs[c].fin
        <4>1. pc' = "deleteAddress" => a # None /\ ~a.fin
          BY <3>1 DEF DeleteRoute
        <4> QED
          BY <2>2, <4>1 DEF LInv, AddressesOwned, VersionsOwned
      <3>6. DeletesLeaving(c)'
        BY <1>1, <3>2 DEF DeletesLeaving, Leaving, ClaimVersions, ClaimAt
      <3> QED
        BY <1>1, <2>1, <2>5, <3>3, <3>4, <3>5, <3>6 DEF ReconcileKnows, AddsToNew,
           ServesCurrent, AddressThereOrGone, Deletion, Normal
    <2>6. CASE pc' = "ensureAddress"
      <3>1. v.fin /\ ~v.deleting
        BY <2>1, <2>6 DEF Route, NormalRoute, DeleteRoute
      <3>2. Current(claims[c], v) /\ claims[c].fin
        BY <2>2, <2>3, <3>1 DEF LInv, FinishedFirst, VersionsFollow, Finished, Follows
      <3>3. ~Leaving(c)
        BY <2>2, <3>1 DEF Leaving
      <3>4. addrs[c] # None => addrs[c].fin
        BY <3>3 DEF LInv, AddressesOwned, AddressOwned
      <3>5. a # None /\ a.owner = v.uid => addrs[c] # None
        BY <2>2, <3>2, <3>3 DEF LInv, AddressesOwned, VersionsOwned, Current
      <3>6. ServesCurrent(c)'
        BY <1>1, <2>1, <3>2, <3>4, <3>5 DEF ServesCurrent
      <3> QED
        BY <2>1, <2>6, <3>6 DEF ReconcileKnows, AddsToNew, DeletesLeaving, AddressThereOrGone,
           Deletion
    <2> QED
      BY <1>5, <2>1, <2>4, <2>5, <2>6 DEF Route, NormalRoute, DeleteRoute, Deletion
  <1> QED
    BY <1>3, <1>4, <1>5

\* EnsureAddress requeues the claim or carries an IP on.
LEMMA EnsureCases ==
  ASSUME TypeOK, EnsureAddress
  PROVE  \/ Requeue
         \/ \E ip \in IPs \cup {NoIP} : Carry("createUser", ip) \/ Carry("writeAddress", ip)
  <1>1. job \in Jobs /\ job.name \in Claims
    BY DEF TypeOK, WorkerTypeOK, EnsureAddress, Jobs
  <1>2. NoIP \in IPs \cup {NoIP}
    OBVIOUS
  <1>3. job.found # None => job.found.ip \in IPs \cup {NoIP}
    BY <1>1 DEF Jobs, AddressObjects
  <1>4. users[MacOf[job.name]].ip \in IPs \cup {NoIP}
    BY <1>1, DataAssumption DEF TypeOK, EnvTypeOK, UserObjects
  <1>5. \A inUse : AllocateNextIP(inUse) \subseteq IPs
    BY DataAssumption DEF AllocateNextIP, Lowest
  <1> QED
    BY <1>2, <1>3, <1>4, <1>5 DEF EnsureAddress, GetOrAllocateIP, AllocateIP

\* EnsureAddress and CreateUser change the job's IP and the UniFi users, and the
\* wait ends when the cache shows the address.
LEMMA ServeLease ==
  ASSUME Reliable, LInv, EnsureAddress \/ CreateUser \/ WaitForAddressInCache
  PROVE  LRest'
  <1> USE DEF apiVars, cacheVars, envVars, unifiVars
  <1>1. /\ UNCHANGED <<claims, claimCache, claimEvents, addrs, addrCache, addrEvents, made>>
        /\ pc \in Normal
    BY DEF EnsureAddress, CreateUser, WaitForAddressInCache, Normal
  <1>2. TypeOK /\ job # None /\ pc # "idle"
    BY <1>1, Busy DEF LInv, IInv, Normal
  <1>3. CASE Requeue
    <2>1. job' = None
      BY <1>3 DEF Requeue, Finish
    <2>2. pc # "waitForAddress"
      BY <1>3 DEF EnsureAddress, CreateUser, WaitForAddressInCache, Fault, Reliable,
                  Requeue, Finish, GoTo
    <2> QED
      BY <1>1, <2>1, <2>2, NobodyKnows, StoreUnchanged
  <1>4. CASE \E ip \in IPs \cup {NoIP} : Carry("createUser", ip) \/ Carry("writeAddress", ip)
    <2>1. /\ pc' \in {"createUser", "writeAddress"} /\ pc # "waitForAddress"
          /\ job'.name = job.name /\ job'.claim = job.claim /\ job'.found = job.found
      <3>1. job \in Jobs
        BY <1>2 DEF TypeOK, WorkerTypeOK
      <3>2. \A ip : /\ [job EXCEPT !.ip = ip].name = job.name
                    /\ [job EXCEPT !.ip = ip].claim = job.claim
                    /\ [job EXCEPT !.ip = ip].found = job.found
        BY <3>1 DEF Jobs
      <3>3. pc # "waitForAddress"
        BY <1>4 DEF EnsureAddress, CreateUser, WaitForAddressInCache, Carry, GoTo, Requeue,
                    Finish
      <3> QED
        BY <1>4, <3>2, <3>3 DEF Carry
    <2>2. ReconcileKnows'
      BY <1>1, <1>2, <2>1 DEF LInv, ReconcileKnows, AddsToNew, DeletesLeaving, ServesCurrent,
         AddressThereOrGone, Normal, Deletion
    <2> QED
      BY <1>1, <2>1, <2>2, StoreUnchanged
  <1>5. CASE pc = "createUser" /\ GoTo("writeAddress")
    <2>1. ReconcileKnows'
      BY <1>1, <1>2, <1>5 DEF LInv, ReconcileKnows, AddsToNew, DeletesLeaving, ServesCurrent,
         AddressThereOrGone, Normal, Deletion, GoTo
    <2> QED
      BY <1>1, <1>5, <2>1, StoreUnchanged
  <1>6. CASE pc = "waitForAddress" /\ addrCache[job.name] # None /\ GoTo("setAddressRef")
    <2>1. ReconcileKnows'
      BY <1>1, <1>2, <1>6 DEF LInv, ReconcileKnows, AddsToNew, DeletesLeaving, ServesCurrent,
         AddressThereOrGone, Normal, Deletion, GoTo
    <2> QED
      BY <1>1, <1>6, <2>1, StoreUnchanged
  <1>7. CASE EnsureAddress
    BY <1>2, <1>3, <1>4, <1>7, EnsureCases
  <1>8. CASE CreateUser
    BY <1>3, <1>5, <1>8 DEF CreateUser, Write
  <1>9. CASE WaitForAddressInCache
    BY <1>3, <1>6, <1>9 DEF WaitForAddressInCache
  <1> QED
    BY <1>7, <1>8, <1>9

-----------------------------------------------------------------------------
(* Steps that write a claim.                                                  *)

\* An update of a claim keeps what is known of the addresses.
LEMMA ClaimUpdateLease ==
  ASSUME LInv, NEW c \in Claims, claims[c] # None,
         NEW obj \in ClaimObjects, obj.uid = claims[c].uid, Follows(obj, claims[c]),
         obj.fin => claims[c].fin \/ NoneFinished(c),
         SetClaim(c, obj), BoundClaimIsServed',
         UNCHANGED <<claimCache, addrs, addrCache, addrEvents, made>>,
         \/ obj.fin = claims[c].fin /\ UNCHANGED <<pc, job>>
         \/ job' = None /\ pc # "waitForAddress"
  PROVE  LRest'
  <1>1. /\ TypeOK /\ ClaimInv
        /\ obj # None /\ obj \in ClaimOrNone
    BY NoneAssumption DEF LInv, IInv, ClaimInv, ClaimOrNone
  <1>2. /\ ClaimInv'
        /\ \A d \in Claims : Leaving(d) => Leaving(d)'
        /\ \A d \in Claims : NoneFinished(d) => NoneFinished(d)'
    BY <1>1, ClaimUpdated
  <1>3. \A d \in Claims : claims'[d] = IF d = c THEN obj ELSE claims[d]
    BY <1>1, ClaimWritten
  <1>4. AddressesOwned'
    <2> SUFFICES ASSUME NEW d \in Claims PROVE AddressOwned(d)' /\ VersionsOwned(d)'
      BY DEF AddressesOwned
    <2>1. AddressOwned(d)'
      BY <1>1, <1>2, <1>3 DEF LInv, AddressesOwned, AddressOwned, Follows
    <2>2. VersionsOwned(d)'
      BY <1>1, <1>2, <1>3 DEF LInv, AddressesOwned, VersionsOwned, AddressVersions, AddressAt
    <2> QED
      BY <2>1, <2>2
  <1>5. ReconcileKnows'
    <2>1. CASE job' = None
      BY <2>1, NobodyKnows
    <2>2. CASE obj.fin = claims[c].fin /\ UNCHANGED <<pc, job>> /\ job # None
      <3>1. job.name \in Claims
        BY <1>1, <2>2, Busy
      <3>2. AddsToNew(job.name)'
        BY <1>2, <2>2, <3>1 DEF LInv, ReconcileKnows, AddsToNew
      <3>3. DeletesLeaving(job.name)'
        BY <1>2, <1>3, <2>2, <3>1 DEF LInv, ReconcileKnows, DeletesLeaving
      <3>4. ServesCurrent(job.name)'
        BY <1>1, <1>3, <2>2, <3>1 DEF LInv, ReconcileKnows, ServesCurrent, Current
      <3>5. AddressThereOrGone(job.name)'
        BY <2>2, <3>1 DEF LInv, ReconcileKnows, AddressThereOrGone
      <3> QED
        BY <2>2, <3>2, <3>3, <3>4, <3>5 DEF ReconcileKnows
    <2> QED
      BY <2>1, <2>2
  <1> QED
    BY <1>2, <1>4, <1>5 DEF LRest

\* So does the removal of a claim that has no address.
LEMMA ClaimRemovalLease ==
  ASSUME LInv, NEW c \in Claims, claims[c] # None, addrs[c] = None,
         SetClaim(c, None), UNCHANGED <<claimCache, addrs, addrCache, addrEvents, made>>,
         \/ ~claims[c].fin /\ UNCHANGED <<pc, job>>
         \/ Leaving(c) /\ job' = None /\ pc # "waitForAddress"
         \/ ~claims[c].fin /\ job' = None /\ pc # "waitForAddress"
  PROVE  LRest'
  <1>1. TypeOK /\ ClaimInv /\ None \in ClaimOrNone
    BY DEF LInv, IInv, ClaimInv, ClaimOrNone
  <1>2. /\ ClaimInv'
        /\ \A d \in Claims : d # c /\ Leaving(d) => Leaving(d)'
        /\ \A d \in Claims :
             (d = c => ~claims[c].fin) /\ NoneFinished(d) => NoneFinished(d)'
    BY <1>1, ClaimRemoved
  <1>3. \A d \in Claims : claims'[d] = IF d = c THEN None ELSE claims[d]
    BY <1>1, ClaimWritten
  <1>4. AddressesOwned'
    <2> SUFFICES ASSUME NEW d \in Claims PROVE AddressOwned(d)' /\ VersionsOwned(d)'
      BY DEF AddressesOwned
    <2>1. AddressOwned(d)'
      BY <1>2, <1>3 DEF LInv, AddressesOwned, AddressOwned
    <2>2. VersionsOwned(d)'
      BY <1>2, <1>3 DEF LInv, AddressesOwned, VersionsOwned, AddressVersions, AddressAt
    <2> QED
      BY <2>1, <2>2
  <1>5. ReconcileKnows'
    <2>1. CASE job' = None
      BY <2>1, NobodyKnows
    <2>2. CASE ~claims[c].fin /\ UNCHANGED <<pc, job>> /\ job # None
      <3>1. job.name \in Claims
        BY <1>1, <2>2, Busy
      <3>2. AddsToNew(job.name)'
        BY <1>2, <2>2, <3>1 DEF LInv, ReconcileKnows, AddsToNew
      <3>3. DeletesLeaving(job.name)'
        BY <1>2, <1>3, <2>2, <3>1 DEF LInv, ReconcileKnows, DeletesLeaving
      <3>4. ServesCurrent(job.name)'
        BY <1>1, <1>3, <2>2, <3>1 DEF LInv, ReconcileKnows, ServesCurrent, Current
      <3>5. AddressThereOrGone(job.name)'
        BY <2>2, <3>1 DEF LInv, ReconcileKnows, AddressThereOrGone
      <3> QED
        BY <2>2, <3>2, <3>3, <3>4, <3>5 DEF ReconcileKnows
    <2> QED
      BY <2>1, <2>2
  <1>6. BoundClaimIsServed'
    BY <1>3 DEF LInv, BoundClaimIsServed
  <1> QED
    BY <1>2, <1>4, <1>5, <1>6 DEF LRest

\* And a new claim, whose UID no address has.
LEMMA CreateClaimLease ==
  ASSUME LInv, NEW c \in Claims, CreateClaim(c)
  PROVE  LRest'
  <1> DEFINE obj == Claim(made[c] + 1)
  <1>1. /\ TypeOK /\ ClaimInv /\ claims[c] = None /\ SetClaim(c, obj)
        /\ UNCHANGED <<claimCache, addrs, addrCache, addrEvents, pc, job>>
    BY DEF LInv, IInv, ClaimInv, CreateClaim, cacheVars
  <1>2. /\ made[c] \in Nat /\ obj.uid = made[c] + 1 /\ ~obj.fin /\ ~obj.ref
        /\ obj \in ClaimOrNone /\ obj # None
    BY <1>1, ClaimTypes, NoneAssumption DEF TypeOK, EnvTypeOK, Claim, ClaimOrNone
  <1> HIDE DEF obj
  <1>3. /\ ClaimInv'
        /\ \A d \in Claims : Leaving(d) => Leaving(d)'
        /\ \A d \in Claims : NoneFinished(d) => NoneFinished(d)'
    BY <1>1, ClaimCreated
  <1>4. \A d \in Claims : claims'[d] = IF d = c THEN obj ELSE claims[d]
    BY <1>1, <1>2, ClaimWritten
  <1>5. AddressesOwned'
    <2> SUFFICES ASSUME NEW d \in Claims PROVE AddressOwned(d)' /\ VersionsOwned(d)'
      BY DEF AddressesOwned
    <2>1. AddressOwned(d)'
      BY <1>1, <1>3, <1>4 DEF LInv, AddressesOwned, AddressOwned
    <2>2. VersionsOwned(d)'
      <3>1. CASE d # c
        BY <1>1, <1>3, <1>4, <3>1 DEF LInv, AddressesOwned, VersionsOwned, AddressVersions,
           AddressAt
      <3>2. CASE d = c
        <4>1. addrs[c] = None
          BY <1>1 DEF LInv, AddressesOwned, AddressOwned
        <4>2. ASSUME NEW i \in AddressVersions(c), AddressAt(c, i) # None
              PROVE  AddressAt(c, i).owner # obj.uid
          <5>1. AddressAt(c, i).owner \in Nat /\ AddressAt(c, i).owner <= made[c]
            BY <1>1, <4>2, AddressVersionTypes DEF ClaimInv, FreshUIDs
          <5> QED
            BY <1>2, <5>1
        <4> QED
          BY <1>1, <1>4, <3>2, <4>1, <4>2 DEF VersionsOwned, AddressVersions, AddressAt
      <3> QED
        BY <3>1, <3>2
    <2> QED
      BY <2>1, <2>2
  <1>6. ReconcileKnows'
    <2>1. CASE job = None
      BY <1>1, <2>1, NobodyKnows
    <2>2. CASE job # None
      <3>1. job.name \in Claims
        BY <1>1, <2>2, Busy
      <3>2. AddsToNew(job.name)'
        BY <1>1, <1>3, <2>2, <3>1 DEF LInv, ReconcileKnows, AddsToNew
      <3>3. DeletesLeaving(job.name)'
        BY <1>1, <1>2, <1>3, <1>4, <2>2, <3>1 DEF LInv, ReconcileKnows, DeletesLeaving
      <3>4. ServesCurrent(job.name)'
        BY <1>1, <1>4, <2>2, <3>1 DEF LInv, ReconcileKnows, ServesCurrent, Current
      <3>5. AddressThereOrGone(job.name)'
        BY <1>1, <2>2, <3>1 DEF LInv, ReconcileKnows, AddressThereOrGone
      <3> QED
        BY <1>1, <3>2, <3>3, <3>4, <3>5 DEF ReconcileKnows
    <2> QED
      BY <2>1, <2>2
  <1>7. BoundClaimIsServed'
    BY <1>1, <1>2, <1>4 DEF LInv, BoundClaimIsServed
  <1> QED
    BY <1>3, <1>5, <1>6, <1>7 DEF LRest

\* AddFinalizer protects a claim whose former incarnations the cache has dropped.
LEMMA AddFinalizerLease ==
  ASSUME Reliable, LInv, AddFinalizer
  PROVE  LRest'
  <1> USE DEF AddFinalizer, apiVars, cacheVars, envVars, unifiVars
  <1> DEFINE c == job.name
             now == claims[c]
             obj == [now EXCEPT !.fin = TRUE]
  <1>1. /\ UNCHANGED <<claimCache, addrs, addrCache, addrEvents, made>>
        /\ pc = "addFinalizer" /\ TypeOK /\ c \in Claims /\ job # None
    BY Busy DEF LInv, IInv
  <1>2. CASE UNCHANGED <<claims, claimEvents>> /\ Requeue
    BY <1>1, <1>2, NobodyKnows, StoreUnchanged DEF Requeue, Finish
  <1>3. CASE now # None /\ SetClaim(c, obj) /\ Done
    <2>1. now \in ClaimObjects
      BY <1>1, <1>3, ClaimVersionTypes DEF ClaimOrNone
    <2>2. /\ obj \in ClaimObjects /\ obj.uid = now.uid /\ obj.ref = now.ref
          /\ obj.deleting = now.deleting /\ obj.fin
      BY <2>1 DEF ClaimObjects
    <2> HIDE DEF obj
    <2>3. NoneFinished(c)
      BY <1>1 DEF LInv, ReconcileKnows, AddsToNew
    <2>4. obj # None /\ obj \in ClaimOrNone
      BY <2>2, NoneAssumption DEF ClaimOrNone
    <2>5. \A d \in Claims : claims'[d] = IF d = c THEN obj ELSE claims[d]
      BY <1>1, <1>3, <2>4, ClaimWritten
    <2>6. BoundClaimIsServed'
      BY <1>1, <1>3, <2>2, <2>4, <2>5 DEF LInv, BoundClaimIsServed
    <2>7. Follows(obj, now)
      BY <2>2 DEF Follows
    <2>8. job' = None
      BY <1>3 DEF Done, Finish
    <2> QED
      BY <1>1, <1>3, <2>2, <2>3, <2>6, <2>7, <2>8, ClaimUpdateLease
  <1> QED
    BY <1>2, <1>3 DEF Write, Fault, Reliable

\* SetAddressRef binds a claim that has its address.
LEMMA SetAddressRefLease ==
  ASSUME Reliable, LInv, SetAddressRef
  PROVE  LRest'
  <1> USE DEF SetAddressRef, apiVars, cacheVars, envVars, unifiVars
  <1> DEFINE c == job.name
             now == claims[c]
             obj == [now EXCEPT !.ref = TRUE]
  <1>1. /\ UNCHANGED <<claimCache, addrs, addrCache, addrEvents, made>>
        /\ pc = "setAddressRef" /\ TypeOK /\ c \in Claims /\ job # None
    BY Busy DEF LInv, IInv
  <1>2. CASE UNCHANGED <<claims, claimEvents>> /\ (Requeue \/ Done)
    BY <1>1, <1>2, NobodyKnows, StoreUnchanged DEF Requeue, Done, Finish
  <1>3. CASE now # None /\ SetClaim(c, obj) /\ Done
    <2>1. now \in ClaimObjects
      BY <1>1, <1>3, ClaimVersionTypes DEF ClaimOrNone
    <2>2. /\ obj \in ClaimObjects /\ obj.uid = now.uid
          /\ obj.deleting = now.deleting /\ obj.fin = now.fin
      BY <2>1 DEF ClaimObjects
    <2> HIDE DEF obj
    <2>3. addrs[c] # None /\ addrs[c].fin /\ addrs[c].owner = now.uid
      BY <1>1 DEF LInv, ReconcileKnows, ServesCurrent, AddressThereOrGone, Normal,
         AddressesOwned, AddressOwned
    <2>4. obj # None /\ obj \in ClaimOrNone
      BY <2>2, NoneAssumption DEF ClaimOrNone
    <2>5. \A d \in Claims : claims'[d] = IF d = c THEN obj ELSE claims[d]
      BY <1>1, <1>3, <2>4, ClaimWritten
    <2>6. BoundClaimIsServed'
      BY <1>1, <1>3, <2>2, <2>3, <2>5 DEF LInv, BoundClaimIsServed
    <2>7. Follows(obj, now)
      BY <2>2 DEF Follows
    <2>8. job' = None
      BY <1>3 DEF Done, Finish
    <2> QED
      BY <1>1, <1>3, <2>2, <2>6, <2>7, <2>8, ClaimUpdateLease
  <1> QED
    BY <1>2, <1>3 DEF Write, Fault, Reliable

\* RemoveFinalizer lets a leaving claim go, and changes no other.
LEMMA RemoveFinalizerLease ==
  ASSUME Reliable, LInv, RemoveFinalizer
  PROVE  LRest'
  <1> USE DEF RemoveFinalizer, apiVars, cacheVars, envVars, unifiVars
  <1> DEFINE c == job.name
             now == claims[c]
             obj == Unprotected(now)
  <1>1. /\ UNCHANGED <<claimCache, addrs, addrCache, addrEvents, made>>
        /\ pc = "removeFinalizer" /\ TypeOK /\ c \in Claims /\ job # None
    BY Busy DEF LInv, IInv
  <1>2. CASE UNCHANGED <<claims, claimEvents>> /\ Requeue
    BY <1>1, <1>2, NobodyKnows, StoreUnchanged DEF Requeue, Finish
  <1>3. CASE now # None /\ SetClaim(c, obj) /\ Done
    <2>1. now \in ClaimObjects /\ job' = None /\ pc # "waitForAddress"
      BY <1>1, <1>3, ClaimVersionTypes DEF ClaimOrNone, Done, Finish
    <2>2. /\ addrs[c] = None
          /\ ~now.fin \/ Leaving(c)
      BY <1>1, <1>3 DEF LInv, ReconcileKnows, DeletesLeaving, AddressThereOrGone, Deletion
    <2>3. CASE now.deleting
      <3>1. obj = None
        BY <2>3 DEF Unprotected
      <3> QED
        BY <1>1, <1>3, <2>1, <2>2, <3>1, ClaimRemovalLease
    <2>4. CASE ~now.deleting
      <3>1. ~now.fin
        BY <2>2, <2>4 DEF Leaving
      <3>2. obj = now
        BY <2>1, <2>4, <3>1 DEF Unprotected, ClaimObjects
      <3>3. claims' = claims /\ claimEvents' = claimEvents
        BY <1>1, <1>3, <3>2 DEF SetClaim, TypeOK, ApiTypeOK
      <3> QED
        BY <1>1, <2>1, <3>3, NobodyKnows, StoreUnchanged
    <2> QED
      BY <2>3, <2>4
  <1> QED
    BY <1>2, <1>3 DEF Write, Fault, Reliable

\* A user's request to delete a claim removes it only if it has no finalizer, and
\* so no address.
LEMMA RequestClaimDeletionLease ==
  ASSUME LInv, NEW c \in Claims, RequestClaimDeletion(c)
  PROVE  LRest'
  <1> DEFINE now == claims[c]
             obj == Deleted(now)
  <1>1. /\ UNCHANGED <<claimCache, addrs, addrCache, addrEvents, made, pc, job>>
        /\ TypeOK /\ now # None /\ ~now.deleting /\ SetClaim(c, obj)
    BY DEF LInv, IInv, RequestClaimDeletion, cacheVars, envVars, unifiVars
  <1>2. now \in ClaimObjects
    BY <1>1, ClaimVersionTypes DEF ClaimOrNone
  <1>3. CASE now.fin
    <2>1. /\ obj \in ClaimObjects /\ obj.uid = now.uid /\ obj.fin = now.fin /\ obj.deleting
      BY <1>2, <1>3 DEF Deleted, ClaimObjects
    <2> HIDE DEF obj
    <2>2. obj # None /\ obj \in ClaimOrNone /\ Follows(obj, now)
      BY <2>1, NoneAssumption DEF ClaimOrNone, Follows
    <2>3. \A d \in Claims : claims'[d] = IF d = c THEN obj ELSE claims[d]
      BY <1>1, <2>2, ClaimWritten
    <2>4. BoundClaimIsServed'
      BY <1>1, <2>1, <2>3 DEF LInv, BoundClaimIsServed
    <2> QED
      BY <1>1, <2>1, <2>2, <2>4, ClaimUpdateLease
  <1>4. CASE ~now.fin
    <2>1. obj = None
      BY <1>4 DEF Deleted
    <2>2. addrs[c] = None
      BY <1>1, <1>4 DEF LInv, AddressesOwned, AddressOwned
    <2> QED
      BY <1>1, <1>4, <2>1, <2>2, ClaimRemovalLease
  <1> QED
    BY <1>3, <1>4

\* The delivery of a claim's event changes nothing a reconcile relies on.
LEMMA DeliverClaimLease ==
  ASSUME LInv, DeliverClaimEvent
  PROVE  LRest'
  <1>1. /\ UNCHANGED <<claims, addrs, addrCache, addrEvents, pc, job>>
        /\ TypeOK /\ ClaimInv
    BY DEF LInv, IInv, ClaimInv, DeliverClaimEvent
  <1>2. /\ ClaimInv'
        /\ \A d \in Claims : Leaving(d) => Leaving(d)'
        /\ \A d \in Claims : NoneFinished(d) => NoneFinished(d)'
    BY <1>1, ClaimDelivered
  <1>3. AddressesOwned'
    <2> SUFFICES ASSUME NEW d \in Claims PROVE AddressOwned(d)' /\ VersionsOwned(d)'
      BY DEF AddressesOwned
    <2>1. AddressOwned(d)'
      BY <1>1, <1>2 DEF LInv, AddressesOwned, AddressOwned
    <2>2. VersionsOwned(d)'
      BY <1>1, <1>2 DEF LInv, AddressesOwned, VersionsOwned, AddressVersions, AddressAt
    <2> QED
      BY <2>1, <2>2
  <1>4. ReconcileKnows'
    <2> SUFFICES ASSUME job # None
                 PROVE  /\ AddsToNew(job.name)' /\ DeletesLeaving(job.name)'
                        /\ ServesCurrent(job.name)' /\ AddressThereOrGone(job.name)'
      BY <1>1 DEF ReconcileKnows
    <2>1. job.name \in Claims
      BY <1>1, Busy
    <2>2. AddsToNew(job.name)'
      BY <1>1, <1>2, <2>1 DEF LInv, ReconcileKnows, AddsToNew
    <2>3. DeletesLeaving(job.name)'
      BY <1>1, <1>2, <2>1 DEF LInv, ReconcileKnows, DeletesLeaving
    <2>4. ServesCurrent(job.name)' /\ AddressThereOrGone(job.name)'
      BY <1>1 DEF LInv, ReconcileKnows, ServesCurrent, AddressThereOrGone
    <2> QED
      BY <2>2, <2>3, <2>4
  <1>5. BoundClaimIsServed'
    BY <1>1 DEF LInv, BoundClaimIsServed
  <1> QED
    BY <1>2, <1>3, <1>4, <1>5 DEF LRest

\* A restart ends the reconcile and makes the caches current.
LEMMA CrashLease ==
  ASSUME LInv, Crash
  PROVE  LRest'
  <1>1. /\ UNCHANGED <<claims, addrs>> /\ addrCache' = addrs /\ addrEvents' = << >>
        /\ job' = None
    BY DEF Crash, envVars, unifiVars, Finish
  <1>2. ClaimInv' /\ \A d \in Claims : Leaving(d) => Leaving(d)'
    BY AfterCrash DEF LInv, IInv, ClaimInv
  <1>3. ASSUME NEW d \in Claims
        PROVE  /\ Versions(addrEvents', d) = {0}
               /\ Version(addrCache', addrEvents', d, 0) = addrs[d]
    BY <1>1 DEF Versions, Version
  <1>4. AddressesOwned'
    <2> SUFFICES ASSUME NEW d \in Claims PROVE AddressOwned(d)' /\ VersionsOwned(d)'
      BY DEF AddressesOwned
    <2>1. AddressOwned(d)'
      BY <1>1, <1>2 DEF LInv, AddressesOwned, AddressOwned
    <2>2. VersionsOwned(d)'
      BY <1>1, <1>3 DEF VersionsOwned, AddressVersions, AddressAt
    <2> QED
      BY <2>1, <2>2
  <1>5. BoundClaimIsServed'
    BY <1>1 DEF LInv, BoundClaimIsServed
  <1> QED
    BY <1>1, <1>2, <1>4, <1>5, NobodyKnows DEF LRest

-----------------------------------------------------------------------------
(* Steps that write an address.                                               *)

\* What a write of an address does to the addresses and their versions.
LEMMA AddressWritten ==
  ASSUME TypeOK, NEW c \in Claims, NEW obj \in AddressOrNone, SetAddress(c, obj),
         UNCHANGED addrCache
  PROVE  /\ \A d \in Claims : addrs'[d] = IF d = c THEN obj ELSE addrs[d]
         /\ \A d \in Claims : \A i \in Versions(addrEvents', d) :
              \/ /\ i \in AddressVersions(d)
                 /\ Version(addrCache', addrEvents', d, i) = AddressAt(d, i)
              \/ d = c /\ Version(addrCache', addrEvents', d, i) = obj
  <1>1. /\ addrs \in [Claims -> AddressOrNone]
        /\ addrEvents \in Seq(Claims \X AddressOrNone)
    BY EventTypes
  <1>2. addrs' = [addrs EXCEPT ![c] = obj]
    BY DEF SetAddress
  <1>3. addrEvents' = addrEvents \/ addrEvents' = Append(addrEvents, <<c, obj>>)
    BY DEF SetAddress
  <1>4. ASSUME NEW d \in Claims, NEW i \in Versions(addrEvents', d)
        PROVE  \/ /\ i \in Versions(addrEvents, d)
                  /\ Version(addrCache, addrEvents', d, i) = Version(addrCache, addrEvents, d, i)
               \/ d = c /\ Version(addrCache, addrEvents', d, i) = obj
    BY <1>1, <1>3, <1>4, VersionsWritten
  <1> QED
    BY <1>1, <1>2, <1>4 DEF AddressVersions, AddressAt

\* Steps that leave the claims alone.
LEMMA ClaimsKept ==
  ASSUME ClaimInv, UNCHANGED <<claims, claimCache, claimEvents, made>>,
         \A d \in Claims : \A i \in Versions(addrEvents', d) :
           Version(addrCache', addrEvents', d, i) # None =>
             Version(addrCache', addrEvents', d, i).owner <= made[d]
  PROVE  /\ ClaimInv'
         /\ \A d \in Claims : Leaving(d)' <=> Leaving(d)
         /\ \A d \in Claims : NoneFinished(d)' <=> NoneFinished(d)
  <1>1. ClaimInv'
    BY DEF ClaimInv, FreshUIDs, VersionsFollow, FinishedFirst, ClaimVersions, ClaimAt,
           AddressVersions, AddressAt
  <1>2. ASSUME NEW d \in Claims
        PROVE  (Leaving(d)' <=> Leaving(d)) /\ (NoneFinished(d)' <=> NoneFinished(d))
    BY DEF Leaving, NoneFinished, ClaimVersions, ClaimAt
  <1> QED
    BY <1>1, <1>2

\* A write that leaves an address its claim's, that unprotects or removes it only
\* if the claim leaves, and that protects none that a version shows unprotected.
LEMMA AddressWriteLease ==
  ASSUME LInv, NEW c \in Claims, NEW obj \in AddressOrNone, SetAddress(c, obj),
         UNCHANGED <<claims, claimCache, claimEvents, addrCache, made>>,
         obj # None => /\ claims[c] # None /\ claims[c].fin /\ obj.owner = claims[c].uid
                       /\ addrCache[c] # None \/ (pc' = "waitForAddress" /\ job'.name = c),
         (obj # None /\ obj.fin) \/ Leaving(c),
         obj # None /\ obj.fin =>
           \A i \in AddressVersions(c) : AddressAt(c, i) # None => AddressAt(c, i).fin,
         UNCHANGED <<pc, job>> \/ pc # "waitForAddress",
         ReconcileKnows'
  PROVE  LRest'
  <1>1. TypeOK /\ ClaimInv
    BY DEF LInv, IInv, ClaimInv
  <1>2. /\ \A d \in Claims : addrs'[d] = IF d = c THEN obj ELSE addrs[d]
        /\ \A d \in Claims : \A i \in Versions(addrEvents', d) :
             \/ /\ i \in AddressVersions(d)
                /\ Version(addrCache', addrEvents', d, i) = AddressAt(d, i)
             \/ d = c /\ Version(addrCache', addrEvents', d, i) = obj
    BY <1>1, AddressWritten
  <1>3. ASSUME NEW d \in Claims, NEW i \in Versions(addrEvents', d),
               Version(addrCache', addrEvents', d, i) # None
        PROVE  Version(addrCache', addrEvents', d, i).owner <= made[d]
    <2>1. CASE i \in AddressVersions(d) /\ Version(addrCache', addrEvents', d, i) = AddressAt(d, i)
      BY <1>3, <2>1 DEF LInv, FreshUIDs
    <2>2. CASE d = c /\ Version(addrCache', addrEvents', d, i) = obj
      <3>1. obj.owner = made[d] /\ made[d] \in Nat
        BY <1>1, <1>3, <2>2 DEF LInv, FreshUIDs, TypeOK, EnvTypeOK
      <3> QED
        BY <2>2, <3>1
    <2> QED
      BY <1>2, <2>1, <2>2
  <1>4. ClaimInv' /\ \A d \in Claims : Leaving(d)' <=> Leaving(d)
    BY <1>1, <1>3, ClaimsKept
  <1>5. AddressesOwned'
    <2> SUFFICES ASSUME NEW d \in Claims PROVE AddressOwned(d)' /\ VersionsOwned(d)'
      BY DEF AddressesOwned
    <2>1. AddressOwned(d)'
      BY <1>2, <1>4 DEF LInv, AddressesOwned, AddressOwned
    <2>2. VersionsOwned(d)'
      <3> SUFFICES ASSUME NEW i \in Versions(addrEvents', d),
                          Version(addrCache', addrEvents', d, i) # None
                   PROVE  LET v == Version(addrCache', addrEvents', d, i) IN
                          /\ \/ claims[d] = None \/ v.owner # claims[d].uid
                             \/ addrs'[d] # None \/ Leaving(d)
                          /\ v.fin \/ addrs'[d] = None \/ ~addrs'[d].fin
        BY <1>4 DEF VersionsOwned, AddressVersions, AddressAt
      <3>1. CASE i \in AddressVersions(d) /\ Version(addrCache', addrEvents', d, i) = AddressAt(d, i)
        BY <1>2, <3>1 DEF LInv, AddressesOwned, VersionsOwned
      <3>2. CASE d = c /\ Version(addrCache', addrEvents', d, i) = obj
        BY <1>2, <3>2
      <3> QED
        BY <1>2, <3>1, <3>2
    <2> QED
      BY <2>1, <2>2
  <1>6. BoundClaimIsServed'
    BY <1>2 DEF LInv, BoundClaimIsServed, Leaving
  <1> QED
    BY <1>4, <1>5, <1>6 DEF LRest

\* What a reconcile knows when it goes on to l after a write of its own address.
LEMMA KnowsAfterWrite ==
  ASSUME LInv, pc # "idle", NEW l \in {"waitForAddress", "deleteAddress", "removeFinalizer"},
         GoTo(l), NEW obj \in AddressOrNone, SetAddress(job.name, obj),
         UNCHANGED <<claims, claimCache, claimEvents, addrCache, made>>,
         obj # None => obj.owner <= made[job.name],
         l = "waitForAddress" => pc \in Normal /\ obj # None /\ obj.fin,
         l = "deleteAddress" => pc \in Deletion /\ (obj = None \/ ~obj.fin),
         l = "removeFinalizer" => pc \in Deletion /\ obj = None
  PROVE  ReconcileKnows'
  <1>1. /\ TypeOK /\ ClaimInv /\ job # None /\ job.name \in Claims
        /\ job' = job /\ pc' = l
    BY Busy DEF LInv, IInv, ClaimInv, GoTo
  <1>2. addrs'[job.name] = obj
    BY <1>1, AddressWritten
  <1>3. Leaving(job.name) => Leaving(job.name)'
    BY <1>1 DEF Leaving, ClaimVersions, ClaimAt
  <1>4. AddsToNew(job.name)'
    BY <1>1 DEF AddsToNew
  <1>5. DeletesLeaving(job.name)'
    BY <1>1, <1>3 DEF LInv, ReconcileKnows, DeletesLeaving, Deletion
  <1>6. ServesCurrent(job.name)'
    BY <1>1, <1>2 DEF LInv, ReconcileKnows, ServesCurrent, Normal
  <1>7. AddressThereOrGone(job.name)'
    BY <1>1, <1>2 DEF AddressThereOrGone
  <1> QED
    BY <1>1, <1>4, <1>5, <1>6, <1>7 DEF ReconcileKnows

\* An address is written for the claim there is.
LEMMA WriteAddressLease ==
  ASSUME Reliable, LInv, WriteAddress
  PROVE  LRest'
  <1> USE DEF WriteAddress, apiVars, cacheVars, envVars, unifiVars
  <1> DEFINE c == job.name
             now == addrs[c]
  <1>1. /\ UNCHANGED <<claims, claimCache, claimEvents, addrCache, made>>
        /\ pc = "writeAddress" /\ TypeOK /\ c \in Claims /\ job # None
    BY Busy DEF LInv, IInv, Create, Patch
  <1>2. /\ job \in Jobs /\ job.claim \in ClaimObjects /\ job.ip \in IPs \cup {NoIP}
        /\ job.found \in AddressOrNone /\ now \in AddressOrNone
        /\ made[c] \in Nat
    BY <1>1, AddressVersionTypes DEF TypeOK, WorkerTypeOK, EnvTypeOK, Jobs, AddressOrNone
  <1>3. /\ claims[c] # None /\ claims[c].fin /\ job.claim.uid = claims[c].uid
        /\ claims[c].uid = made[c]
        /\ now # None => now.fin
        /\ job.found # None /\ job.found.owner = job.claim.uid => now # None
    BY <1>1 DEF LInv, ReconcileKnows, ServesCurrent, Normal, Current, FreshUIDs
  <1>4. CASE UNCHANGED <<addrs, addrEvents>> /\ Requeue
    BY <1>1, <1>4, NobodyKnows, StoreUnchanged DEF Requeue, Finish
  <1>5. ASSUME NEW obj \in AddressObjects, obj.fin, obj.owner = job.claim.uid,
               SetAddress(c, obj), GoTo("waitForAddress"),
               \A i \in AddressVersions(c) : AddressAt(c, i) # None => AddressAt(c, i).fin
        PROVE  LRest'
    <2>1. obj # None /\ obj \in AddressOrNone
      BY NoneAssumption DEF AddressOrNone
    <2>2. ReconcileKnows'
      BY <1>1, <1>2, <1>3, <1>5, <2>1, KnowsAfterWrite DEF Normal
    <2>3. pc' = "waitForAddress" /\ job'.name = c
      BY <1>5 DEF GoTo
    <2> QED
      BY <1>1, <1>3, <1>5, <2>1, <2>2, <2>3, AddressWriteLease
  <1>6. CASE Create
    <2> DEFINE obj == [ip |-> job.ip, owner |-> job.claim.uid,
                       fin |-> TRUE, deleting |-> FALSE]
    <2>1. CASE now # None
      BY <1>4, <1>6, <2>1 DEF Create
    <2>2. CASE now = None /\ SetAddress(c, obj) /\ GoTo("waitForAddress")
      <3>1. obj \in AddressObjects /\ obj.fin /\ obj.owner = job.claim.uid
        BY <1>2 DEF AddressObjects, ClaimObjects
      <3>2. /\ addrCache[c] = None
            /\ \A i \in 1..Len(addrEvents) :
                 addrEvents[i][1] = c => addrEvents[i][2] # None /\ addrEvents[i][2].fin
        BY <1>1, <1>6, <2>2 DEF LInv, IInv, MissingIsProtected, Allocating, Create, Protected
      <3>3. \A i \in AddressVersions(c) : AddressAt(c, i) # None => AddressAt(c, i).fin
        BY <3>2 DEF AddressVersions, AddressAt, Versions, Version
      <3> HIDE DEF obj
      <3> QED
        BY <1>5, <2>2, <3>1, <3>3
    <2> QED
      BY <1>4, <1>6, <2>1, <2>2 DEF Create, Write, Fault, Reliable
  <1>7. CASE Patch
    <2> DEFINE patched == [now EXCEPT
                 !.ip    = IF job.ip # job.found.ip THEN job.ip ELSE @,
                 !.owner = job.claim.uid,
                 !.fin   = TRUE]
    <2>1. CASE Wanted(job.found) = job.found
      <3>1. job.found # None /\ job.found \in AddressObjects
        BY <1>2, <1>7 DEF Patch, AddressOrNone
      <3>2. job.found.owner = job.claim.uid
        BY <2>1, <3>1 DEF Wanted, AddressObjects
      <3>3. now # None /\ pc' = "waitForAddress" /\ job' = job
        BY <1>3, <1>7, <2>1, <3>1, <3>2 DEF Patch, GoTo
      <3>4. UNCHANGED <<addrs, addrEvents>>
        BY <1>7, <2>1 DEF Patch
      <3>5. ReconcileKnows'
        BY <1>1, <3>3, <3>4 DEF LInv, ReconcileKnows, AddsToNew, DeletesLeaving, ServesCurrent,
           AddressThereOrGone, Normal, Deletion
      <3> QED
        BY <1>1, <3>4, <3>5, StoreUnchanged
    <2>2. CASE now = None /\ Wanted(job.found) # job.found
      BY <1>4, <1>7, <2>2 DEF Patch
    <2>3. CASE now # None /\ SetAddress(c, patched) /\ GoTo("waitForAddress")
      <3>1. patched \in AddressObjects /\ patched.fin /\ patched.owner = job.claim.uid
        BY <1>2, <2>3 DEF AddressObjects, AddressOrNone, ClaimObjects
      <3>2. \A i \in AddressVersions(c) : AddressAt(c, i) # None => AddressAt(c, i).fin
        BY <1>1, <1>3, <2>3 DEF LInv, AddressesOwned, VersionsOwned
      <3> HIDE DEF patched
      <3> QED
        BY <1>5, <2>3, <3>1, <3>2
    <2> QED
      BY <1>4, <1>7, <2>1, <2>2, <2>3 DEF Patch, Write, Fault, Reliable
  <1> QED
    BY <1>6, <1>7

\* An address is unprotected, and then removed, when its claim leaves.
LEMMA DropAddressLease ==
  ASSUME Reliable, LInv, UnprotectAddress \/ DeleteAddress
  PROVE  LRest'
  <1> USE DEF apiVars, cacheVars, envVars, unifiVars
  <1> DEFINE c == job.name
             now == addrs[c]
             next == IF pc = "unprotectAddress" THEN "deleteAddress" ELSE "removeFinalizer"
  <1>1. /\ UNCHANGED <<claims, claimCache, claimEvents, addrCache, made>>
        /\ pc \in {"unprotectAddress", "deleteAddress"}
        /\ TypeOK /\ c \in Claims /\ job # None
        /\ now \in AddressOrNone
    BY Busy, AddressVersionTypes DEF LInv, IInv, UnprotectAddress, DeleteAddress
  <1>2. CASE UNCHANGED <<addrs, addrEvents>> /\ Requeue
    BY <1>1, <1>2, NobodyKnows, StoreUnchanged DEF Requeue, Finish
  <1>3. CASE UNCHANGED <<addrs, addrEvents>> /\ now = None /\ GoTo(next)
    <2>1. ReconcileKnows'
      BY <1>1, <1>3 DEF LInv, ReconcileKnows, AddsToNew, DeletesLeaving, ServesCurrent,
         AddressThereOrGone, Normal, Deletion, GoTo, Leaving, ClaimVersions, ClaimAt
    <2> QED
      BY <1>1, <1>3, <2>1, StoreUnchanged
  <1>4. ASSUME NEW obj \in AddressOrNone, now # None, obj # None => obj.owner = now.owner,
               obj = None \/ (pc = "unprotectAddress" /\ ~obj.fin),
               SetAddress(c, obj), GoTo(next)
        PROVE  LRest'
    <2>1. /\ claims[c] # None /\ claims[c].fin /\ now.owner = claims[c].uid
          /\ addrCache[c] # None /\ Leaving(c)
      BY <1>1, <1>4 DEF LInv, AddressesOwned, AddressOwned, ReconcileKnows, DeletesLeaving, Deletion
    <2>2. obj # None => obj.owner <= made[c]
      BY <1>1, <1>4, <2>1 DEF LInv, FreshUIDs, TypeOK, EnvTypeOK
    <2>3. ReconcileKnows'
      BY <1>1, <1>4, <2>2, KnowsAfterWrite DEF Deletion
    <2> QED
      BY <1>1, <1>4, <2>1, <2>3, AddressWriteLease
  <1>5. CASE pc = "unprotectAddress" /\ now # None /\ SetAddress(c, Unprotected(now)) /\ GoTo(next)
    <2>1. now \in AddressObjects
      BY <1>1, <1>5 DEF AddressOrNone
    <2>2. /\ Unprotected(now) \in AddressOrNone
          /\ Unprotected(now) # None =>
               Unprotected(now).owner = now.owner /\ ~Unprotected(now).fin
      BY <2>1 DEF Unprotected, AddressOrNone, AddressObjects
    <2> QED
      BY <1>4, <1>5, <2>2
  <1>6. CASE pc = "deleteAddress" /\ now # None /\ SetAddress(c, Deleted(now)) /\ GoTo(next)
    <2>1. ~now.fin
      BY <1>1, <1>6 DEF LInv, ReconcileKnows, AddressThereOrGone
    <2>2. Deleted(now) = None /\ None \in AddressOrNone
      BY <2>1 DEF Deleted, AddressOrNone
    <2> QED
      BY <1>4, <1>6, <2>2
  <1>7. CASE UnprotectAddress
    BY <1>2, <1>3, <1>5, <1>7 DEF UnprotectAddress, Write, Fault, Reliable
  <1>8. CASE DeleteAddress
    BY <1>2, <1>3, <1>6, <1>8 DEF DeleteAddress, Write, Fault, Reliable
  <1> QED
    BY <1>7, <1>8

\* A user's request removes only an address that has been unprotected.
LEMMA RequestAddressDeletionLease ==
  ASSUME LInv, NEW c \in Claims, RequestAddressDeletion(c)
  PROVE  LRest'
  <1> DEFINE now == addrs[c]
             obj == Deleted(now)
  <1>1. /\ UNCHANGED <<claims, claimCache, claimEvents, addrCache, made, pc, job>>
        /\ TypeOK /\ now # None /\ SetAddress(c, obj)
    BY DEF LInv, IInv, RequestAddressDeletion, cacheVars, envVars, unifiVars
  <1>2. now \in AddressObjects
    BY <1>1, AddressVersionTypes DEF AddressOrNone
  <1>3. /\ obj \in AddressOrNone
        /\ obj # None <=> now.fin
        /\ obj # None => obj.fin /\ obj.owner = now.owner
    <2>1. [now EXCEPT !.deleting = TRUE] \in AddressObjects
      BY <1>2 DEF AddressObjects
    <2>2. [now EXCEPT !.deleting = TRUE] # None
      BY <2>1, NoneAssumption
    <2> QED
      BY <1>2, <2>1, <2>2 DEF Deleted, AddressOrNone, AddressObjects
  <1> HIDE DEF obj
  <1>4. /\ claims[c] # None /\ claims[c].fin /\ now.owner = claims[c].uid
        /\ now.fin \/ Leaving(c)
        /\ addrCache[c] # None \/ (pc = "waitForAddress" /\ job.name = c)
        /\ now.fin => \A i \in AddressVersions(c) : AddressAt(c, i) # None => AddressAt(c, i).fin
    BY <1>1 DEF LInv, AddressesOwned, AddressOwned, VersionsOwned
  <1>5. \A d \in Claims : addrs'[d] = IF d = c THEN obj ELSE addrs[d]
    BY <1>1, <1>3, AddressWritten
  <1>6. ReconcileKnows'
    <2> SUFFICES ASSUME job # None
                 PROVE  /\ AddsToNew(job.name)' /\ DeletesLeaving(job.name)'
                        /\ ServesCurrent(job.name)' /\ AddressThereOrGone(job.name)'
      BY <1>1 DEF ReconcileKnows
    <2>1. job.name \in Claims
      BY <1>1, Busy
    <2>2. Leaving(job.name) => Leaving(job.name)'
      BY <1>1 DEF Leaving, ClaimVersions, ClaimAt
    <2>3. AddsToNew(job.name)'
      BY <1>1 DEF LInv, ReconcileKnows, AddsToNew, NoneFinished, ClaimVersions, ClaimAt
    <2>4. DeletesLeaving(job.name)'
      BY <1>1, <2>2 DEF LInv, ReconcileKnows, DeletesLeaving
    <2>5. ServesCurrent(job.name)'
      BY <1>1, <1>3, <1>5, <2>1 DEF LInv, ReconcileKnows, ServesCurrent
    <2>6. AddressThereOrGone(job.name)'
      BY <1>1, <1>3, <1>5, <2>1 DEF LInv, ReconcileKnows, ServesCurrent, AddressThereOrGone, Normal
    <2> QED
      BY <2>3, <2>4, <2>5, <2>6
  <1> QED
    BY <1>1, <1>3, <1>4, <1>6, AddressWriteLease

\* The delivery of an address's event: the cache shows no address that is not there
\* only because it is not there yet.
LEMMA DeliverAddressLease ==
  ASSUME LInv, DeliverAddressEvent
  PROVE  LRest'
  <1> DEFINE old(d, i) == Before(addrEvents, d, i)
  <1>1. /\ UNCHANGED <<claims, claimCache, claimEvents, addrs, made, pc, job>>
        /\ TypeOK /\ ClaimInv /\ EventInv
        /\ addrEvents # << >> /\ addrEvents' = Tail(addrEvents)
    BY DEF LInv, IInv, ClaimInv, DeliverAddressEvent, envVars, unifiVars
  <1>2. /\ addrEvents \in Seq(Claims \X AddressOrNone)
        /\ \A d \in Claims : addrCache'[d] =
             IF Head(addrEvents)[1] = d THEN Head(addrEvents)[2] ELSE addrCache[d]
    BY <1>1, EventTypes DEF DeliverAddressEvent
  <1>3. ASSUME NEW d \in Claims, NEW i \in Versions(addrEvents', d)
        PROVE  /\ old(d, i) \in AddressVersions(d)
               /\ Version(addrCache', addrEvents', d, i) = AddressAt(d, old(d, i))
    BY <1>1, <1>2, VersionsDelivered DEF AddressVersions, AddressAt
  <1> HIDE DEF old
  <1>4. ASSUME NEW d \in Claims, NEW i \in Versions(addrEvents', d),
               Version(addrCache', addrEvents', d, i) # None
        PROVE  Version(addrCache', addrEvents', d, i).owner <= made[d]
    BY <1>3, <1>4 DEF LInv, FreshUIDs
  <1>5. ClaimInv' /\ \A d \in Claims : (Leaving(d)' <=> Leaving(d)) /\ (NoneFinished(d)' <=> NoneFinished(d))
    BY <1>1, <1>4, ClaimsKept
  <1>6. AddressesOwned'
    <2> SUFFICES ASSUME NEW d \in Claims PROVE AddressOwned(d)' /\ VersionsOwned(d)'
      BY DEF AddressesOwned
    <2>1. AddressOwned(d)'
      <3>1. d = Head(addrEvents)[1] /\ addrCache'[d] = None => addrs[d] = None
        BY <1>1, EventsAfterDelivery
      <3> QED
        BY <1>1, <1>2, <1>5, <3>1 DEF LInv, AddressesOwned, AddressOwned
    <2>2. VersionsOwned(d)'
      <3> SUFFICES ASSUME NEW i \in Versions(addrEvents', d),
                          Version(addrCache', addrEvents', d, i) # None
                   PROVE  LET v == Version(addrCache', addrEvents', d, i) IN
                          /\ \/ claims[d] = None \/ v.owner # claims[d].uid
                             \/ addrs[d] # None \/ Leaving(d)
                          /\ v.fin \/ addrs[d] = None \/ ~addrs[d].fin
        BY <1>1, <1>5 DEF VersionsOwned, AddressVersions, AddressAt
      <3> QED
        BY <1>3 DEF LInv, AddressesOwned, VersionsOwned
    <2> QED
      BY <2>1, <2>2
  <1>7. ReconcileKnows'
    <2> SUFFICES ASSUME job # None
                 PROVE  /\ AddsToNew(job.name)' /\ DeletesLeaving(job.name)'
                        /\ ServesCurrent(job.name)' /\ AddressThereOrGone(job.name)'
      BY <1>1 DEF ReconcileKnows
    <2>1. job.name \in Claims
      BY <1>1, Busy
    <2> QED
      BY <1>1, <1>5, <2>1 DEF LInv, ReconcileKnows, AddsToNew, DeletesLeaving, ServesCurrent,
         AddressThereOrGone
  <1>8. BoundClaimIsServed'
    BY <1>1 DEF LInv, BoundClaimIsServed
  <1> QED
    BY <1>5, <1>6, <1>7, <1>8 DEF LRest

-----------------------------------------------------------------------------
(* What a step may do to the addresses there are, and to the one that the     *)
(* running reconcile may still create.                                        *)

\* The running reconcile found no address and may create one.
Creates == Allocating /\ job.found = None /\ addrs[job.name] = None

\* It may create what it could before the step, and nothing else.
SameCreates ==
  /\ Creates' <=> Creates
  /\ Creates => job'.name = job.name /\ job'.claim = job.claim

\* It creates that address, of which no version is left anywhere.
AddressCreated ==
  /\ Creates /\ ~Creates'
  /\ addrCache[job.name] = None
  /\ \A i \in 1..Len(addrEvents) : addrEvents[i][1] # job.name
  /\ \E obj \in AddressObjects :
       obj.owner = job.claim.uid /\ SetAddress(job.name, obj)
  /\ UNCHANGED addrCache

\* An address stays its owner's.
AddressUpdated ==
  /\ \E c \in Claims : \E obj \in AddressObjects :
       addrs[c] # None /\ obj.owner = addrs[c].owner /\ SetAddress(c, obj)
  /\ UNCHANGED addrCache
  /\ SameCreates

\* An address of a claim that leaves is removed.
AddressDropped ==
  /\ \E c \in Claims :
       addrs[c] # None /\ addrCache[c] # None /\ Leaving(c) /\ SetAddress(c, None)
  /\ UNCHANGED addrCache
  /\ SameCreates

\* A reconcile of a claim that stays starts on the way to its address.
StartsCreating(c) ==
  /\ pool # None /\ addrs[c] = None
  /\ claims[c] # None /\ ~Leaving(c)
  /\ job'.name = c /\ job'.claim.uid = claims[c].uid

AddressesKept ==
  /\ UNCHANGED <<addrs, addrCache, addrEvents>>
  /\ \/ SameCreates
     \/ ~Creates'
     \/ ~Creates /\ \E c \in Claims : StartsCreating(c)

\* A reconcile that starts, and steps that leave addresses alone.
LEMMA ReconcileAddress ==
  ASSUME LInv, NEW c \in Claims, Reconcile(c)
  PROVE  AddressesKept
  <1>1. /\ UNCHANGED <<addrs, addrCache, addrEvents>> /\ pc = "idle"
        /\ TypeOK
    BY DEF Reconcile, apiVars, cacheVars, LInv, IInv
  <1>2. ~Creates
    BY <1>1 DEF Creates, Allocating
  <1>3. CASE pc' \notin {"ensureAddress", "createUser", "writeAddress"}
    BY <1>1, <1>3 DEF AddressesKept, Creates, Allocating
  <1>4. CASE pc' \in {"ensureAddress", "createUser", "writeAddress"} /\ Creates'
    <2> DEFINE v == claimCache[c]
    <2>1. Route(c) \notin {"error", "done"}
      BY <1>1, <1>4 DEF Reconcile, Finish
    <2>2. pc' = Route(c) /\ job'.name = c /\ job'.claim = v
      BY <2>1 DEF Reconcile, Job
    <2>3. v # None /\ v.fin /\ ~v.deleting /\ pool # None
      BY <1>4, <2>2 DEF Route, Ignored, DeleteRoute, NormalRoute
    <2>4. /\ 0 \in ClaimVersions(c) /\ ClaimAt(c, 0) = v
      BY <1>1, ClaimVersionTypes DEF ClaimAt, Version
    <2>5. Current(claims[c], v)
      BY <2>3, <2>4 DEF LInv, FinishedFirst, Finished
    <2>6. ~Leaving(c)
      BY <2>3, <2>4 DEF Leaving
    <2>7. addrs[c] = None
      BY <1>1, <1>4, <2>2 DEF Creates
    <2> QED
      BY <1>1, <1>2, <2>2, <2>3, <2>5, <2>6, <2>7 DEF AddressesKept, StartsCreating, Current
  <1> QED
    BY <1>1, <1>3, <1>4 DEF AddressesKept

\* A write of an address is one of the three kinds, or fails and is retried.
LEMMA WriteAddressUse ==
  ASSUME Reliable, LInv, WriteAddress
  PROVE  AddressesKept \/ AddressCreated \/ AddressUpdated
  <1> USE DEF WriteAddress, apiVars, cacheVars, envVars, unifiVars
  <1> DEFINE c == job.name
             now == addrs[c]
  <1>1. /\ UNCHANGED <<claims, addrCache>>
        /\ pc = "writeAddress" /\ TypeOK /\ c \in Claims /\ job # None
        /\ now \in AddressOrNone
    BY Busy, AddressVersionTypes DEF LInv, IInv, Create, Patch
  <1>2. /\ job \in Jobs /\ job.claim \in ClaimObjects /\ job.claim.uid \in Nat
        /\ job.ip \in IPs \cup {NoIP}
    BY <1>1 DEF TypeOK, WorkerTypeOK, Jobs, ClaimObjects
  <1>3. CASE UNCHANGED <<addrs, addrEvents>> /\ (Requeue \/ GoTo("waitForAddress"))
    <2>1. ~Creates'
      BY <1>3 DEF Creates, Allocating, Requeue, Finish, GoTo
    <2> QED
      BY <1>1, <1>3, <2>1 DEF AddressesKept
  <1>4. CASE Create /\ now = None
    <2> DEFINE obj == [ip |-> job.ip, owner |-> job.claim.uid,
                       fin |-> TRUE, deleting |-> FALSE]
    <2>1. CASE SetAddress(c, obj) /\ GoTo("waitForAddress")
      <3>1. obj \in AddressObjects /\ obj.owner = job.claim.uid
        BY <1>2 DEF AddressObjects
      <3>2. Creates /\ ~Creates'
        BY <1>1, <1>4, <2>1 DEF Creates, Allocating, Create, GoTo
      <3>3. /\ addrCache[c] = None
            /\ \A i \in 1..Len(addrEvents) : addrEvents[i][1] # c
        <4>1. MissingIsProtected /\ CacheCatchesUp /\ Allocating /\ job.found = None
          BY <1>1, <1>4 DEF LInv, IInv, EventInv, Create, Allocating
        <4>2. addrCache[c] = None
          BY <1>4, <4>1 DEF MissingIsProtected
        <4>3. ASSUME NEW i \in 1..Len(addrEvents), addrEvents[i] = <<c, None>>
              PROVE  FALSE
          <5>1. addrEvents[i][1] = c /\ addrEvents[i][2] = None
            BY <4>3
          <5> QED
            BY <4>1, <5>1 DEF MissingIsProtected, Protected
        <4> QED
          BY <1>1, <1>4, <4>1, <4>2, <4>3 DEF CacheCatchesUp
      <3> HIDE DEF obj
      <3> QED
        BY <1>1, <2>1, <3>1, <3>2, <3>3 DEF AddressCreated
    <2> QED
      BY <1>3, <1>4, <2>1 DEF Create, Write, Fault, Reliable
  <1>5. CASE Patch /\ now # None
    <2> DEFINE patched == [now EXCEPT
                 !.ip    = IF job.ip # job.found.ip THEN job.ip ELSE @,
                 !.owner = job.claim.uid,
                 !.fin   = TRUE]
    <2>1. CASE SetAddress(c, patched) /\ GoTo("waitForAddress")
      <3>1. patched \in AddressObjects /\ patched.owner = job.claim.uid
        BY <1>1, <1>2, <1>5 DEF AddressObjects, AddressOrNone
      <3>2. now.owner = job.claim.uid
        BY <1>1, <1>5 DEF LInv, ReconcileKnows, ServesCurrent, Normal, Current,
           AddressesOwned, AddressOwned
      <3>3. ~Creates /\ ~Creates'
        BY <1>5, <2>1 DEF Creates, Allocating, Patch, GoTo
      <3> HIDE DEF patched
      <3> QED
        BY <1>1, <1>5, <2>1, <3>1, <3>2, <3>3 DEF AddressUpdated, SameCreates
    <2> QED
      BY <1>3, <1>5, <2>1 DEF Patch, Write, Fault, Reliable
  <1> QED
    BY <1>3, <1>4, <1>5 DEF Create, Patch

\* An address loses its finalizer and goes when its claim leaves.
LEMMA DropAddressUse ==
  ASSUME Reliable, LInv, UnprotectAddress \/ DeleteAddress
  PROVE  AddressesKept \/ AddressUpdated \/ AddressDropped
  <1> USE DEF apiVars, cacheVars, envVars, unifiVars
  <1> DEFINE c == job.name
             now == addrs[c]
  <1>1. /\ UNCHANGED <<claims, addrCache>>
        /\ pc \in {"unprotectAddress", "deleteAddress"} /\ pc \in Deletion
        /\ pc' \notin {"ensureAddress", "createUser", "writeAddress"}
        /\ TypeOK /\ c \in Claims /\ job # None
        /\ now \in AddressOrNone
    BY Busy, AddressVersionTypes DEF LInv, IInv, UnprotectAddress, DeleteAddress, Deletion,
       GoTo, Requeue, Finish, Write, Fault, Reliable
  <1>2. ~Creates /\ ~Creates'
    BY <1>1 DEF Creates, Allocating
  <1>3. CASE UNCHANGED <<addrs, addrEvents>>
    BY <1>1, <1>2, <1>3 DEF AddressesKept
  <1>4. CASE now # None /\ (SetAddress(c, Unprotected(now)) \/ SetAddress(c, Deleted(now)))
    <2>1. Leaving(c) /\ addrCache[c] # None
      BY <1>1, <1>4 DEF LInv, AddressesOwned, AddressOwned, ReconcileKnows, DeletesLeaving
    <2>2. \A obj \in {Unprotected(now), Deleted(now)} :
            obj = None \/ (obj \in AddressObjects /\ obj.owner = now.owner)
      <3>1. now \in AddressObjects
        BY <1>1, <1>4 DEF AddressOrNone
      <3> QED
        BY <3>1 DEF Unprotected, Deleted, AddressObjects
    <2>3. ASSUME NEW obj \in {Unprotected(now), Deleted(now)}, SetAddress(c, obj)
          PROVE  AddressUpdated \/ AddressDropped
      BY <1>1, <1>2, <1>4, <2>1, <2>2, <2>3 DEF AddressUpdated, AddressDropped, SameCreates
    <2> QED
      BY <1>4, <2>3
  <1> QED
    BY <1>1, <1>3, <1>4 DEF UnprotectAddress, DeleteAddress, Write, Fault, Reliable

\* A user's request removes an address only if it has been unprotected.
LEMMA RequestAddressDeletionUse ==
  ASSUME LInv, NEW c \in Claims, RequestAddressDeletion(c)
  PROVE  AddressUpdated \/ AddressDropped
  <1> DEFINE now == addrs[c]
  <1>1. /\ UNCHANGED <<addrCache, pc, job>>
        /\ TypeOK /\ now # None /\ SetAddress(c, Deleted(now))
        /\ addrs \in [Claims -> AddressOrNone]
    BY EventTypes DEF LInv, IInv, RequestAddressDeletion, cacheVars
  <1>2. now \in AddressObjects
    BY <1>1 DEF AddressOrNone
  <1>3. CASE now.fin
    <2> DEFINE obj == [now EXCEPT !.deleting = TRUE]
    <2>1. obj \in AddressObjects /\ obj.owner = now.owner /\ obj # None
      <3>1. obj \in AddressObjects /\ obj.owner = now.owner
        BY <1>2 DEF AddressObjects
      <3> QED
        BY <3>1, NoneAssumption
    <2>2. SetAddress(c, obj)
      BY <1>1, <1>3 DEF Deleted
    <2> HIDE DEF obj
    <2>3. SameCreates
      BY <1>1, <2>1, <2>2 DEF SameCreates, Creates, Allocating, SetAddress
    <2> QED
      BY <1>1, <2>1, <2>2, <2>3 DEF AddressUpdated
  <1>4. CASE ~now.fin
    <2>1. SetAddress(c, None)
      BY <1>1, <1>4 DEF Deleted
    <2>2. Leaving(c)
      BY <1>1, <1>4 DEF LInv, AddressesOwned, AddressOwned
    <2>3. addrCache[c] # None
      BY <1>1, <1>4, Busy DEF LInv, AddressesOwned, AddressOwned, ReconcileKnows, ServesCurrent, Normal
    <2>4. SameCreates
      BY <1>1, <1>4, <2>1 DEF SameCreates, Creates, Allocating, SetAddress, LInv, IInv,
         MissingIsProtected
    <2> QED
      BY <1>1, <2>1, <2>2, <2>3, <2>4 DEF AddressDropped
  <1> QED
    BY <1>3, <1>4

\* All other steps but the delivery of an address event and a restart leave
\* addresses alone.
LEMMA AddressUse ==
  ASSUME Reliable, LInv, UNCHANGED vars \/ Worker \/ DeliverClaimEvent \/ Environment
  PROVE  \/ AddressesKept \/ AddressCreated \/ AddressUpdated \/ AddressDropped
         \/ Crash
  <1> USE DEF apiVars, cacheVars, envVars, unifiVars
  <1>1. TypeOK
    BY DEF LInv, IInv
  <1>2. CASE /\ UNCHANGED <<addrs, addrCache, addrEvents>>
             /\ UNCHANGED <<pc, job>> \/ pc' = "idle"
    BY <1>2 DEF AddressesKept, SameCreates, Creates, Allocating
  <1>3. CASE UNCHANGED vars
    BY <1>2, <1>3 DEF vars
  <1>4. CASE \/ AddFinalizer \/ SetAddressRef \/ RemoveFinalizer
             \/ PoolChange \/ ClusterPauseChange \/ ForeignChange \/ DeliverClaimEvent
             \/ \E c \in Claims : CreateClaim(c) \/ RequestClaimDeletion(c)
    BY <1>2, <1>4 DEF AddFinalizer, SetAddressRef, RemoveFinalizer, PoolChange,
       ClusterPauseChange, ForeignChange, DeliverClaimEvent, CreateClaim, RequestClaimDeletion,
       Write, Fault, Reliable, Requeue, Done, Finish
  <1>5. CASE EnsureAddress \/ CreateUser \/ WaitForAddressInCache
    <2>1. UNCHANGED <<addrs, addrCache, addrEvents>>
      BY <1>5 DEF EnsureAddress, CreateUser, WaitForAddressInCache
    <2>2. CASE Requeue
      BY <1>2, <2>1, <2>2 DEF Requeue, Finish
    <2>3. CASE \E ip \in IPs \cup {NoIP} : Carry("createUser", ip) \/ Carry("writeAddress", ip)
      <3>1. CASE EnsureAddress
        <4>1. job \in Jobs /\ pc = "ensureAddress"
          BY <1>1, <3>1 DEF TypeOK, WorkerTypeOK, EnsureAddress
        <4>2. /\ pc' \in {"createUser", "writeAddress"}
              /\ job'.name = job.name /\ job'.claim = job.claim /\ job'.found = job.found
          BY <2>3, <4>1 DEF Carry, Jobs
        <4> QED
          BY <2>1, <4>1, <4>2 DEF AddressesKept, SameCreates, Creates, Allocating
      <3> QED
        BY <1>5, <2>1, <2>2, <3>1, <1>2 DEF CreateUser, WaitForAddressInCache, GoTo, Write, Fault,
           Requeue, Finish, AddressesKept, SameCreates, Creates, Allocating
    <2>4. CASE CreateUser \/ WaitForAddressInCache
      BY <2>1, <2>2, <2>4 DEF CreateUser, WaitForAddressInCache, GoTo, Write, Fault,
         AddressesKept, SameCreates, Creates, Allocating
    <2> QED
      BY <1>1, <1>5, <2>2, <2>3, <2>4, EnsureCases
  <1>6. CASE \/ \E c \in Claims : Reconcile(c) \/ RequestAddressDeletion(c)
             \/ WriteAddress \/ UnprotectAddress \/ DeleteAddress
    BY <1>6, ReconcileAddress, RequestAddressDeletionUse, WriteAddressUse, DropAddressUse
  <1> QED
    BY <1>3, <1>4, <1>5, <1>6 DEF Worker, Environment

\* A write keeps OneOwner when the address stays its owner's, goes, or is the first
\* of which there is a version.
LEMMA OneOwnerWritten ==
  ASSUME LInv, NEW c \in Claims, NEW obj \in AddressOrNone, SetAddress(c, obj),
         UNCHANGED addrCache,
         obj # None =>
           \/ addrs[c] # None /\ obj.owner = addrs[c].owner
           \/ addrCache[c] = None /\ \A i \in 1..Len(addrEvents) : addrEvents[i][1] # c
  PROVE  OneOwner'
  <1>1. TypeOK /\ OneOwner
    BY DEF LInv, IInv
  <1>2. /\ \A d \in Claims : addrs'[d] = IF d = c THEN obj ELSE addrs[d]
        /\ \A i \in 1..Len(addrEvents') :
             \/ i \in 1..Len(addrEvents) /\ addrEvents'[i] = addrEvents[i]
             \/ addrEvents'[i] = <<c, obj>>
    BY <1>1, SetAddressEffect
  <1> SUFFICES ASSUME NEW d \in Claims
               PROVE  /\ addrCache[d] # None /\ addrs'[d] # None => addrCache[d].owner = addrs'[d].owner
                      /\ \A i \in 1..Len(addrEvents') :
                           addrEvents'[i][1] = d /\ addrEvents'[i][2] # None =>
                             /\ addrCache[d] # None => addrEvents'[i][2].owner = addrCache[d].owner
                             /\ addrs'[d] # None => addrEvents'[i][2].owner = addrs'[d].owner
    BY DEF OneOwner
  <1>3. addrCache[d] # None /\ addrs'[d] # None => addrCache[d].owner = addrs'[d].owner
    BY <1>1, <1>2 DEF OneOwner
  <1>4. ASSUME NEW i \in 1..Len(addrEvents'), addrEvents'[i][1] = d, addrEvents'[i][2] # None
        PROVE  /\ addrCache[d] # None => addrEvents'[i][2].owner = addrCache[d].owner
               /\ addrs'[d] # None => addrEvents'[i][2].owner = addrs'[d].owner
    <2>1. CASE i \in 1..Len(addrEvents) /\ addrEvents'[i] = addrEvents[i]
      BY <1>1, <1>2, <1>4, <2>1 DEF OneOwner
    <2>2. CASE addrEvents'[i] = <<c, obj>>
      BY <1>2, <1>3, <1>4, <2>2
    <2> QED
      BY <1>2, <2>1, <2>2
  <1> QED
    BY <1>3, <1>4

\* The delivery of an event keeps it: an address that neither the server nor the
\* cache has is gone, and the cache has seen so.
LEMMA OneOwnerDelivered ==
  ASSUME LInv, DeliverAddressEvent
  PROVE  OneOwner'
  <1>1. /\ TypeOK /\ OneOwner /\ EventInv /\ addrEvents # << >>
        /\ UNCHANGED addrs /\ addrEvents' = Tail(addrEvents)
    BY DEF LInv, IInv, DeliverAddressEvent
  <1>2. /\ addrEvents \in Seq(Claims \X AddressOrNone)
        /\ \A d \in Claims : addrCache'[d] =
             IF Head(addrEvents)[1] = d THEN Head(addrEvents)[2] ELSE addrCache[d]
    BY <1>1, EventTypes DEF DeliverAddressEvent
  <1>3. /\ Head(addrEvents) = addrEvents[1] /\ 1 \in 1..Len(addrEvents)
        /\ \A i \in 1..Len(addrEvents') :
             i + 1 \in 1..Len(addrEvents) /\ addrEvents'[i] = addrEvents[i + 1]
    BY <1>1, <1>2, RestDelivered, FirstDelivered
  <1>4. ASSUME NEW d \in Claims, NEW i \in 1..Len(addrEvents), NEW j \in 1..Len(addrEvents),
               addrEvents[i][1] = d, addrEvents[j][1] = d,
               addrEvents[i][2] # None, addrEvents[j][2] # None
        PROVE  addrEvents[i][2].owner = addrEvents[j][2].owner
    <2>1. CASE addrs[d] # None \/ addrCache[d] # None
      BY <1>1, <1>4, <2>1 DEF OneOwner
    <2>2. CASE addrs[d] = None /\ addrCache[d] = None
      <3>1. PICK k \in 1..Len(addrEvents) : addrEvents[k] = <<d, addrs[d]>>
        BY <1>1, <1>4 DEF EventInv, CacheCatchesUp
      <3>2. addrEvents[k][1] = d /\ addrEvents[k][2] = None
        BY <2>2, <3>1
      <3> QED
        BY <1>1, <2>2, <3>2 DEF EventInv, NewIsProtected, Protected
    <2> QED
      BY <2>1, <2>2
  <1> SUFFICES ASSUME NEW d \in Claims
               PROVE  /\ addrCache'[d] # None /\ addrs[d] # None => addrCache'[d].owner = addrs[d].owner
                      /\ \A i \in 1..Len(addrEvents') :
                           addrEvents'[i][1] = d /\ addrEvents'[i][2] # None =>
                             /\ addrCache'[d] # None => addrEvents'[i][2].owner = addrCache'[d].owner
                             /\ addrs[d] # None => addrEvents'[i][2].owner = addrs[d].owner
    BY <1>1 DEF OneOwner
  <1>5. addrCache'[d] # None /\ addrs[d] # None => addrCache'[d].owner = addrs[d].owner
    BY <1>1, <1>2, <1>3 DEF OneOwner
  <1>6. ASSUME NEW i \in 1..Len(addrEvents'), addrEvents'[i][1] = d, addrEvents'[i][2] # None
        PROVE  /\ addrCache'[d] # None => addrEvents'[i][2].owner = addrCache'[d].owner
               /\ addrs[d] # None => addrEvents'[i][2].owner = addrs[d].owner
    <2>1. i + 1 \in 1..Len(addrEvents) /\ addrEvents'[i] = addrEvents[i + 1]
      BY <1>3
    <2>2. addrs[d] # None => addrEvents'[i][2].owner = addrs[d].owner
      BY <1>1, <1>6, <2>1 DEF OneOwner
    <2>3. CASE addrEvents[1][1] # d
      BY <1>1, <1>2, <1>3, <1>6, <2>1, <2>2, <2>3 DEF OneOwner
    <2>4. CASE addrEvents[1][1] = d
      BY <1>2, <1>3, <1>4, <1>6, <2>1, <2>2, <2>4
    <2> QED
      BY <2>3, <2>4
  <1> QED
    BY <1>5, <1>6

\* And so does every other step.
LEMMA OneOwnerNext ==
  ASSUME Reliable, LInv, [Next]_vars
  PROVE  OneOwner'
  <1>1. TypeOK /\ OneOwner
    BY DEF LInv, IInv
  <1>2. \A obj \in AddressObjects : obj \in AddressOrNone
    BY DEF AddressOrNone
  <1>3. CASE AddressesKept
    BY <1>1, <1>3 DEF AddressesKept, OneOwner
  <1>4. CASE AddressCreated
    <2>1. job.name \in Claims
      BY <1>1, <1>4, Busy DEF AddressCreated, Creates, Allocating
    <2> QED
      BY <1>2, <1>4, <2>1, OneOwnerWritten DEF AddressCreated
  <1>5. CASE AddressUpdated
    BY <1>2, <1>5, OneOwnerWritten DEF AddressUpdated
  <1>6. CASE AddressDropped
    <2>1. None \in AddressOrNone
      BY DEF AddressOrNone
    <2> QED
      BY <1>6, <2>1, OneOwnerWritten DEF AddressDropped
  <1>7. CASE DeliverAddressEvent
    BY <1>7, OneOwnerDelivered
  <1>8. CASE Crash
    BY <1>8 DEF Crash, OneOwner
  <1> QED
    BY <1>3, <1>4, <1>5, <1>6, <1>7, <1>8, AddressUse DEF Next

\* A claim that leaves goes on leaving until it has gone.
LEMMA LeavingStays ==
  ASSUME Reliable, LInv, [Next]_vars, NEW d \in Claims, Leaving(d)
  PROVE  claims'[d] = None \/ Leaving(d)'
  <1> USE DEF apiVars, cacheVars, envVars, unifiVars
  <1>1. /\ TypeOK /\ ClaimInv /\ AddressesOwned
        /\ claims[d] # None /\ claims[d].fin /\ claims[d].deleting
        /\ \A c \in Claims : claims[c] # None => claims[c] \in ClaimObjects
    BY DEF LInv, IInv, ClaimInv, Leaving, TypeOK, ApiTypeOK
  <1>2. CASE UNCHANGED <<claims, claimCache, claimEvents>>
    BY <1>2 DEF Leaving, ClaimVersions, ClaimAt
  <1>3. CASE DeliverClaimEvent \/ Crash
    BY <1>1, <1>3, ClaimDelivered, AfterCrash
  <1>4. ASSUME NEW c \in Claims, NEW obj \in ClaimOrNone, SetClaim(c, obj), UNCHANGED claimCache,
               c = d => obj = None \/ (obj.uid = claims[d].uid /\ obj.fin /\ obj.deleting)
        PROVE  claims'[d] = None \/ Leaving(d)'
    <2>1. /\ claims'[d] = IF d = c THEN obj ELSE claims[d]
          /\ \A i \in Versions(claimEvents', d) :
               \/ /\ i \in ClaimVersions(d)
                  /\ Version(claimCache', claimEvents', d, i) = ClaimAt(d, i)
               \/ d = c /\ Version(claimCache', claimEvents', d, i) = obj
      BY <1>1, <1>4, ClaimWritten
    <2> SUFFICES ASSUME claims'[d] # None PROVE Leaving(d)'
      OBVIOUS
    <2>2. claims'[d].uid = claims[d].uid /\ claims'[d].fin /\ claims'[d].deleting
      BY <1>1, <1>4, <2>1
    <2>3. ASSUME NEW i \in Versions(claimEvents', d)
          PROVE  LET v == Version(claimCache', claimEvents', d, i) IN
                 Current(claims'[d], v) /\ v.fin /\ v.deleting
      <3>1. CASE i \in ClaimVersions(d) /\ Version(claimCache', claimEvents', d, i) = ClaimAt(d, i)
        BY <1>1, <2>2, <3>1 DEF Leaving, Current
      <3>2. CASE d = c /\ Version(claimCache', claimEvents', d, i) = obj
        BY <2>1, <2>2, <3>2 DEF Current
      <3> QED
        BY <2>1, <3>1, <3>2
    <2> QED
      BY <2>2, <2>3 DEF Leaving, ClaimVersions, ClaimAt
  <1>5. ASSUME NEW now \in ClaimObjects
        PROVE  /\ LET obj == [now EXCEPT !.fin = TRUE] IN
                    obj \in ClaimObjects /\ obj.uid = now.uid /\ obj.fin /\ obj.deleting = now.deleting
               /\ LET obj == [now EXCEPT !.ref = TRUE] IN
                    obj \in ClaimObjects /\ obj.uid = now.uid /\ obj.fin = now.fin
                    /\ obj.deleting = now.deleting
               /\ now.deleting => Unprotected(now) = None
               /\ Unprotected(now) \in ClaimOrNone /\ Deleted(now) \in ClaimOrNone
    BY DEF ClaimObjects, ClaimOrNone, Unprotected, Deleted
  <1>6. \A obj \in ClaimObjects : obj \in ClaimOrNone
    BY DEF ClaimOrNone
  <1>7. CASE AddFinalizer \/ SetAddressRef \/ RemoveFinalizer
    <2> DEFINE c == job.name
               now == claims[c]
    <2>1. c \in Claims /\ UNCHANGED claimCache
      BY <1>1, <1>7, Busy DEF AddFinalizer, SetAddressRef, RemoveFinalizer
    <2>2. \/ UNCHANGED <<claims, claimCache, claimEvents>>
          \/ /\ now # None
             /\ \/ SetClaim(c, [now EXCEPT !.fin = TRUE])
                \/ SetClaim(c, [now EXCEPT !.ref = TRUE])
                \/ SetClaim(c, Unprotected(now))
      BY <1>7 DEF AddFinalizer, SetAddressRef, RemoveFinalizer, Write, Fault, Reliable
    <2>3. ASSUME now # None, NEW obj,
                 \/ obj = [now EXCEPT !.fin = TRUE]
                 \/ obj = [now EXCEPT !.ref = TRUE]
                 \/ obj = Unprotected(now)
          PROVE  /\ obj \in ClaimOrNone
                 /\ c = d => obj = None \/ (obj.uid = claims[d].uid /\ obj.fin /\ obj.deleting)
      <3>1. now \in ClaimObjects
        BY <1>1, <2>1, <2>3
      <3>2. obj \in ClaimOrNone
        BY <1>5, <1>6, <2>3, <3>1
      <3>3. ASSUME now.fin, now.deleting
            PROVE  obj = None \/ (obj.uid = now.uid /\ obj.fin /\ obj.deleting)
        <4>1. CASE obj = Unprotected(now)
          BY <1>5, <3>1, <3>3, <4>1
        <4>2. CASE obj # Unprotected(now)
          BY <1>5, <2>3, <3>1, <3>3, <4>2
        <4> QED
          BY <4>1, <4>2
      <3>4. c = d => now = claims[d]
        OBVIOUS
      <3> QED
        BY <1>1, <3>2, <3>3, <3>4
    <2> QED
      BY <1>2, <1>4, <2>1, <2>2, <2>3
  <1>8. ASSUME NEW c \in Claims, CreateClaim(c) \/ RequestClaimDeletion(c)
        PROVE  claims'[d] = None \/ Leaving(d)'
    <2>1. c # d /\ UNCHANGED claimCache
      BY <1>1, <1>8 DEF CreateClaim, RequestClaimDeletion
    <2>2. Claim(made[c] + 1) \in ClaimOrNone
      BY <1>1, ClaimTypes DEF TypeOK, EnvTypeOK, ClaimOrNone, Claim
    <2>3. \E obj \in ClaimOrNone : SetClaim(c, obj)
      BY <1>1, <1>5, <1>8, <2>2 DEF CreateClaim, RequestClaimDeletion
    <2> QED
      BY <1>4, <2>1, <2>3
  <1>9. CASE \/ UNCHANGED vars \/ \E c \in Claims : Reconcile(c) \/ RequestAddressDeletion(c)
             \/ EnsureAddress \/ CreateUser \/ WaitForAddressInCache
             \/ WriteAddress \/ UnprotectAddress \/ DeleteAddress
             \/ DeliverAddressEvent \/ PoolChange \/ ClusterPauseChange \/ ForeignChange
    BY <1>2, <1>9 DEF vars, Reconcile, RequestAddressDeletion, EnsureAddress, CreateUser,
       WaitForAddressInCache, WriteAddress, Create, Patch, UnprotectAddress, DeleteAddress,
       DeliverAddressEvent, PoolChange, ClusterPauseChange, ForeignChange
  <1> QED
    BY <1>3, <1>7, <1>8, <1>9 DEF Next, Worker, Environment

\* A claim stays of its incarnation, or goes.
SameIncarnation(c) ==
  /\ made'[c] = made[c]
  /\ claims'[c] # None => claims[c] # None /\ claims'[c].uid = claims[c].uid

\* A claim that is created is of the next incarnation.
NextIncarnation(c) ==
  /\ claims[c] = None /\ made[c] < MaxIncarnations
  /\ made'[c] = made[c] + 1
  /\ claims'[c] # None => claims'[c].uid = made[c] + 1

\* Every step does the one or the other to every claim.
LEMMA ClaimUse ==
  ASSUME Reliable, LInv, [Next]_vars, NEW d \in Claims
  PROVE  SameIncarnation(d) \/ NextIncarnation(d)
  <1> USE DEF apiVars, cacheVars, envVars, unifiVars
  <1>1. /\ TypeOK /\ made \in [Claims -> Nat]
        /\ claims \in [Claims -> ClaimObjects \cup {None}]
    BY DEF LInv, IInv, TypeOK, ApiTypeOK, EnvTypeOK
  <1>2. CASE UNCHANGED <<claims, made>>
    BY <1>2 DEF SameIncarnation
  <1>3. ASSUME NEW c \in Claims, NEW obj, SetClaim(c, obj), UNCHANGED made,
               claims[c] # None, obj # None => obj.uid = claims[c].uid
        PROVE  SameIncarnation(d)
    BY <1>1, <1>3 DEF SameIncarnation, SetClaim
  <1>4. ASSUME NEW now \in ClaimObjects
        PROVE  /\ [now EXCEPT !.fin = TRUE].uid = now.uid
               /\ [now EXCEPT !.ref = TRUE].uid = now.uid
               /\ Deleted(now) # None => Deleted(now).uid = now.uid
               /\ Unprotected(now) # None => Unprotected(now).uid = now.uid
    BY DEF ClaimObjects, Deleted, Unprotected
  <1>5. CASE AddFinalizer \/ SetAddressRef \/ RemoveFinalizer
    <2> DEFINE c == job.name
    <2>1. c \in Claims /\ UNCHANGED made
      BY <1>1, <1>5, Busy DEF AddFinalizer, SetAddressRef, RemoveFinalizer
    <2>2. \/ UNCHANGED claims
          \/ claims[c] # None /\ SetClaim(c, [claims[c] EXCEPT !.fin = TRUE])
          \/ claims[c] # None /\ SetClaim(c, [claims[c] EXCEPT !.ref = TRUE])
          \/ claims[c] # None /\ SetClaim(c, Unprotected(claims[c]))
      BY <1>5 DEF AddFinalizer, SetAddressRef, RemoveFinalizer, Write, Fault, Reliable
    <2> QED
      BY <1>1, <1>2, <1>3, <1>4, <2>1, <2>2
  <1>6. ASSUME NEW c \in Claims, RequestClaimDeletion(c)
        PROVE  SameIncarnation(d)
    BY <1>1, <1>3, <1>4, <1>6 DEF RequestClaimDeletion
  <1>7. ASSUME NEW c \in Claims, CreateClaim(c)
        PROVE  SameIncarnation(d) \/ NextIncarnation(d)
    BY <1>1, <1>7 DEF CreateClaim, SetClaim, Claim, SameIncarnation, NextIncarnation
  <1>8. CASE \/ \E c \in Claims : Reconcile(c) \/ RequestAddressDeletion(c)
             \/ EnsureAddress \/ CreateUser \/ WriteAddress \/ WaitForAddressInCache
             \/ UnprotectAddress \/ DeleteAddress \/ DeliverClaimEvent
             \/ DeliverAddressEvent \/ PoolChange \/ ClusterPauseChange \/ ForeignChange \/ Crash
    BY <1>2, <1>8 DEF Reconcile, RequestAddressDeletion, EnsureAddress, CreateUser,
       WriteAddress, Create, Patch, WaitForAddressInCache, UnprotectAddress, DeleteAddress,
       DeliverClaimEvent, DeliverAddressEvent, PoolChange, ClusterPauseChange, ForeignChange, Crash
  <1> QED
    BY <1>2, <1>5, <1>6, <1>7, <1>8 DEF Next, Worker, Environment, vars

-----------------------------------------------------------------------------
(* LInv is inductive.                                                         *)

\* It holds at the start, where there is nothing.
LEMMA LInvInit == Init => LInv
  <1> SUFFICES ASSUME Init PROVE LInv
    OBVIOUS
  <1>1. IInv
    BY IInvInit
  <1>2. /\ \A c \in Claims : claims[c] = None /\ addrs[c] = None /\ claims[c] = claimCache[c]
        /\ claimCache = claims /\ addrCache = addrs
        /\ claimEvents = << >> /\ addrEvents = << >> /\ job = None
    BY DEF Init
  <1>3. ASSUME NEW c \in Claims
        PROVE  /\ \A i \in ClaimVersions(c) : ClaimAt(c, i) = None
               /\ \A i \in AddressVersions(c) : AddressAt(c, i) = None
    BY <1>2 DEF ClaimVersions, AddressVersions, Versions, ClaimAt, AddressAt, Version
  <1>4. FreshUIDs /\ VersionsFollow /\ FinishedFirst
    BY <1>2, <1>3 DEF FreshUIDs, VersionsFollow, FinishedFirst, Current, Finished
  <1>5. ReconcileKnows /\ BoundClaimIsServed
    BY <1>2 DEF ReconcileKnows, BoundClaimIsServed
  <1>6. AddressesOwned
    BY <1>2, <1>3 DEF AddressesOwned, AddressOwned, VersionsOwned
  <1>7. OneOwner
    BY <1>2 DEF OneOwner
  <1> QED
    BY <1>1, <1>4, <1>5, <1>6, <1>7 DEF LInv

\* And every step keeps it.
LEMMA LInvNext == Reliable /\ LInv /\ [Next]_vars => LInv'
  <1> SUFFICES ASSUME Reliable, LInv, [Next]_vars PROVE LInv'
    OBVIOUS
  <1>1. IInv' /\ OneOwner'
    BY IInvNext, OneOwnerNext DEF LInv
  <1> SUFFICES LRest'
    BY <1>1 DEF LInv, LRest, ClaimInv
  <1>2. CASE UNCHANGED <<claims, claimCache, claimEvents, addrs, addrCache, addrEvents, made,
                         pc, job>>
    <2>1. ReconcileKnows'
      BY <1>2 DEF LInv, ReconcileKnows, AddsToNew, NoneFinished, DeletesLeaving, Leaving,
         ClaimVersions, ClaimAt, ServesCurrent, AddressThereOrGone
    <2> QED
      BY <1>2, <2>1, StoreUnchanged
  <1>3. CASE UNCHANGED vars \/ PoolChange \/ ClusterPauseChange \/ ForeignChange
    BY <1>2, <1>3 DEF vars, PoolChange, ClusterPauseChange, ForeignChange, apiVars, cacheVars
  <1>4. CASE Worker
    BY <1>4, ReconcileLease, AddFinalizerLease, ServeLease, WriteAddressLease,
       SetAddressRefLease, DropAddressLease, RemoveFinalizerLease DEF Worker
  <1>5. CASE DeliverClaimEvent \/ DeliverAddressEvent
    BY <1>5, DeliverClaimLease, DeliverAddressLease
  <1>6. CASE Environment
    BY <1>3, <1>6, CrashLease, CreateClaimLease, RequestClaimDeletionLease,
       RequestAddressDeletionLease DEF Environment
  <1> QED
    BY <1>3, <1>4, <1>5, <1>6 DEF Next

-----------------------------------------------------------------------------
(* The invariants.                                                            *)

\* The inductive invariant holds of every behaviour, with any number of claims,
\* incarnations, failed requests, restarts and changes of pool and cluster.
THEOREM LeasesAreSound ==
  ASSUME Reliable
  PROVE  Spec => []LInv
  <1>1. Init => LInv
    BY LInvInit
  <1>2. LInv /\ [Next]_vars => LInv'
    BY LInvNext
  <1> QED
    BY <1>1, <1>2, PTL DEF Spec

\* No address outlives its claim: when reconcileDelete sees no address in its
\* cache, there is none.
THEOREM NoOrphans ==
  ASSUME Reliable
  PROVE  Spec => []NoOrphanAddress
  <1>1. LInv => NoOrphanAddress
    BY DEF LInv, AddressesOwned, AddressOwned, NoOrphanAddress
  <1> QED
    BY <1>1, LeasesAreSound, PTL

\* A live claim with a status.addressRef has a protected address of its own
\* incarnation, whatever incarnation the caches showed to reconcileNormal.
THEOREM BoundClaimsAreServed ==
  ASSUME Reliable
  PROVE  Spec => []BoundClaimIsServed
  <1>1. LInv => BoundClaimIsServed
    BY DEF LInv
  <1> QED
    BY <1>1, LeasesAreSound, PTL

-----------------------------------------------------------------------------
(* What a step may do to an address, and the contract.                        *)

\* An address appears protected, for a claim that is there; and it is unprotected
\* or removed only when its claim leaves.
AddressMoves ==
  \E c \in Claims : \E obj \in AddressOrNone :
    /\ addrs' = [addrs EXCEPT ![c] = obj]
    /\ UNCHANGED <<claims, users>>
    /\ claims[c] # None
    /\ (obj # None /\ obj.fin) \/ (addrs[c] # None /\ Leaving(c))

\* A claim appears undeleted, is not undeleted, and goes without an address.
ClaimMoves ==
  \E c \in Claims : \E obj \in ClaimOrNone :
    /\ claims' = [claims EXCEPT ![c] = obj]
    /\ UNCHANGED addrs
    /\ claims[c] = None => obj = None \/ ~obj.deleting
    /\ claims[c] # None /\ claims[c].deleting => obj = None \/ obj.deleting
    /\ claims[c] # None /\ obj = None => addrs[c] = None

\* An address is written or dropped in one of those ways.
LEMMA AddressSteps ==
  ASSUME Reliable, LInv,
         \/ WriteAddress \/ UnprotectAddress \/ DeleteAddress
         \/ \E c \in Claims : RequestAddressDeletion(c)
  PROVE  UNCHANGED <<claims, addrs>> \/ AddressMoves
  <1> USE DEF apiVars, cacheVars, envVars, unifiVars
  <1>1. /\ UNCHANGED <<claims, users>> /\ TypeOK
        /\ addrs \in [Claims -> AddressOrNone]
    BY EventTypes DEF LInv, IInv, WriteAddress, Create, Patch, UnprotectAddress, DeleteAddress,
       RequestAddressDeletion
  <1>2. ASSUME NEW c \in Claims, claims[c] # None, NEW obj \in AddressOrNone, SetAddress(c, obj),
               (obj # None /\ obj.fin) \/ (addrs[c] # None /\ Leaving(c))
        PROVE  AddressMoves
    BY <1>1, <1>2 DEF AddressMoves, SetAddress
  <1>3. CASE WriteAddress
    <2> DEFINE c == job.name
               new == [ip |-> job.ip, owner |-> job.claim.uid, fin |-> TRUE, deleting |-> FALSE]
               patched == [addrs[c] EXCEPT
                 !.ip    = IF job.ip # job.found.ip THEN job.ip ELSE @,
                 !.owner = job.claim.uid,
                 !.fin   = TRUE]
    <2>1. /\ c \in Claims /\ job # None /\ pc = "writeAddress"
          /\ job.ip \in IPs \cup {NoIP} /\ job.claim.uid \in Nat
      BY <1>1, <1>3, Busy, JobTypes DEF WriteAddress
    <2>2. claims[c] # None
      BY <2>1 DEF LInv, ReconcileKnows, ServesCurrent, Normal, Current
    <2>3. new \in AddressObjects /\ new.fin
      BY <2>1 DEF AddressObjects
    <2>4. addrs[c] # None => patched \in AddressObjects /\ patched.fin
      BY <1>1, <2>1 DEF AddressObjects, AddressOrNone
    <2>5. UNCHANGED <<addrs, claims>> \/ SetAddress(c, new)
          \/ (addrs[c] # None /\ SetAddress(c, patched))
      BY <1>1, <1>3 DEF WriteAddress, Create, Patch, Write, Fault, Reliable
    <2> HIDE DEF new, patched
    <2>6. \A x \in AddressObjects : x \in AddressOrNone /\ x # None
      BY NoneAssumption DEF AddressOrNone
    <2> QED
      BY <1>2, <2>1, <2>2, <2>3, <2>4, <2>5, <2>6
  <1>4. CASE UnprotectAddress \/ DeleteAddress
    <2> DEFINE c == job.name
    <2>1. /\ c \in Claims /\ job # None /\ pc \in Deletion
      BY <1>1, <1>4, Busy DEF UnprotectAddress, DeleteAddress, Deletion
    <2>2. addrs[c] # None => claims[c] # None /\ Leaving(c)
      BY <2>1 DEF LInv, AddressesOwned, AddressOwned, ReconcileKnows, DeletesLeaving
    <2>3. addrs[c] # None => Unprotected(addrs[c]) \in AddressOrNone /\ Deleted(addrs[c]) \in AddressOrNone
      BY <1>1, <2>1, AddressTypes DEF AddressOrNone
    <2>4. \/ UNCHANGED <<addrs, claims>>
          \/ /\ addrs[c] # None
             /\ SetAddress(c, Unprotected(addrs[c])) \/ SetAddress(c, Deleted(addrs[c]))
      BY <1>1, <1>4 DEF UnprotectAddress, DeleteAddress, Write, Fault, Reliable
    <2> QED
      BY <1>2, <2>1, <2>2, <2>3, <2>4
  <1>5. ASSUME NEW c \in Claims, RequestAddressDeletion(c)
        PROVE  AddressMoves
    <2> DEFINE obj == Deleted(addrs[c])
    <2>1. addrs[c] \in AddressObjects /\ SetAddress(c, obj) /\ addrs[c] # None
      BY <1>1, <1>5 DEF RequestAddressDeletion, AddressOrNone
    <2>2. obj \in AddressOrNone
      BY <2>1, AddressTypes
    <2>3. claims[c] # None /\ (addrs[c].fin \/ Leaving(c))
      BY <2>1 DEF LInv, AddressesOwned, AddressOwned
    <2>4. addrs[c].fin => obj # None /\ obj.fin
      <3>1. [addrs[c] EXCEPT !.deleting = TRUE] \in AddressObjects
        BY <2>1 DEF AddressObjects
      <3>2. [addrs[c] EXCEPT !.deleting = TRUE].fin = addrs[c].fin
        BY <2>1 DEF AddressObjects
      <3> QED
        BY <3>1, <3>2, NoneAssumption DEF Deleted
    <2> HIDE DEF obj
    <2> QED
      BY <1>2, <2>1, <2>2, <2>3, <2>4
  <1> QED
    BY <1>3, <1>4, <1>5

\* A claim is written, removed or created in one of those ways.
LEMMA ClaimSteps ==
  ASSUME Reliable, LInv,
         \/ AddFinalizer \/ SetAddressRef \/ RemoveFinalizer
         \/ \E c \in Claims : CreateClaim(c) \/ RequestClaimDeletion(c)
  PROVE  UNCHANGED <<claims, addrs>> \/ ClaimMoves
  <1> USE DEF apiVars, cacheVars, envVars, unifiVars
  <1>1. /\ UNCHANGED addrs /\ TypeOK
        /\ claims \in [Claims -> ClaimOrNone]
    BY DEF LInv, IInv, TypeOK, ApiTypeOK, ClaimOrNone, AddFinalizer, SetAddressRef,
       RemoveFinalizer, CreateClaim, RequestClaimDeletion
  <1>2. ASSUME NEW c \in Claims, NEW obj \in ClaimOrNone, SetClaim(c, obj),
               claims[c] = None => obj = None \/ ~obj.deleting,
               claims[c] # None /\ claims[c].deleting => obj = None \/ obj.deleting,
               claims[c] # None /\ obj = None => addrs[c] = None
        PROVE  ClaimMoves
    BY <1>1, <1>2 DEF ClaimMoves, SetClaim
  <1>3. ASSUME NEW now \in ClaimObjects
        PROVE  /\ now # None
               /\ LET obj == [now EXCEPT !.fin = TRUE] IN
                    obj \in ClaimOrNone /\ obj # None /\ obj.deleting = now.deleting
               /\ LET obj == [now EXCEPT !.ref = TRUE] IN
                    obj \in ClaimOrNone /\ obj # None /\ obj.deleting = now.deleting
               /\ Deleted(now) \in ClaimOrNone
               /\ IF now.fin THEN Deleted(now) # None /\ Deleted(now).deleting
                  ELSE Deleted(now) = None
               /\ Unprotected(now) \in ClaimOrNone
               /\ IF now.deleting THEN Unprotected(now) = None
                  ELSE Unprotected(now) # None /\ ~Unprotected(now).deleting
    <2>1. \A x \in ClaimObjects : x \in ClaimOrNone /\ x # None
      BY NoneAssumption DEF ClaimOrNone
    <2>2. /\ [now EXCEPT !.fin = TRUE] \in ClaimObjects
          /\ [now EXCEPT !.fin = TRUE].deleting = now.deleting
      BY DEF ClaimObjects
    <2>3. /\ [now EXCEPT !.ref = TRUE] \in ClaimObjects
          /\ [now EXCEPT !.ref = TRUE].deleting = now.deleting
      BY DEF ClaimObjects
    <2>4. /\ [now EXCEPT !.deleting = TRUE] \in ClaimObjects
          /\ [now EXCEPT !.deleting = TRUE].deleting
      BY DEF ClaimObjects
    <2>5. /\ [now EXCEPT !.fin = FALSE] \in ClaimObjects
          /\ [now EXCEPT !.fin = FALSE].deleting = now.deleting
      BY DEF ClaimObjects
    <2>6. None \in ClaimOrNone
      BY DEF ClaimOrNone
    <2> QED
      BY <2>1, <2>2, <2>3, <2>4, <2>5, <2>6 DEF Deleted, Unprotected
  <1>4. ASSUME pc # "idle" PROVE job.name \in Claims /\ job # None
    BY <1>1, <1>4, Busy
  <1>5. CASE AddFinalizer
    <2> DEFINE c == job.name
    <2>1. \/ UNCHANGED <<claims, addrs>>
          \/ claims[c] # None /\ SetClaim(c, [claims[c] EXCEPT !.fin = TRUE])
      BY <1>1, <1>5 DEF AddFinalizer, Write, Fault, Reliable
    <2>2. c \in Claims /\ (claims[c] # None => claims[c] \in ClaimObjects)
      BY <1>1, <1>4, <1>5 DEF AddFinalizer, ClaimOrNone
    <2> QED
      BY <1>2, <1>3, <2>1, <2>2
  <1>6. CASE SetAddressRef
    <2> DEFINE c == job.name
    <2>1. \/ UNCHANGED <<claims, addrs>>
          \/ claims[c] # None /\ SetClaim(c, [claims[c] EXCEPT !.ref = TRUE])
      BY <1>1, <1>6 DEF SetAddressRef, Write, Fault, Reliable
    <2>2. c \in Claims /\ (claims[c] # None => claims[c] \in ClaimObjects)
      BY <1>1, <1>4, <1>6 DEF SetAddressRef, ClaimOrNone
    <2> QED
      BY <1>2, <1>3, <2>1, <2>2
  <1>7. CASE RemoveFinalizer
    <2> DEFINE c == job.name
    <2>1. \/ UNCHANGED <<claims, addrs>>
          \/ claims[c] # None /\ SetClaim(c, Unprotected(claims[c]))
      BY <1>1, <1>7 DEF RemoveFinalizer, Write, Fault, Reliable
    <2>2. c \in Claims /\ (claims[c] # None => claims[c] \in ClaimObjects)
      BY <1>1, <1>4, <1>7 DEF RemoveFinalizer, ClaimOrNone
    <2>3. addrs[c] = None
      BY <1>4, <1>7 DEF RemoveFinalizer, LInv, ReconcileKnows, AddressThereOrGone
    <2> QED
      BY <1>2, <1>3, <2>1, <2>2, <2>3
  <1>8. ASSUME NEW c \in Claims, CreateClaim(c) PROVE ClaimMoves
    <2> DEFINE obj == Claim(made[c] + 1)
    <2>1. /\ obj \in ClaimObjects /\ ~obj.deleting
          /\ claims[c] = None /\ SetClaim(c, obj)
      BY <1>1, <1>8, ClaimTypes DEF CreateClaim, Claim, TypeOK, EnvTypeOK
    <2> HIDE DEF obj
    <2>2. obj \in ClaimOrNone
      BY <2>1 DEF ClaimOrNone
    <2> QED
      BY <1>2, <2>1, <2>2
  <1>9. ASSUME NEW c \in Claims, RequestClaimDeletion(c) PROVE ClaimMoves
    <2>1. claims[c] # None /\ claims[c] \in ClaimObjects /\ SetClaim(c, Deleted(claims[c]))
      BY <1>1, <1>9 DEF RequestClaimDeletion, ClaimOrNone
    <2>2. ~claims[c].fin => addrs[c] = None
      BY DEF LInv, AddressesOwned, AddressOwned
    <2> QED
      BY <1>2, <1>3, <2>1, <2>2
  <1> QED
    BY <1>5, <1>6, <1>7, <1>8, <1>9

\* No other step touches claims or addresses.
LEMMA Moves ==
  ASSUME Reliable, LInv, [Next]_vars
  PROVE  UNCHANGED <<claims, addrs>> \/ AddressMoves \/ ClaimMoves
  <1>1. CASE UNCHANGED vars
    BY <1>1 DEF vars
  <1>2. CASE \/ \E c \in Claims : Reconcile(c)
             \/ EnsureAddress \/ CreateUser \/ WaitForAddressInCache
             \/ DeliverClaimEvent \/ DeliverAddressEvent
             \/ PoolChange \/ ClusterPauseChange \/ ForeignChange \/ Crash
    BY <1>2 DEF Reconcile, EnsureAddress, CreateUser, WaitForAddressInCache, apiVars,
       DeliverClaimEvent, DeliverAddressEvent, PoolChange, ClusterPauseChange, ForeignChange, Crash
  <1>3. CASE \/ WriteAddress \/ UnprotectAddress \/ DeleteAddress
             \/ \E c \in Claims : RequestAddressDeletion(c)
    BY <1>3, AddressSteps
  <1>4. CASE \/ AddFinalizer \/ SetAddressRef \/ RemoveFinalizer
             \/ \E c \in Claims : CreateClaim(c) \/ RequestClaimDeletion(c)
    BY <1>4, ClaimSteps
  <1> QED
    BY <1>1, <1>2, <1>3, <1>4 DEF Next, Worker, Environment

\* An address keeps its finalizer, and stays, until the deletion of its claim has
\* been requested.
THEOREM AddressesStayProtected ==
  ASSUME Reliable
  PROVE  Spec => AddressProtected
  <1> DEFINE Kept == \A c \in Claims :
               addrs[c] # None /\ addrs[c].fin /\ (addrs'[c] # None => ~addrs'[c].fin) =>
                 claims[c] = None \/ claims[c].deleting
  <1>1. LInv /\ [Next]_vars => Kept
    <2> SUFFICES ASSUME LInv, [Next]_vars, NEW c \in Claims,
                        addrs[c] # None, addrs[c].fin, addrs'[c] # None => ~addrs'[c].fin
                 PROVE  claims[c].deleting
      OBVIOUS
    <2>1. addrs \in [Claims -> AddressOrNone]
      BY EventTypes DEF LInv, IInv
    <2>2. CASE AddressMoves
      <3>1. PICK d \in Claims : \E obj \in AddressOrNone :
              /\ addrs' = [addrs EXCEPT ![d] = obj]
              /\ (obj # None /\ obj.fin) \/ (addrs[d] # None /\ Leaving(d))
        BY <2>2 DEF AddressMoves
      <3>2. c = d /\ Leaving(c)
        BY <2>1, <3>1
      <3> QED
        BY <3>2 DEF Leaving
    <2>3. CASE ClaimMoves
      BY <2>3 DEF ClaimMoves
    <2> QED
      BY <2>2, <2>3, Moves
  <1>2. Spec => []LInv
    BY LeasesAreSound
  <1>3. Spec => [][Kept]_vars
    <2> HIDE DEF Kept
    <2> QED
      BY <1>1, <1>2, PTL DEF Spec
  <1> QED
    BY <1>3 DEF AddressProtected

\* The lease of each claim and its phase, as ImplementsContract has them.
Leased == [c \in Claims |-> Lease(c)]
Phase  == [c \in Claims |-> PhaseOf(claims[c])]

AnyLease == (Networks \cup {NoNetwork}) \X IPs

\* A claim with an address leases the fixed IP of its MAC, and nobody does who
\* has another MAC.
LEMMA LeasesDiffer ==
  ASSUME IInv, NEW c \in Claims, addrs[c] # None
  PROVE  /\ Leased[c] \in AnyLease /\ Leased[c] # NoLease
         /\ Leased[c] = <<users[MacOf[c]].network, users[MacOf[c]].ip>>
         /\ \A d \in Claims : Leased[d] = Leased[c] => MacOf[d] = MacOf[c]
  <1>1. \A d \in Claims : addrs[d] # None =>
          addrs[d].ip = users[MacOf[d]].ip /\ addrs[d].ip # NoIP
    BY DEF IInv, AllBacked, Backed
  <1>2. \A d \in Claims : MacOf[d] \in MACs /\ users[MacOf[d]] \in UserObjects
    BY DataAssumption DEF IInv, TypeOK, EnvTypeOK
  <1>3. \A d \in Claims : users[MacOf[d]].network \in Networks \cup {NoNetwork}
                          /\ users[MacOf[d]].ip \in IPs \cup {NoIP}
    BY <1>2 DEF UserObjects
  <1>4. Leased[c] = <<users[MacOf[c]].network, users[MacOf[c]].ip>>
    BY <1>1 DEF Leased, Lease
  <1>5. ASSUME NEW d \in Claims, Leased[d] = Leased[c] PROVE MacOf[d] = MacOf[c]
    <2>1. addrs[d] # None
      BY <1>1, <1>4, <1>5 DEF Leased, Lease, NoLease
    <2>2. Leased[d] = <<users[MacOf[d]].network, users[MacOf[d]].ip>>
      BY <1>1, <2>1 DEF Leased, Lease
    <2>3. \A u, v \in UserObjects : u.ip = v.ip /\ u.network = v.network => u = v
      BY DEF UserObjects
    <2>4. /\ users[MacOf[d]].ip = users[MacOf[c]].ip
          /\ users[MacOf[d]].network = users[MacOf[c]].network
      BY <1>4, <1>5, <2>2
    <2>5. users[MacOf[d]] = users[MacOf[c]]
      BY <1>2, <2>3, <2>4, Zenon
    <2> QED
      BY <1>1, <1>2, <2>5 DEF IInv, UsersAreSound, FixedIPsUnique
  <1> QED
    BY <1>1, <1>3, <1>4, <1>5 DEF NoLease, AnyLease

\* So it is after a step.
LEMMA LeasesDifferNext ==
  ASSUME IInv', NEW c \in Claims, addrs'[c] # None
  PROVE  /\ Leased'[c] \in AnyLease /\ Leased'[c] # NoLease
         /\ Leased'[c] = <<users'[MacOf[c]].network, users'[MacOf[c]].ip>>
         /\ \A d \in Claims : Leased'[d] = Leased'[c] => MacOf[d] = MacOf[c]
  <1>1. \A d \in Claims : addrs'[d] # None =>
          addrs'[d].ip = users'[MacOf[d]].ip /\ addrs'[d].ip # NoIP
    BY DEF IInv, AllBacked, Backed
  <1>2. \A d \in Claims : MacOf[d] \in MACs /\ users'[MacOf[d]] \in UserObjects
    BY DataAssumption DEF IInv, TypeOK, EnvTypeOK
  <1>3. \A d \in Claims : users'[MacOf[d]].network \in Networks \cup {NoNetwork}
                          /\ users'[MacOf[d]].ip \in IPs \cup {NoIP}
    BY <1>2 DEF UserObjects
  <1>4. Leased'[c] = <<users'[MacOf[c]].network, users'[MacOf[c]].ip>>
    BY <1>1 DEF Leased, Lease
  <1>5. ASSUME NEW d \in Claims, Leased'[d] = Leased'[c] PROVE MacOf[d] = MacOf[c]
    <2>1. addrs'[d] # None
      BY <1>1, <1>4, <1>5 DEF Leased, Lease, NoLease
    <2>2. Leased'[d] = <<users'[MacOf[d]].network, users'[MacOf[d]].ip>>
      BY <1>1, <2>1 DEF Leased, Lease
    <2>3. \A u, v \in UserObjects : u.ip = v.ip /\ u.network = v.network => u = v
      BY DEF UserObjects
    <2>4. /\ users'[MacOf[d]].ip = users'[MacOf[c]].ip
          /\ users'[MacOf[d]].network = users'[MacOf[c]].network
      BY <1>4, <1>5, <2>2
    <2>5. users'[MacOf[d]] = users'[MacOf[c]]
      BY <1>2, <2>3, <2>4, Zenon
    <2> QED
      BY <1>1, <1>2, <2>5 DEF IInv, UsersAreSound, FixedIPsUnique
  <1> QED
    BY <1>1, <1>3, <1>4, <1>5 DEF NoLease, AnyLease

\* A user stays as it is; one is created only for a MAC that has none.
LEMMA UsersStay ==
  ASSUME TypeOK, [Next]_vars, NEW m \in MACs, users[m].ip # NoIP
  PROVE  users'[m] = users[m]
  <1>1. CASE UNCHANGED users
    BY <1>1
  <1>2. CASE CreateUser
    BY <1>2 DEF CreateUser, Write, TypeOK, EnvTypeOK
  <1> QED
    BY <1>1, <1>2 DEF Next, vars, Worker, Environment, Reconcile, AddFinalizer, EnsureAddress,
       WriteAddress, WaitForAddressInCache, SetAddressRef, UnprotectAddress, DeleteAddress,
       RemoveFinalizer, DeliverClaimEvent, DeliverAddressEvent, PoolChange, ClusterPauseChange,
       ForeignChange, Crash, CreateClaim, RequestClaimDeletion, RequestAddressDeletion

\* So a lease does not change while the address is there.
LEMMA LeaseKept ==
  ASSUME IInv, IInv', [Next]_vars, NEW c \in Claims,
         addrs[c] # None <=> addrs'[c] # None
  PROVE  Leased'[c] = Leased[c]
  <1>1. CASE addrs[c] = None
    BY <1>1 DEF Leased, Lease, NoLease
  <1>2. CASE addrs[c] # None
    <2>1. addrs'[c] # None
      BY <1>2
    <2>2. Leased[c] = <<users[MacOf[c]].network, users[MacOf[c]].ip>>
      BY <1>2, LeasesDiffer
    <2>3. Leased'[c] = <<users'[MacOf[c]].network, users'[MacOf[c]].ip>>
      BY <2>1, LeasesDifferNext
    <2>4. MacOf[c] \in MACs /\ users[MacOf[c]].ip # NoIP /\ TypeOK
      BY <1>2, DataAssumption DEF IInv, AllBacked, Backed
    <2>5. users'[MacOf[c]] = users[MacOf[c]]
      BY <2>4, UsersStay
    <2> QED
      BY <2>2, <2>3, <2>5
  <1> QED
    BY <1>1, <1>2

\* The address that a claim leases is granted, kept, or released when it leaves.
LEMMA AddressMovesContract ==
  ASSUME LInv, IInv', [Next]_vars, AddressMoves
  PROVE  Contract!Next \/ UNCHANGED <<Phase, Leased>>
  <1>1. PICK c \in Claims, obj \in AddressOrNone :
          /\ addrs' = [addrs EXCEPT ![c] = obj]
          /\ UNCHANGED <<claims, users>>
          /\ claims[c] # None
          /\ (obj # None /\ obj.fin) \/ (addrs[c] # None /\ Leaving(c))
    BY DEF AddressMoves
  <1>2. addrs \in [Claims -> AddressOrNone] /\ IInv
    BY EventTypes DEF LInv, IInv
  <1>3. /\ addrs'[c] = obj
        /\ \A d \in Claims : d # c => addrs'[d] = addrs[d]
        /\ UNCHANGED Phase
    BY <1>1, <1>2 DEF Phase
  <1>4. \A d \in Claims : d # c => Leased'[d] = Leased[d]
    BY <1>2, <1>3, LeaseKept
  <1>5. Leased' = [Leased EXCEPT ![c] = Leased'[c]]
    BY <1>4 DEF Leased
  <1>6. CASE addrs[c] = None /\ obj # None
    <2>1. /\ Leased'[c] \in AnyLease
          /\ \A d \in Claims : Leased'[d] = Leased'[c] => MacOf[d] = MacOf[c]
      BY <1>3, <1>6, LeasesDifferNext
    <2>2. Leased[c] = NoLease /\ Phase[c] # "absent"
      BY <1>1, <1>6 DEF Leased, Lease, Phase, PhaseOf
    <2>3. \A d \in Claims : Leased[d] = Leased'[c] => MacOf[d] = MacOf[c]
      BY <1>4, <2>1
    <2> QED
      BY <1>3, <1>5, <2>1, <2>2, <2>3
         DEF Contract!Next, Contract!Grant, Leased, Phase, AnyLease
  <1>7. CASE addrs[c] # None /\ obj # None
    <2>1. Leased'[c] = Leased[c]
      BY <1>2, <1>3, <1>7, LeaseKept
    <2>2. Leased' = Leased
      BY <1>4, <2>1 DEF Leased
    <2> QED
      BY <1>3, <2>2
  <1>8. CASE addrs[c] # None /\ obj = None
    <2>1. Leased[c] # NoLease /\ Leased'[c] = NoLease
      BY <1>2, <1>3, <1>8, LeasesDiffer DEF Leased, Lease
    <2>2. Phase[c] = "leaving"
      BY <1>1, <1>8 DEF Phase, PhaseOf, Leaving
    <2> QED
      BY <1>3, <1>5, <2>1, <2>2 DEF Contract!Next, Contract!Release, Leased, Phase
  <1>9. CASE addrs[c] = None /\ obj = None
    BY <1>1, <1>9
  <1> QED
    BY <1>6, <1>7, <1>8, <1>9

\* A claim asks for a lease, leaves, or goes when it leases nothing.
LEMMA ClaimMovesContract ==
  ASSUME LInv, IInv', [Next]_vars, ClaimMoves
  PROVE  Contract!Next \/ UNCHANGED <<Phase, Leased>>
  <1>1. PICK c \in Claims, obj \in ClaimOrNone :
          /\ claims' = [claims EXCEPT ![c] = obj]
          /\ UNCHANGED addrs
          /\ claims[c] = None => obj = None \/ ~obj.deleting
          /\ claims[c] # None /\ claims[c].deleting => obj = None \/ obj.deleting
          /\ claims[c] # None /\ obj = None => addrs[c] = None
    BY DEF ClaimMoves
  <1>2. claims \in [Claims -> ClaimOrNone]
    BY DEF LInv, IInv, TypeOK, ApiTypeOK, ClaimOrNone
  <1>3. Phase' = [Phase EXCEPT ![c] = PhaseOf(obj)] /\ UNCHANGED Leased
    <2>1. ASSUME NEW d \in Claims
          PROVE  PhaseOf(claims'[d]) = IF d = c THEN PhaseOf(obj) ELSE PhaseOf(claims[d])
      BY <1>1, <1>2
    <2>2. Leased' = Leased
      <3>1. \A d \in Claims : Leased'[d] = Leased[d]
        BY <1>1, LeaseKept DEF LInv
      <3> QED
        BY <3>1 DEF Leased
    <2> QED
      BY <2>1, <2>2 DEF Phase
  <1>4. Phase[c] = PhaseOf(claims[c])
    BY DEF Phase
  <1>5. CASE Phase[c] = PhaseOf(obj)
    <2>1. Phase' = Phase
      BY <1>3, <1>5 DEF Phase
    <2> QED
      BY <1>3, <2>1
  <1>6. CASE PhaseOf(obj) = "absent" /\ Phase[c] # "absent"
    <2>1. Leased[c] = NoLease
      BY <1>1, <1>4, <1>6 DEF PhaseOf, Leased, Lease
    <2> QED
      BY <1>3, <1>6, <2>1 DEF Contract!Next, Contract!Go, Leased, Phase
  <1>7. CASE PhaseOf(obj) = "live" /\ Phase[c] # "live"
    <2>1. Phase[c] = "absent"
      BY <1>1, <1>4, <1>7 DEF PhaseOf
    <2> QED
      BY <1>3, <1>7, <2>1 DEF Contract!Next, Contract!Ask, Leased, Phase
  <1>8. CASE PhaseOf(obj) = "leaving" /\ Phase[c] # "leaving"
    <2>1. Phase[c] = "live"
      BY <1>1, <1>4, <1>8 DEF PhaseOf
    <2> QED
      BY <1>3, <1>8, <2>1 DEF Contract!Next, Contract!Leave, Leased, Phase
  <1> QED
    BY <1>5, <1>6, <1>7, <1>8 DEF PhaseOf

\* Steps of others leave all leases alone, the creation of a user included.
LEMMA NothingMovesContract ==
  ASSUME LInv, IInv', [Next]_vars, UNCHANGED <<claims, addrs>>
  PROVE  UNCHANGED <<Phase, Leased>>
  <1>1. \A d \in Claims : Leased'[d] = Leased[d]
    BY LeaseKept DEF LInv
  <1> QED
    BY <1>1 DEF Phase, Leased

\* The controller implements the contract, whatever MACs generateMACAddress gives,
\* as long as every reply arrives and the cache shows a new address in time: every
\* step of it, of its environment and of a restart is a step of LeaseContract, in
\* which only claims with one MAC may lease one address of a network, or leaves
\* all leases alone.
THEOREM ContractImplemented ==
  ASSUME Reliable
  PROVE  Spec => ImplementsContract
  <1>1. Init => Contract!Init
    BY DEF Init, Contract!Init, PhaseOf, Lease
  <1>2. LInv /\ IInv' /\ [Next]_vars => [Contract!Next]_(Contract!vars)
    <2> SUFFICES ASSUME LInv, IInv', [Next]_vars
                 PROVE  Contract!Next \/ UNCHANGED <<Phase, Leased>>
      BY DEF Contract!vars, Phase, Leased
    <2> QED
      BY Moves, AddressMovesContract, ClaimMovesContract, NothingMovesContract
  <1>3. Spec => []LInv /\ []IInv
    BY LeasesAreSound, InvariantHolds
  <1> QED
    BY <1>1, <1>2, <1>3, PTL DEF Spec, ImplementsContract, Contract!Spec
=============================================================================
