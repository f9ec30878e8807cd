--------------------------- MODULE LeaseInvariant ---------------------------
(***************************************************************************)
(* The inductive invariant from which LeaseProofs derives that no address  *)
(* outlives its claim, that a bound claim is served, that an address is    *)
(* protected until its claim leaves, and the contract of LeaseContract.    *)
(* It holds when every reply arrives and the cache shows a new address in  *)
(* time; a lost reply or a timeout of the wait leaves an address behind.   *)
(*                                                                         *)
(* The difficulty is that the decision to delete is taken on a cached      *)
(* claim, which may be of an earlier incarnation than the one the server   *)
(* has by then.  A claim that had its finalizer only goes when this worker *)
(* removes it, and the cache showed its deletion then.  So of all the      *)
(* versions on their way to the cache, those of finished incarnations come *)
(* first, and the incarnation that follows them is not yet protected.      *)
(***************************************************************************)
EXTENDS ClaimInvariant

\* Every reply arrives, and the cache shows a new address in time.
Reliable == FaultKinds \cap {"lostReply", "cacheTimeout"} = {}

\* The versions of an object that its cache shows now, at 0, and will show, at
\* the places of their events.
Versions(events, c)          == {0} \cup {i \in 1..Len(events) : events[i][1] = c}
Version(cache, events, c, i) == IF i = 0 THEN cache[c] ELSE events[i][2]

ClaimVersions(c)   == Versions(claimEvents, c)
ClaimAt(c, i)      == Version(claimCache, claimEvents, c, i)
AddressVersions(c) == Versions(addrEvents, c)
AddressAt(c, i)    == Version(addrCache, addrEvents, c, i)

\* Whether a version is of the incarnation there is now.
Current(now, v) == v # None /\ now # None /\ v.uid = now.uid

\* Whether it is of one that had its finalizer and is gone.
Finished(now, v) == v # None /\ v.fin /\ ~Current(now, v)

NoneFinished(c) == \A i \in ClaimVersions(c) : ~Finished(claims[c], ClaimAt(c, i))

\* The claim is to go, and the cache will never show it otherwise.
Leaving(c) ==
  /\ claims[c] # None /\ claims[c].fin /\ claims[c].deleting
  /\ \A i \in ClaimVersions(c) :
       Current(claims[c], ClaimAt(c, i)) /\ ClaimAt(c, i).fin /\ ClaimAt(c, i).deleting

Normal   == {"ensureAddress", "createUser", "writeAddress", "waitForAddress", "setAddressRef"}
Deletion == {"unprotectAddress", "deleteAddress", "removeFinalizer"}

\* UIDs are not used twice.
FreshUIDs ==
  \A c \in Claims :
    /\ claims[c] # None => claims[c].uid = made[c]
    /\ \A i \in ClaimVersions(c) : ClaimAt(c, i) # None => ClaimAt(c, i).uid <= made[c]
    /\ \A i \in AddressVersions(c) : AddressAt(c, i) # None => AddressAt(c, i).owner <= made[c]

Follows(w, v) == (v.fin => w.fin) /\ (v.deleting => w.deleting)

\* Within an incarnation the finalizer and the request to delete stay.
VersionsFollow ==
  \A c \in Claims : \A i \in ClaimVersions(c) :
    Current(claims[c], ClaimAt(c, i)) =>
      /\ Follows(claims[c], ClaimAt(c, i))
      /\ \A j \in ClaimVersions(c) : i < j =>
           Current(claims[c], ClaimAt(c, j)) /\ Follows(ClaimAt(c, j), ClaimAt(c, i))

\* The versions of finished incarnations come first; the cache showed that they
\* were to be deleted, and no protected incarnation exists beside them.
FinishedFirst ==
  \A c \in Claims : \A i \in ClaimVersions(c) :
    Finished(claims[c], ClaimAt(c, i)) =>
      /\ ClaimAt(c, i).deleting
      /\ claims[c] = None \/ ~claims[c].fin
      /\ \A j \in ClaimVersions(c) : j < i => Finished(claims[c], ClaimAt(c, j))

\* What a running reconcile of c may rely on, whatever has happened meanwhile.
AddsToNew(c) == pc = "addFinalizer" => NoneFinished(c)

DeletesLeaving(c) ==
  pc \in Deletion => claims[c] = None \/ ~claims[c].fin \/ Leaving(c)

ServesCurrent(c) ==
  pc \in Normal =>
    /\ Current(claims[c], job.claim) /\ claims[c].fin
    /\ addrs[c] # None => addrs[c].fin
    /\ job.found # None /\ job.found.owner = job.claim.uid => addrs[c] # None

AddressThereOrGone(c) ==
  /\ pc \in {"waitForAddress", "setAddressRef"} => addrs[c] # None
  /\ pc = "deleteAddress" => addrs[c] = None \/ ~addrs[c].fin
  /\ pc = "removeFinalizer" => addrs[c] = None

ReconcileKnows ==
  job # None => /\ AddsToNew(job.name)
                /\ DeletesLeaving(job.name)
                /\ ServesCurrent(job.name)
                /\ AddressThereOrGone(job.name)

\* An address belongs to the claim there is and is unprotected only when that
\* claim leaves; while the cache does not show it, the worker waits for it.
AddressOwned(c) ==
  addrs[c] # None =>
    /\ claims[c] # None /\ claims[c].fin /\ addrs[c].owner = claims[c].uid
    /\ addrs[c].fin \/ Leaving(c)
    /\ addrCache[c] # None \/ (pc = "waitForAddress" /\ job.name = c)

\* An address of this claim that is gone though a version shows it went because
\* the claim leaves; one that a version shows unprotected stays so.
VersionsOwned(c) ==
  \A i \in AddressVersions(c) : AddressAt(c, i) # None =>
    /\ \/ claims[c] = None
       \/ AddressAt(c, i).owner # claims[c].uid
       \/ addrs[c] # None
       \/ Leaving(c)
    /\ AddressAt(c, i).fin \/ addrs[c] = None \/ ~addrs[c].fin

AddressesOwned == \A c \in Claims : AddressOwned(c) /\ VersionsOwned(c)

\* The versions of an address, wherever they are, are of one incarnation of its
\* claim: the next one's is created when all have seen the last one's removal.
OneOwner ==
  \A c \in Claims :
    /\ addrCache[c] # None /\ addrs[c] # None => addrCache[c].owner = addrs[c].owner
    /\ \A i \in 1..Len(addrEvents) : addrEvents[i][1] = c /\ addrEvents[i][2] # None =>
         /\ addrCache[c] # None => addrEvents[i][2].owner = addrCache[c].owner
         /\ addrs[c] # None => addrEvents[i][2].owner = addrs[c].owner

\* The inductive invariant.
LInv ==
  /\ IInv
  /\ FreshUIDs
  /\ VersionsFollow
  /\ FinishedFirst
  /\ ReconcileKnows
  /\ AddressesOwned
  /\ OneOwner
  /\ BoundClaimIsServed
=============================================================================
