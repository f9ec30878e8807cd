------------------------- MODULE ProviderInvariant -------------------------
(***************************************************************************)
(* What holds between the two controllers, from which ProviderProofs       *)
(* derives that each is an environment that the other's module allows.     *)
(*                                                                         *)
(* The difficulty is on both sides one of names that come back.  A pool    *)
(* event wakes the claims exactly when they can see a change, though the   *)
(* pool may go and come back: a removal follows a version that was there.  *)
(* And an IPAddress is created once for each incarnation of its claim,     *)
(* though its name is free again once it is gone: by then its claim leaves *)
(* in every version, and no reconcile takes up an attempt for it again.    *)
(***************************************************************************)
EXTENDS Provider

\* The versions of the pool, of which the cache has the first.
PoolVersion(i) == IF i = 0 THEN poolCache ELSE poolEvents[i]

\* The last is the server's, and a removal follows one that was there.
PoolComesAndGoes ==
  /\ PoolVersion(Len(poolEvents)) = pool
  /\ \A i \in 1..Len(poolEvents) : poolEvents[i] = None => PoolVersion(i - 1) # None

\* The claims are of incarnations that have been made.
IncarnationsBounded ==
  \A c \in Claims : /\ made[c] <= MaxIncarnations
                    /\ claims[c] # None => claims[c].uid >= 1

\* An address is of an incarnation of its claim that has been made.
CreatedForClaims ==
  /\ \A a \in created : a \in Identities /\ a[2] <= made[a[1]]
  /\ Existing(addrs) \subseteq created

\* A claim whose address has been created and is gone leaves.
ReleasedLeaves ==
  \A c \in Claims :
    claims[c] # None /\ addrs[c] = None /\ Identity(c, claims[c].uid) \in created =>
      C!Leaving(c)

\* With the inductive invariants of the two modules it is inductive.
ProviderInv ==
  /\ PoolComesAndGoes
  /\ IncarnationsBounded
  /\ CreatedForClaims
  /\ ReleasedLeaves
=============================================================================
