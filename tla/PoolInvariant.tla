--------------------------- MODULE PoolInvariant ---------------------------
(***************************************************************************)
(* The inductive invariant from which PoolControllerProofs derives that a  *)
(* pool with listed allocations has its finalizer, that it does not go     *)
(* while one of them exists, and that no user's edit is undone.            *)
(*                                                                         *)
(* The difficulty is that a deleted pool is let go by what the cache of    *)
(* the addresses shows.  The cache may not show an address yet; but one    *)
(* that a status has listed it has shown before, and it has shown its      *)
(* removal since only if the address is really gone.  Every version of the *)
(* pool is part of this, as any may be the one a reconcile writes back.    *)
(***************************************************************************)
EXTENDS PoolController

\* The cache shows a, unless a is gone for good.
Seen(a) == a \in created /\ (a \in addrs => a \in addrCache)

Sound(obj) ==
  obj # None /\ obj.status.allocations # {} =>
    obj.fin /\ \A a \in obj.status.allocations : Seen(a)

\* Every version of the pool, wherever it is, is protected, and the cache has
\* shown the addresses that it lists.
AllSound ==
  /\ Sound(pool) /\ Sound(poolCache)
  /\ \A i \in 1..Len(poolEvents) : Sound(poolEvents[i])
  /\ job # None => Sound(job.base)

\* The removal of an address is an event only once the address is gone.
RemovedIsGone ==
  \A i \in 1..Len(addrEvents) : ~addrEvents[i].exists => addrEvents[i].name \notin addrs

SameMeta(m, n) ==
  m.uid = n.uid /\ m.edit = n.edit /\ m.fin = n.fin /\ m.deleting = n.deleting

\* In memory a reconcile changes the status of its pool only; what it lists the
\* cache has shown, and it writes no list before the finalizer.
JobFollowsBase ==
  job # None =>
    /\ SameMeta(job.pool, job.base)
    /\ \A a \in job.pool.status.allocations : Seen(a)
    /\ pc # "addFinalizer" /\ job.pool.status.allocations # {} => job.base.fin

\* A pool about to be let go lists no address that exists.
LetGoIsUnused ==
  pc = "removeFinalizer" =>
    job.base.deleting /\ job.base.status.allocations \cap addrs = {}

\* The inductive invariant.
PInv == TypeOK /\ AllSound /\ RemovedIsGone /\ JobFollowsBase /\ LetGoIsUnused
=============================================================================
