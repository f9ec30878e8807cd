--------------------------- MODULE ClaimInvariant ---------------------------
(***************************************************************************)
(* The inductive invariant from which ClaimControllerProofs derives that   *)
(* every IPAddress carries the fixed IP of its claim's MAC.                *)
(*                                                                         *)
(* The difficulty is the pair of cache reads before an address is written: *)
(* CreateOrPatch gets the address, EnsureAddress lists those in use.  When *)
(* the first does not show the address and the second does, an IPAddress   *)
(* without an IP is about to be created, and only the server's refusal of  *)
(* a second object of that name prevents it.  So the address must still be *)
(* there, which takes an account of the watch events on their way.         *)
(***************************************************************************)
EXTENDS ClaimController

Backed(c, obj) == obj # None => /\ obj.ip # NoIP
                                /\ obj.ip = users[MacOf[c]].ip

Protected(obj) == obj # None /\ obj.fin

Allocating == pc \in {"ensureAddress", "createUser", "writeAddress"}

\* Every version of an address, wherever it is, has its claim's fixed IP.
AllBacked ==
  /\ \A c \in Claims : Backed(c, addrs[c]) /\ Backed(c, addrCache[c])
  /\ \A i \in 1..Len(addrEvents) : Backed(addrEvents[i][1], addrEvents[i][2])
  /\ job # None => Backed(job.name, job.found)

\* The last event of an address on its way, or else the cache, is current.
CacheCatchesUp ==
  \A c \in Claims :
    \/ \E i \in 1..Len(addrEvents) :
         /\ addrEvents[i] = <<c, addrs[c]>>
         /\ \A j \in 1..Len(addrEvents) : j > i => addrEvents[j][1] # c
    \/ /\ addrCache[c] = addrs[c]
       /\ \A j \in 1..Len(addrEvents) : addrEvents[j][1] # c

\* Nothing follows the event of an address's removal until it is delivered.
RemovalIsLast ==
  \A i, j \in 1..Len(addrEvents) :
    addrEvents[i][2] = None /\ i < j => addrEvents[j][1] # addrEvents[i][1]

\* An address the cache does not show yet has not been unprotected.
NewIsProtected ==
  \A c \in Claims : addrCache[c] = None =>
    \A i \in 1..Len(addrEvents) :
      addrEvents[i][1] = c => Protected(addrEvents[i][2])

\* Nor has one that the running reconcile found missing.
MissingIsProtected ==
  Allocating /\ job.found = None =>
    /\ \A i \in 1..Len(addrEvents) :
         addrEvents[i][1] = job.name => Protected(addrEvents[i][2])
    /\ addrs[job.name] # None => addrs[job.name].fin
    /\ addrCache[job.name] # None => addrs[job.name] # None

\* An address being deleted that the cache no longer shows is gone.
DroppedIsGone ==
  pc \in {"unprotectAddress", "deleteAddress"} /\ addrCache[job.name] = None =>
    addrs[job.name] = None

\* The users' fixed IPs differ within a network, and each is in one.
UsersAreSound ==
  /\ FixedIPsUnique
  /\ \A m \in MACs : users[m].ip # NoIP => users[m].network # NoNetwork

\* No user of the controller has the IP about to be assigned, in the network it
\* was chosen for, and it is the pre-allocated one if there is any; the IP about
\* to be written is the user's, unless the write is sure to be refused.
ChosenIsFree ==
  pc = "createUser" =>
    /\ job.ip # NoIP
    /\ job.network # NoNetwork /\ job.ip \notin OwnUsers(job.network)
    /\ job.want \in {NoIP, job.ip}

WrittenIsFixed ==
  pc = "writeAddress" =>
    IF job.ip = NoIP THEN job.found = None /\ addrs[job.name] # None
    ELSE job.ip = users[MacOf[job.name]].ip

EventInv == CacheCatchesUp /\ RemovalIsLast /\ NewIsProtected

\* The inductive invariant: types, unique fixed IPs, backed addresses and the
\* account of the events that the step of a reconcile relies on.
IInv ==
  /\ TypeOK
  /\ UsersAreSound
  /\ AllBacked
  /\ EventInv
  /\ MissingIsProtected
  /\ DroppedIsGone
  /\ ChosenIsFree
  /\ WrittenIsFixed
=============================================================================
