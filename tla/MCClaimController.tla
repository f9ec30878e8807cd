------------------------- MODULE MCClaimController -------------------------
(* Instances of ClaimController for TLC. *)
EXTENDS LeaseInvariant, TLC

CONSTANTS c1, c2, m1, m2, n1, n2

\* Claims whose names differ in length, so that their MACs differ.
DistinctMACs == (c1 :> m1) @@ (c2 :> m2)

\* Claims whose names have the same length, so that they share a MAC.
SharedMAC == (c1 :> m1) @@ (c2 :> m1)

\* A single claim.
OneMAC == (c1 :> m1)

\* No pre-allocations, no "ipAddress" annotations, no fixed IPs of others.
NoRequests == [c \in Claims |-> NoIP]
AllPools == {None} \cup {obj \in PoolObjects : obj.pre = NoRequests}
NoForeign == {}

\* The pool is in one of two networks; in the first, c1 has address 2
\* pre-allocated; c2 asks for it by annotation; another device may get address 3.
SteadyPools == {obj \in PoolObjects :
                  /\ ~obj.paused /\ obj.free = "unknown"
                  /\ \/ obj.network = n1 /\ obj.pre = (c1 :> 2) @@ (c2 :> NoIP)
                     \/ obj.network = n2 /\ obj.pre = NoRequests}
RequestC2 == (c1 :> NoIP) @@ (c2 :> 2)
ForeignAddress == {<<n1, 3>>}
=============================================================================
