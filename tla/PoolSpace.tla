----------------------------- MODULE PoolSpace -----------------------------
(***************************************************************************)
(* The addresses of a pool, which the code computes twice: the UniFi client*)
(* steps through each subnet with GetIPAddress to find a free address      *)
(* (internal/poolutil/address.go, allocateNextIP in internal/unifi/        *)
(* client.go), and the status is computed from the set of addresses that   *)
(* PoolSpecToIPSet returns for the first subnet (internal/poolutil/        *)
(* poolutil.go).                                                           *)
(*                                                                         *)
(* An IPv4 address is an integer of AddressBits bits, its last octet the   *)
(* low OctetBits of them: 32 and 8 in the code.  A subnet has a base and a *)
(* prefix length, or a start and an end; parsing is left out, and so are   *)
(* the values that do not parse.  When the manager serves its webhooks, an *)
(* edit of the spec has to pass internal/webhooks/unifiippool_webhook.go.  *)
(*                                                                         *)
(* An address is given out in two steps: a UniFi user gets it as its fixed *)
(* IP, and later an IPAddress is written.  Any number of edits may lie     *)
(* between the two.  That stands for a reconcile that runs during an edit, *)
(* for one that works with an older spec from its cache, which is to have  *)
(* allocated before the edit, and for a claim that is created again and    *)
(* gets the IP of the user that its predecessor left behind: no IPAddress  *)
(* that is deleted takes its user along.  The pool stays in one UniFi      *)
(* network, and no two claims have one MAC; ClaimController has the rest.  *)
(***************************************************************************)
EXTENDS Integers, Sequences, FiniteSets, FiniteSetsExt

CONSTANTS
  AddressBits,   \* the width of an address
  OctetBits,     \* the width of its last octet
  Specs,         \* the specs a pool may have, and be changed to
  Foreign,       \* addresses that are fixed to other devices in UniFi
  MaxUsers       \* bound on the UniFi users that the controller creates

MaxAddress == 2^AddressBits - 1
Address    == 0 .. MaxAddress
NoGateway  == -1     \* the empty string
Invalid    == -2     \* the zero netip.Addr, printed as "invalid IP"
OutOfRange == -3     \* an error of GetIPAddress
Exhausted  == -4     \* an error of allocateNextIP

Subnets ==
  [cidr : {TRUE}, addr : Address, bits : 0 .. AddressBits,
   gateway : Address \cup {NoGateway}, exclude : SUBSET Address]
  \cup
  [cidr : {FALSE}, start : Address, end : Address,
   gateway : Address \cup {NoGateway}, exclude : SUBSET Address]

ASSUME SpaceAssumption ==
  /\ AddressBits \in Nat /\ OctetBits \in 1 .. AddressBits
  /\ \A s \in Specs :
       /\ s.gateway \in Address \cup {NoGateway}
       /\ s.subnets \in Seq(Subnets) \ {<< >>}
  /\ Foreign \subseteq Address
  /\ MaxUsers \in Nat

VARIABLES
  spec,       \* the pool's spec: its gateway and subnets
  users,      \* the fixed IPs of the UniFi users the controller created for it
  allocated,  \* the addresses of the IPAddresses that refer to the pool
  listed,     \* those that the informer cache shows
  webhooks    \* whether the manager serves its webhooks (--enable-webhook)

vars == <<spec, users, allocated, listed, webhooks>>

-----------------------------------------------------------------------------
(* internal/poolutil/address.go *)

HostMask(subnet) == 2^(AddressBits - subnet.bits) - 1

\* prefix.Masked, and the address with all host bits set.
Masked(subnet)    == subnet.addr - (subnet.addr % (HostMask(subnet) + 1))
Broadcast(subnet) == Masked(subnet) + HostMask(subnet)

\* firstUsableIP starts at the address the prefix was written with, unmasked.
FirstUsable(subnet) == IF subnet.addr = MaxAddress THEN Invalid ELSE subnet.addr + 1

\* Mutants: the broadcast address is usable, and the last address is not.
LastIsBroadcast(subnet) == Broadcast(subnet)
LastTooLow(subnet) == (Broadcast(subnet) - 2) % 2^AddressBits

\* lastUsableIP, an unsigned subtraction.
LastUsable(subnet) == (Broadcast(subnet) - 1) % 2^AddressBits

\* Only the addresses after the first are compared with the last.
GetIPAddress(subnet, index) ==
  LET first == IF subnet.cidr THEN FirstUsable(subnet) ELSE subnet.start
      last  == IF subnet.cidr THEN LastUsable(subnet) ELSE subnet.end
  IN  IF ~subnet.cidr /\ first > last THEN OutOfRange
      ELSE IF index = 0 THEN first
      ELSE IF first # Invalid /\ first + index <= last THEN first + index
      ELSE OutOfRange

Contains(subnet, ip) ==
  IF subnet.cidr THEN ip \in Masked(subnet) .. Broadcast(subnet)
                 ELSE ip \in subnet.start .. subnet.end

IPInSubnets(ip) == \E k \in DOMAIN spec.subnets : Contains(spec.subnets[k], ip)

GetGateway(subnet) == IF subnet.gateway # NoGateway THEN subnet.gateway ELSE spec.gateway

-----------------------------------------------------------------------------
(* allocateNextIP, dynamic: the first free address of the first subnet that *)
(* has one.                                                                 *)

\* What allocateNextIP takes for allocated: the addresses that the cache lists
\* and the fixed IPs of all users of the network.
Taken == listed \cup users \cup Foreign

\* The indices that yield an address nobody has.
FreeIndices(subnet) ==
  {i \in 0 .. MaxAddress :
     GetIPAddress(subnet, i) \notin Taken \cup {OutOfRange, GetGateway(subnet)}}

NextIP ==
  LET open == {k \in DOMAIN spec.subnets : FreeIndices(spec.subnets[k]) # {}}
  IN  IF open = {} THEN Exhausted
      ELSE LET subnet == spec.subnets[Min(open)]
           IN  GetIPAddress(subnet, Min(FreeIndices(subnet)))

-----------------------------------------------------------------------------
(* internal/poolutil/poolutil.go *)

\* PoolSpecToIPSet: the subnet's own gateway is left out, not the pool's.
PoolSpecToIPSet(subnet) ==
  IF subnet.cidr
  THEN (Masked(subnet) .. Broadcast(subnet))
         \ ({subnet.gateway, Masked(subnet), Broadcast(subnet)} \cup subnet.exclude)
  ELSE (subnet.start .. subnet.end) \ ({subnet.gateway} \cup subnet.exclude)

\* IPSet.Ranges: the maximal intervals of a set of addresses.
Ranges(ips) ==
  {r \in ips \X ips :
     /\ r[1] <= r[2]
     /\ r[1] .. r[2] \subseteq ips
     /\ r[1] - 1 \notin ips /\ r[2] + 1 \notin ips}

LastOctet(ip) == ip % 2^OctetBits

\* Mutant: the last address of a range is not counted.
TotalLessOne(ips) ==
  MapThenSumSet(LAMBDA r : (LastOctet(r[2]) - LastOctet(r[1])) % 2^OctetBits, Ranges(ips))

\* computeTotalAddresses, in the arithmetic of a byte.
TotalAddresses(ips) ==
  MapThenSumSet(LAMBDA r : (LastOctet(r[2]) - LastOctet(r[1]) + 1) % 2^OctetBits,
                Ranges(ips))

\* ComputePoolStatus, for the first subnet and the addresses that are listed.
PoolStatus ==
  LET ips  == PoolSpecToIPSet(spec.subnets[1])
      used == Cardinality(listed \cap ips)
  IN  [total |-> TotalAddresses(ips),
       used |-> used,
       free |-> Max({0, TotalAddresses(ips) - used}),
       outOfRange |-> Cardinality((listed \cap Address) \ ips)]

-----------------------------------------------------------------------------
(* internal/webhooks/unifiippool_webhook.go *)

\* validateSubnet, its excluded addresses given one by one.
ValidSubnet(subnet) ==
  /\ ~subnet.cidr => subnet.start <= subnet.end
  /\ subnet.gateway # NoGateway => Contains(subnet, subnet.gateway)
  /\ subnet.cidr => \A ip \in subnet.exclude : Contains(subnet, ip)

ValidSpec(new) == \A k \in DOMAIN new.subnets : ValidSubnet(new.subnets[k])

\* Mutant: the addresses are looked up in the spec that is replaced.
OrphansOfOld(new) == (listed \cap Address) \ PoolSpecToIPSet(spec.subnets[1])

\* findOrphanedIPs: the listed addresses against the new spec's first subnet.
OrphanedIPs(new) == (listed \cap Address) \ PoolSpecToIPSet(new.subnets[1])

\* ValidateUpdate
Admitted(new) == webhooks => ValidSpec(new) /\ OrphanedIPs(new) = {}

-----------------------------------------------------------------------------
Init ==
  /\ spec \in Specs
  /\ users = {}
  /\ allocated = {}
  /\ listed = {}
  /\ webhooks \in BOOLEAN
  /\ webhooks => ValidSpec(spec)

CreateUser(ip) ==
  /\ Cardinality(users) < MaxUsers
  /\ users' = users \cup {ip}
  /\ UNCHANGED <<spec, allocated, listed, webhooks>>

\* Mutant: the error of allocateNextIP is not looked at.
AllocateUnchecked == CreateUser(NextIP)

\* Dynamic allocation for a claim whose MAC has no user.
Allocate == NextIP # Exhausted /\ CreateUser(NextIP)

\* By pre-allocation or annotation: any free address of the subnets.
AllocateRequested(ip) == IPInSubnets(ip) /\ ip \notin Taken /\ CreateUser(ip)

\* An IPAddress is written with the fixed IP of a user, just created or found by
\* GetUserByMAC, whatever the pool's subnets are by now.
WriteAddress(ip) ==
  /\ ip \in users \ allocated
  /\ allocated' = allocated \cup {ip}
  /\ UNCHANGED <<spec, users, listed, webhooks>>

\* The IPAddress is deleted; ReleaseAddress leaves the user in UniFi.
Release(ip) ==
  /\ ip \in allocated
  /\ allocated' = allocated \ {ip}
  /\ UNCHANGED <<spec, users, listed, webhooks>>

\* The cache takes notice of an address written or deleted.
ListAddress(ip) ==
  /\ listed' = IF ip \in allocated THEN listed \cup {ip} ELSE listed \ {ip}
  /\ UNCHANGED <<spec, users, allocated, webhooks>>

EditPool ==
  /\ \E new \in Specs \ {spec} : Admitted(new) /\ spec' = new
  /\ UNCHANGED <<users, allocated, listed, webhooks>>

Next ==
  \/ Allocate
  \/ \E ip \in Address : AllocateRequested(ip)
  \/ \E ip \in users : WriteAddress(ip) \/ Release(ip) \/ ListAddress(ip)
  \/ EditPool

Spec == Init /\ [][Next]_vars

-----------------------------------------------------------------------------
(* Properties. *)

\* A subnet for which the computations agree: nothing is excluded, and a CIDR is
\* written with its network address and has two host bits at least.
Regular(subnet) ==
  /\ subnet.exclude = {}
  /\ subnet.cidr => subnet.addr = Masked(subnet) /\ subnet.bits <= AddressBits - 2

SpecsAreRegular == \A s \in Specs : \A k \in DOMAIN s.subnets : Regular(s.subnets[k])

\* Arithmetic that the theorems need and TLC evaluates.
PowersOfTwo ==
  \A n \in 0 .. AddressBits :
    /\ 2^n \in Nat \ {0}
    /\ n >= 2 => 2^n >= 4
    /\ \A m \in 0 .. n : 2^n % 2^m = 0

\* The type of the state: every IPAddress has a user's fixed IP.
TypeOK ==
  /\ spec \in Specs
  /\ users \subseteq Address \cup {Invalid}
  /\ allocated \subseteq users
  /\ listed \subseteq users
  /\ webhooks \in BOOLEAN

\* Dynamic allocation yields an address that the other computation counts as
\* the pool's own: not a network or broadcast address, not one outside.
AllocatorInRange ==
  NextIP # Exhausted =>
    \E k \in DOMAIN spec.subnets : NextIP \in PoolSpecToIPSet(spec.subnets[k])

\* Dynamic allocation fails only when every address of every subnet is taken,
\* but for the gateway, whatever was released, requested or edited before.
ExhaustedOnlyWhenFull ==
  NextIP = Exhausted =>
    \A k \in DOMAIN spec.subnets :
      PoolSpecToIPSet(spec.subnets[k]) \ {GetGateway(spec.subnets[k])} \subseteq Taken

\* With one subnet that names the gateway itself, the status and dynamic
\* allocation disagree in two cases only.  No address is shown to be free while
\* allocation goes on only if the addresses have a range of a whole octet, which
\* the arithmetic of a byte cuts short.  Addresses are shown to be free while
\* allocation fails only if UniFi users have some that no listed IPAddress has
\* (ComputePoolStatus and allocateNextIP).
FreeAgreesWithAllocator ==
  LET ips == PoolSpecToIPSet(spec.subnets[1]) IN
  Len(spec.subnets) = 1 /\ spec.gateway = NoGateway =>
    /\ PoolStatus.free = 0 /\ NextIP # Exhausted =>
         \E r \in Ranges(ips) : r[2] - r[1] + 1 >= 2^OctetBits
    /\ PoolStatus.free > 0 /\ NextIP = Exhausted =>
         ips \cap ((users \cup Foreign) \ listed) # {}

\* With the webhooks, no edit takes the subnet from under an address that the
\* cache shows, in whichever subnet it was.
ListedStayInside ==
  [][webhooks => \A ip \in listed : IPInSubnets(ip) => IPInSubnets(ip)']_vars

\* No address of a pool lies outside all its subnets when the webhooks are
\* served: "Prevents orphaning allocated IPs using IPSet comparison".
NoAddressOrphaned == webhooks => \A ip \in allocated : IPInSubnets(ip)
=============================================================================
