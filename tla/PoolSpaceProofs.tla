-------------------------- MODULE PoolSpaceProofs --------------------------
(***************************************************************************)
(* Theorems about the addresses of a pool and the network it belongs to,   *)
(* for addresses of any width.  The provers know nothing of exponents:     *)
(* what is needed of the powers of two is the hypothesis PowersOfTwo, and  *)
(* all the rest is arithmetic.                                             *)
(***************************************************************************)
EXTENDS NetworkLookup, WellFoundedInduction, TLAPS

-----------------------------------------------------------------------------
(* Arithmetic. *)

\* Min, for the lowest index and for the first subnet.
LEMMA MinOfNat ==
  ASSUME NEW S \in SUBSET Nat, S # {}
  PROVE  Min(S) \in S /\ \A y \in S : Min(S) <= y
  <1>1. \E x \in S : \A y \in S : ~ (<<y, x>> \in OpToRel(<, Nat))
    BY WFMin, NatLessThanWellFounded, Zenon
  <1>2. \E x \in S : \A y \in S : ~ (y < x)
    BY <1>1, Zenon DEF OpToRel
  <1>3. \E x \in S : \A y \in S : x <= y
    BY <1>2
  <1> QED
    BY <1>3 DEF Min

\* A number that h divides.
LEMMA Quotient ==
  ASSUME NEW a \in Nat, NEW h \in Nat, h # 0, a % h = 0
  PROVE  \E u \in Nat : a = u * h
  <1>1. a = h * (a \div h) + (a % h) /\ a \div h \in Nat
    OBVIOUS
  <1> QED
    BY <1>1

\* Multiples keep their order.
LEMMA Times ==
  ASSUME NEW u \in Int, NEW v \in Int, NEW h \in Nat, u <= v
  PROVE  u * h <= v * h
  OBVIOUS

\* One multiple below another is a whole step below it.
LEMMA Cancel ==
  ASSUME NEW u \in Int, NEW v \in Int, NEW h \in Nat, u * h < v * h
  PROVE  u + 1 <= v /\ u * h + h <= v * h
  <1>1. u < v
    BY Times
  <1>2. (u + 1) * h <= v * h
    BY <1>1, Times
  <1>3. (u + 1) * h = u * h + h
    OBVIOUS
  <1> QED
    BY <1>1, <1>2, <1>3

\* A block of h that starts below n ends below n.
LEMMA Aligned ==
  ASSUME NEW a \in Nat, NEW n \in Nat, NEW h \in Nat, h # 0, a % h = 0, n % h = 0, a < n
  PROVE  a + h <= n
  <1>1. PICK u \in Nat : a = u * h
    BY Quotient
  <1>2. PICK v \in Nat : n = v * h
    BY Quotient
  <1> QED
    BY <1>1, <1>2, Cancel

\* The start of the block of h that a lies in.
LEMMA Mask ==
  ASSUME NEW a \in Nat, NEW h \in Nat, h # 0
  PROVE  /\ a - (a % h) \in Nat /\ (a - (a % h)) % h = 0
         /\ a - (a % h) <= a /\ a < (a - (a % h)) + h
  OBVIOUS

-----------------------------------------------------------------------------
(* Subnets, and what the two computations make of them. *)

\* The size of a block, and of the space.
LEMMA Sizes ==
  ASSUME PowersOfTwo, NEW bits \in 0 .. AddressBits
  PROVE  /\ 2^AddressBits \in Nat \ {0}
         /\ 2^(AddressBits - bits) \in Nat \ {0}
         /\ 2^AddressBits % 2^(AddressBits - bits) = 0
         /\ bits <= AddressBits - 2 => 2^(AddressBits - bits) >= 4
  <1>1. AddressBits \in 0 .. AddressBits /\ AddressBits - bits \in 0 .. AddressBits
    BY SpaceAssumption
  <1>2. bits <= AddressBits - 2 => AddressBits - bits >= 2
    BY SpaceAssumption
  <1> QED
    BY <1>1, <1>2 DEF PowersOfTwo

\* The number of addresses.
LEMMA SpaceSize ==
  ASSUME PowersOfTwo
  PROVE  MaxAddress \in Nat /\ MaxAddress + 1 = 2^AddressBits
  <1>1. 0 \in 0 .. AddressBits
    BY SpaceAssumption
  <1> QED
    BY <1>1, Sizes DEF MaxAddress

\* The fields of a subnet.
LEMMA SubnetFields ==
  ASSUME NEW s \in Subnets
  PROVE  /\ s.gateway \in Address \cup {NoGateway}
         /\ s.cidr \in BOOLEAN
         /\ s.cidr => s.addr \in Address /\ s.bits \in 0 .. AddressBits
         /\ ~s.cidr => s.start \in Address /\ s.end \in Address
  BY DEF Subnets

\* The block of a prefix holds the address it is written with.
LEMMA Blocks ==
  ASSUME PowersOfTwo, NEW s, s.addr \in Address, s.bits \in 0 .. AddressBits
  PROVE  /\ Masked(s) \in Nat /\ HostMask(s) \in Nat
         /\ Broadcast(s) = Masked(s) + HostMask(s)
         /\ Masked(s) <= s.addr /\ s.addr <= Broadcast(s) /\ Broadcast(s) <= MaxAddress
         /\ Masked(s) % (HostMask(s) + 1) = 0
         /\ s.bits <= AddressBits - 2 => HostMask(s) >= 3
         /\ MaxAddress \in Nat
  <1> DEFINE h == 2^(AddressBits - s.bits)
             n == 2^AddressBits
  <1>1. h \in Nat \ {0} /\ n \in Nat \ {0} /\ n % h = 0 /\ (s.bits <= AddressBits - 2 => h >= 4)
    BY Sizes
  <1>2. s.addr \in Nat /\ s.addr < n
    BY <1>1 DEF Address, MaxAddress
  <1>3. HostMask(s) = h - 1 /\ HostMask(s) + 1 = h /\ MaxAddress = n - 1
    BY <1>1 DEF HostMask, MaxAddress
  <1>4. Masked(s) = s.addr - (s.addr % h)
    BY <1>3 DEF Masked
  <1> HIDE DEF h, n
  <1>5. /\ Masked(s) \in Nat /\ Masked(s) % h = 0
        /\ Masked(s) <= s.addr /\ s.addr < Masked(s) + h
    BY <1>1, <1>2, <1>4, Mask
  <1>6. Masked(s) + h <= n
    BY <1>1, <1>2, <1>5, Aligned
  <1> QED
    BY <1>1, <1>2, <1>3, <1>5, <1>6 DEF Broadcast

\* The addresses of a regular subnet that a device may have.
Usable(s) == IF s.cidr THEN Masked(s) + 1 .. Broadcast(s) - 1 ELSE s.start .. s.end

\* For any subnet, GetIPAddress yields an address, or says that there is none.
LEMMA Yields ==
  ASSUME PowersOfTwo, NEW s \in Subnets, NEW i \in 0 .. MaxAddress
  PROVE  GetIPAddress(s, i) \in Address \cup {Invalid, OutOfRange}
  <1>1. CASE s.cidr
    <2>1. /\ s.addr \in Address /\ MaxAddress \in Nat /\ MaxAddress = 2^AddressBits - 1
          /\ Broadcast(s) \in Nat /\ i \in Nat
      BY <1>1, Blocks, SubnetFields DEF MaxAddress
    <2>2. LastUsable(s) \in 0 .. MaxAddress
      <3>1. (Broadcast(s) - 1) % (MaxAddress + 1) \in 0 .. MaxAddress
        BY <2>1
      <3>2. MaxAddress + 1 = 2^AddressBits
        BY SpaceSize
      <3> QED
        BY <3>1, <3>2 DEF LastUsable
    <2>3. FirstUsable(s) \in (1 .. MaxAddress) \cup {Invalid}
      BY <2>1 DEF FirstUsable, Address, Invalid
    <2>4. ASSUME FirstUsable(s) \in Nat, FirstUsable(s) + i <= LastUsable(s)
          PROVE  FirstUsable(s) + i \in Address
      BY <2>1, <2>2, <2>4 DEF Address
    <2>5. /\ FirstUsable(s) # Invalid => FirstUsable(s) \in Nat /\ FirstUsable(s) \in Address
          /\ FirstUsable(s) = Invalid => FirstUsable(s) \notin Nat
      BY <2>3 DEF Address, Invalid
    <2>6. \/ GetIPAddress(s, i) = OutOfRange
          \/ GetIPAddress(s, i) = FirstUsable(s)
          \/ /\ GetIPAddress(s, i) = FirstUsable(s) + i
             /\ FirstUsable(s) # Invalid /\ FirstUsable(s) + i <= LastUsable(s)
      BY <1>1 DEF GetIPAddress
    <2> QED
      BY <2>4, <2>5, <2>6
  <1>2. CASE ~s.cidr
    <2>1. /\ s.start \in 0 .. MaxAddress /\ s.end \in 0 .. MaxAddress
          /\ MaxAddress \in Nat /\ i \in Nat
      BY <1>2, SubnetFields, SpaceSize DEF Address
    <2> QED
      BY <1>2, <2>1 DEF GetIPAddress, Address, Invalid
  <1> QED
    BY <1>1, <1>2

\* Of a regular subnet it yields the usable addresses and no others.
LEMMA RegularYields ==
  ASSUME PowersOfTwo, NEW s \in Subnets, Regular(s), NEW i \in 0 .. MaxAddress,
         GetIPAddress(s, i) # OutOfRange
  PROVE  GetIPAddress(s, i) \in Usable(s)
  <1>1. CASE s.cidr
    <2>1. /\ Masked(s) = s.addr /\ Masked(s) \in Nat /\ i \in Nat /\ MaxAddress \in Nat
          /\ HostMask(s) \in Nat /\ HostMask(s) >= 3
          /\ Broadcast(s) = Masked(s) + HostMask(s) /\ Broadcast(s) <= MaxAddress
      BY <1>1, Blocks, SubnetFields DEF Regular
    <2>2. FirstUsable(s) = s.addr + 1
      BY <2>1 DEF FirstUsable
    <2>3. LastUsable(s) = Broadcast(s) - 1
      <3>1. (Broadcast(s) - 1) % (MaxAddress + 1) = Broadcast(s) - 1
        BY <2>1
      <3>2. MaxAddress + 1 = 2^AddressBits
        BY SpaceSize
      <3> QED
        BY <3>1, <3>2 DEF LastUsable
    <2> QED
      BY <1>1, <2>1, <2>2, <2>3 DEF GetIPAddress, Usable, Invalid
  <1>2. CASE ~s.cidr
    <2>1. s.start \in 0 .. MaxAddress /\ s.end \in 0 .. MaxAddress /\ i \in Int
      BY <1>2, SubnetFields DEF Address
    <2> QED
      BY <1>2, <2>1 DEF GetIPAddress, Usable
  <1> QED
    BY <1>1, <1>2

\* And every one of them.
LEMMA RegularReaches ==
  ASSUME PowersOfTwo, NEW s \in Subnets, Regular(s), NEW ip \in Usable(s)
  PROVE  ip \in Address /\ \E i \in 0 .. MaxAddress : GetIPAddress(s, i) = ip
  <1>1. CASE s.cidr
    <2>1. /\ Masked(s) = s.addr /\ Masked(s) \in Nat /\ MaxAddress \in Nat
          /\ HostMask(s) \in Nat /\ HostMask(s) >= 3
          /\ Broadcast(s) = Masked(s) + HostMask(s) /\ Broadcast(s) <= MaxAddress
      BY <1>1, Blocks, SubnetFields DEF Regular
    <2>2. ip \in s.addr + 1 .. Broadcast(s) - 1
      BY <1>1, <2>1 DEF Usable
    <2>3. FirstUsable(s) = s.addr + 1
      BY <2>1 DEF FirstUsable
    <2>4. LastUsable(s) = Broadcast(s) - 1
      <3>1. (Broadcast(s) - 1) % (MaxAddress + 1) = Broadcast(s) - 1
        BY <2>1
      <3>2. MaxAddress + 1 = 2^AddressBits
        BY SpaceSize
      <3> QED
        BY <3>1, <3>2 DEF LastUsable
    <2>5. ip - (s.addr + 1) \in 0 .. MaxAddress
      BY <2>1, <2>2
    <2>6. GetIPAddress(s, ip - (s.addr + 1)) = ip
      BY <1>1, <2>1, <2>2, <2>3, <2>4 DEF GetIPAddress, Invalid
    <2> QED
      BY <2>1, <2>2, <2>5, <2>6 DEF Address
  <1>2. CASE ~s.cidr
    <2>1. /\ s.start \in 0 .. MaxAddress /\ s.end \in 0 .. MaxAddress /\ MaxAddress \in Nat
          /\ ip \in s.start .. s.end
      BY <1>2, SubnetFields, SpaceSize DEF Address, Usable
    <2>2. ip - s.start \in 0 .. MaxAddress
      BY <2>1
    <2>3. GetIPAddress(s, ip - s.start) = ip
      BY <1>2, <2>1 DEF GetIPAddress, Invalid
    <2> QED
      BY <2>1, <2>2, <2>3 DEF Address
  <1> QED
    BY <1>1, <1>2

\* PoolSpecToIPSet leaves out the subnet's gateway and nothing else.
LEMMA RegularSet ==
  ASSUME PowersOfTwo, NEW s \in Subnets, Regular(s)
  PROVE  PoolSpecToIPSet(s) = Usable(s) \ {s.gateway}
  <1>1. CASE s.cidr
    <2>1. Masked(s) \in Nat /\ Broadcast(s) \in Nat /\ s.exclude = {}
      BY <1>1, Blocks, SubnetFields DEF Regular
    <2> QED
      BY <1>1, <2>1 DEF PoolSpecToIPSet, Usable
  <1>2. CASE ~s.cidr
    BY <1>2 DEF PoolSpecToIPSet, Usable, Regular
  <1> QED
    BY <1>1, <1>2, SubnetFields
-----------------------------------------------------------------------------
(* allocateNextIP. *)

\* The subnets of a spec.
LEMMA SpecSubnets ==
  ASSUME NEW s \in Specs
  PROVE  /\ s.subnets \in Seq(Subnets) /\ 1 \in DOMAIN s.subnets /\ DOMAIN s.subnets \subseteq Nat
         /\ \A k \in DOMAIN s.subnets : s.subnets[k] \in Subnets
  <1>1. s.subnets \in Seq(Subnets) /\ s.subnets # << >>
    BY SpaceAssumption
  <1> QED
    BY <1>1

\* An address is found at an index of a subnet, and nobody has it.
LEMMA Found ==
  ASSUME spec \in Specs, NextIP # Exhausted
  PROVE  \E k \in DOMAIN spec.subnets : \E i \in 0 .. MaxAddress :
           /\ NextIP = GetIPAddress(spec.subnets[k], i)
           /\ NextIP \notin Taken \cup {OutOfRange, GetGateway(spec.subnets[k])}
  <1> DEFINE open == {k \in DOMAIN spec.subnets : FreeIndices(spec.subnets[k]) # {}}
             subnet == spec.subnets[Min(open)]
  <1>1. open # {} /\ NextIP = GetIPAddress(subnet, Min(FreeIndices(subnet)))
    BY DEF NextIP
  <1>2. Min(open) \in DOMAIN spec.subnets /\ FreeIndices(subnet) # {}
    <2>1. open \in SUBSET Nat
      BY SpecSubnets
    <2>2. Min(open) \in open
      BY <1>1, <2>1, MinOfNat
    <2> QED
      BY <2>2
  <1>3. Min(FreeIndices(subnet)) \in FreeIndices(subnet)
    <2>1. FreeIndices(subnet) \in SUBSET Nat
      BY DEF FreeIndices
    <2> QED
      BY <1>2, <2>1, MinOfNat
  <1> HIDE DEF open
  <1> QED
    BY <1>1, <1>2, <1>3 DEF FreeIndices

\* When none is found, every index yields an address that somebody has.
LEMMA NoneFound ==
  ASSUME PowersOfTwo, spec \in Specs, NextIP = Exhausted,
         NEW k \in DOMAIN spec.subnets, NEW i \in 0 .. MaxAddress
  PROVE  GetIPAddress(spec.subnets[k], i) \in
           Taken \cup {OutOfRange, GetGateway(spec.subnets[k])}
  <1> DEFINE open == {j \in DOMAIN spec.subnets : FreeIndices(spec.subnets[j]) # {}}
  <1>1. CASE open = {}
    BY <1>1 DEF FreeIndices
  <1>2. CASE open # {}
    <2> DEFINE subnet == spec.subnets[Min(open)]
               index == Min(FreeIndices(subnet))
    <2>1. NextIP = GetIPAddress(subnet, index)
      BY <1>2 DEF NextIP
    <2>2. subnet \in Subnets /\ FreeIndices(subnet) # {}
      <3>1. open \in SUBSET Nat
        BY SpecSubnets
      <3>2. Min(open) \in open
        BY <1>2, <3>1, MinOfNat
      <3> QED
        BY <3>2, SpecSubnets
    <2>3. index \in 0 .. MaxAddress
      <3>1. FreeIndices(subnet) \in SUBSET Nat
        BY DEF FreeIndices
      <3>2. index \in FreeIndices(subnet)
        BY <2>2, <3>1, MinOfNat
      <3> QED
        BY <3>2 DEF FreeIndices
    <2>4. GetIPAddress(subnet, index) \in Address \cup {Invalid, OutOfRange}
      BY <2>2, <2>3, Yields
    <2> QED
      BY <2>1, <2>4, SpaceSize DEF Exhausted, Invalid, OutOfRange, Address
  <1> QED
    BY <1>1, <1>2

\* From regular subnets allocateNextIP hands out what PoolSpecToIPSet has.
LEMMA FoundInRange ==
  ASSUME PowersOfTwo, SpecsAreRegular, spec \in Specs
  PROVE  AllocatorInRange
  <1> SUFFICES ASSUME NextIP # Exhausted
               PROVE  \E k \in DOMAIN spec.subnets : NextIP \in PoolSpecToIPSet(spec.subnets[k])
    BY DEF AllocatorInRange
  <1>1. PICK k \in DOMAIN spec.subnets, i \in 0 .. MaxAddress :
          /\ NextIP = GetIPAddress(spec.subnets[k], i)
          /\ NextIP \notin Taken \cup {OutOfRange, GetGateway(spec.subnets[k])}
    BY Found
  <1> DEFINE s == spec.subnets[k]
  <1>2. s \in Subnets /\ Regular(s)
    BY SpecSubnets DEF SpecsAreRegular
  <1> HIDE DEF s
  <1>3. NextIP \in Usable(s)
    BY <1>1, <1>2, RegularYields DEF s
  <1>4. NextIP # s.gateway
    <2>1. NextIP \in Address
      BY <1>2, <1>3, RegularReaches
    <2>2. NoGateway \notin Address
      BY DEF NoGateway, Address
    <2> QED
      BY <1>1, <2>1, <2>2 DEF GetGateway, s
  <1> QED
    BY <1>2, <1>3, <1>4, RegularSet DEF s

\* It finds none only when all that PoolSpecToIPSet has is taken.
LEMMA NoneFoundIsFull ==
  ASSUME PowersOfTwo, SpecsAreRegular, spec \in Specs
  PROVE  ExhaustedOnlyWhenFull
  <1> SUFFICES ASSUME NextIP = Exhausted, NEW k \in DOMAIN spec.subnets,
                      NEW ip \in PoolSpecToIPSet(spec.subnets[k]),
                      ip # GetGateway(spec.subnets[k])
               PROVE  ip \in Taken
    BY DEF ExhaustedOnlyWhenFull
  <1>1. spec.subnets[k] \in Subnets /\ Regular(spec.subnets[k])
    BY SpecSubnets DEF SpecsAreRegular
  <1>2. ip \in Usable(spec.subnets[k])
    BY <1>1, RegularSet
  <1>3. ip \in Address /\ \E i \in 0 .. MaxAddress : GetIPAddress(spec.subnets[k], i) = ip
    BY <1>1, <1>2, RegularReaches
  <1>4. OutOfRange \notin Address
    BY DEF OutOfRange, Address
  <1> QED
    BY <1>3, <1>4, NoneFound

\* What PoolSpecToIPSet has is inside the subnet.
LEMMA SetInside ==
  ASSUME PowersOfTwo, NEW s \in Subnets, Regular(s), NEW ip \in PoolSpecToIPSet(s)
  PROVE  ip \in Address /\ Contains(s, ip)
  <1>1. ip \in Usable(s)
    BY RegularSet
  <1>2. ip \in Address
    BY <1>1, RegularReaches
  <1>3. s.cidr => ip \in Masked(s) .. Broadcast(s)
    BY DEF PoolSpecToIPSet
  <1> QED
    BY <1>1, <1>2, <1>3 DEF Contains, Usable
-----------------------------------------------------------------------------
(* FindNetworkForSubnet. *)

\* The fields of a network.
LEMMA NetworkFields ==
  ASSUME networks \in NetworkLists, NEW k \in DOMAIN networks
  PROVE  /\ networks[k].id \in Nat \ {NoNetwork} /\ networks[k].cidr
         /\ networks[k].addr \in Address /\ networks[k].bits \in 0 .. AddressBits
         /\ networks[k].gateway \in Address \cup {NoGateway}
  <1>1. networks[k] \in Networks
    BY NetworkAssumption
  <1> QED
    BY <1>1 DEF Networks

\* A lookup yields a network that contains the prefix, or there is none.
LEMMA Lookup ==
  ASSUME networks \in NetworkLists, NEW prefix
  PROVE  IF FindNetworkForSubnet(prefix) = NoNetwork
         THEN \A k \in DOMAIN networks : ~ContainsPrefix(networks[k], prefix)
         ELSE \E k \in DOMAIN networks : /\ FindNetworkForSubnet(prefix) = networks[k].id
                                         /\ ContainsPrefix(networks[k], prefix)
  <1> DEFINE found == {k \in DOMAIN networks : ContainsPrefix(networks[k], prefix)}
  <1>1. CASE found = {}
    BY <1>1 DEF FindNetworkForSubnet
  <1>2. CASE found # {}
    <2>1. found \in SUBSET Nat
      BY NetworkAssumption
    <2>2. Min(found) \in found
      BY <1>2, <2>1, MinOfNat
    <2>3. FindNetworkForSubnet(prefix) = networks[Min(found)].id
      BY <1>2 DEF FindNetworkForSubnet
    <2>4. networks[Min(found)].id # NoNetwork
      BY <2>2, NetworkFields
    <2> QED
      BY <2>2, <2>3, <2>4
  <1> QED
    BY <1>1, <1>2

-----------------------------------------------------------------------------
(* The theorems about allocation. *)

\* Pool and networks keep their types: allocateNextIP returns an address, if only
\* the zero one, for every spec.
THEOREM TypeCorrect ==
  ASSUME PowersOfTwo
  PROVE  NetSpec => []NetTypeOK
  <1>1. NetInit => NetTypeOK
    BY DEF NetInit, Init, NetTypeOK, TypeOK
  <1>2. NetTypeOK /\ [NetNext]_<<vars, netVars>> => NetTypeOK'
    <2> SUFFICES ASSUME NetTypeOK, [NetNext]_<<vars, netVars>> PROVE NetTypeOK'
      OBVIOUS
    <2> USE DEF NetTypeOK, TypeOK
    <2>1. CASE Next /\ UNCHANGED netVars
      <3>1. CASE Allocate
        <4>1. NextIP \in Address \cup {Invalid}
          BY <3>1, Found, Yields, SpecSubnets DEF Allocate
        <4> QED
          BY <2>1, <3>1, <4>1 DEF Allocate, CreateUser, netVars
      <3>2. CASE \E ip \in Address : AllocateRequested(ip)
        BY <2>1, <3>2 DEF AllocateRequested, CreateUser, netVars
      <3>3. CASE \E ip \in users : WriteAddress(ip) \/ Release(ip) \/ ListAddress(ip)
        BY <2>1, <3>3 DEF WriteAddress, Release, ListAddress, netVars
      <3>4. CASE EditPool
        BY <2>1, <3>4 DEF EditPool, netVars
      <3> QED
        BY <2>1, <3>1, <3>2, <3>3, <3>4 DEF Next
    <2>2. CASE SyncPool
      <3>1. UNCHANGED <<vars, networks>> /\ synced' \in {synced, "True", "False"}
        BY <2>2 DEF SyncPool
      <3>2. discovered' \in {discovered, NoNetwork} \cup {networks[k].id : k \in DOMAIN networks}
        BY <2>2, Lookup DEF SyncPool
      <3>3. discovered' \in {NoNetwork} \cup UNION {{l[k].id : k \in DOMAIN l} : l \in NetworkLists}
        BY <3>2
      <3> QED
        BY <3>1, <3>3 DEF vars
    <2>3. CASE EditNetworks
      BY <2>3 DEF EditNetworks, vars
    <2>4. CASE UNCHANGED <<vars, netVars>>
      BY <2>4 DEF vars, netVars
    <2> QED
      BY <2>1, <2>2, <2>3, <2>4 DEF NetNext
  <1> QED
    BY <1>1, <1>2, PTL DEF NetSpec

\* Of regular specs, dynamic allocation hands out addresses of the pool's set.
THEOREM AllocationsAreInRange ==
  ASSUME PowersOfTwo, SpecsAreRegular
  PROVE  NetSpec => []AllocatorInRange
  <1>1. NetTypeOK => AllocatorInRange
    BY FoundInRange DEF NetTypeOK, TypeOK
  <1> QED
    BY <1>1, TypeCorrect, PTL

\* Of regular specs, dynamic allocation fails only when the pool's set is taken.
THEOREM ExhaustedMeansFull ==
  ASSUME PowersOfTwo, SpecsAreRegular
  PROVE  NetSpec => []ExhaustedOnlyWhenFull
  <1>1. NetTypeOK => ExhaustedOnlyWhenFull
    BY NoneFoundIsFull DEF NetTypeOK, TypeOK
  <1> QED
    BY <1>1, TypeCorrect, PTL

\* With the webhooks and regular specs, no edit takes the subnet from under a
\* listed address.  One that was never inside may stay outside (PoolOrphan).
THEOREM ListedAddressesStayInside ==
  ASSUME PowersOfTwo, SpecsAreRegular
  PROVE  NetSpec => ListedStayInside
  <1> DEFINE Stays == webhooks => \A ip \in listed : IPInSubnets(ip) => IPInSubnets(ip)'
  <1>1. NetTypeOK /\ [NetNext]_<<vars, netVars>> => [Stays]_vars
    <2> SUFFICES ASSUME NetTypeOK, [NetNext]_<<vars, netVars>>, webhooks,
                        NEW ip \in listed, IPInSubnets(ip)
                 PROVE  IPInSubnets(ip)'
      OBVIOUS
    <2> USE DEF IPInSubnets
    <2>1. CASE UNCHANGED spec
      BY <2>1
    <2>2. CASE EditPool
      <3>1. spec' \in Specs /\ Admitted(spec')
        BY <2>2 DEF EditPool
      <3>2. /\ 1 \in DOMAIN spec'.subnets /\ spec'.subnets[1] \in Subnets
            /\ Regular(spec'.subnets[1])
        BY <3>1, SpecSubnets DEF SpecsAreRegular
      <3>3. ip \in Address
        <4>1. PICK k \in DOMAIN spec.subnets : Contains(spec.subnets[k], ip)
          OBVIOUS
        <4>2. spec.subnets[k] \in Subnets
          BY SpecSubnets DEF NetTypeOK, TypeOK
        <4>3. ip # Invalid
          BY <4>1, <4>2, SubnetFields, Blocks DEF Contains, Invalid, Address
        <4> QED
          BY <4>3 DEF NetTypeOK, TypeOK
      <3>4. ip \in PoolSpecToIPSet(spec'.subnets[1])
        BY <3>1, <3>3 DEF Admitted, OrphanedIPs
      <3> QED
        BY <3>2, <3>4, SetInside
    <2> QED
      BY <2>1, <2>2 DEF NetNext, Next, Allocate, CreateUser, AllocateRequested,
         WriteAddress, Release, ListAddress, SyncPool, EditNetworks, vars
  <1> QED
    <2> HIDE DEF Stays
    <2>1. NetSpec => [][Stays]_vars
      BY <1>1, TypeCorrect, PTL DEF NetSpec
    <2> QED
      BY <2>1 DEF ListedStayInside, Stays

-----------------------------------------------------------------------------
(* The theorems about networks. *)

\* The network of an ID: IDs differ.
LEMMA TheNetwork ==
  ASSUME networks \in NetworkLists, NEW j \in DOMAIN networks, NEW n \in GetNetwork(networks[j].id)
  PROVE  n = networks[j]
  BY NetworkAssumption DEF GetNetwork

\* Every allocation from a regular subnet is one of its usable addresses.
LEMMA AllocatableUsable ==
  ASSUME PowersOfTwo, NEW s \in Subnets, Regular(s)
  PROVE  Allocatable(s) \subseteq Usable(s) \ {GetGateway(s)}
  BY RegularYields DEF Allocatable

\* A network that contains the prefix holds every allocation from the subnet.
LEMMA ContainedIsHeld ==
  ASSUME PowersOfTwo, networks \in NetworkLists, NEW k \in DOMAIN networks,
         NEW s \in Subnets, Regular(s), InBlock(s),
         ContainsPrefix(networks[k], LookupPrefix(s))
  PROVE  Allocatable(s) \subseteq Masked(networks[k]) .. Broadcast(networks[k])
  <1> DEFINE n == networks[k]
             p == LookupPrefix(s)
  <1>1. /\ Masked(n) \in Nat /\ Broadcast(n) \in Int
        /\ p.addr \in Masked(n) .. Broadcast(n) /\ Broadcast(p) \in Masked(n) .. Broadcast(n)
    <2>1. n.cidr /\ Masked(n) \in Nat /\ HostMask(n) \in Nat /\ Broadcast(n) = Masked(n) + HostMask(n)
      BY NetworkFields, Blocks
    <2> QED
      BY <2>1 DEF ContainsPrefix, Contains
  <1> HIDE DEF n, p
  <1>2. Usable(s) \subseteq p.addr .. Broadcast(p)
    <2>1. CASE s.cidr
      <3>1. p = s /\ s.addr = Masked(s) /\ Masked(s) \in Nat
        BY <2>1, SubnetFields, Blocks DEF p, LookupPrefix, Regular
      <3>2. Broadcast(s) \in Nat
        BY <2>1, SubnetFields, Blocks
      <3> QED
        BY <2>1, <3>1, <3>2 DEF Usable
    <2>2. CASE ~s.cidr
      <3> DEFINE h == 2^(AddressBits - RangePrefix)
      <3>1. /\ s.start \in Address /\ s.end \in Address
            /\ p.addr = s.start - (s.start % h) /\ p.bits = RangePrefix
        BY <2>2, SubnetFields DEF p, LookupPrefix
      <3>2. h \in Nat \ {0}
        BY Sizes, NetworkAssumption
      <3>3. HostMask(p) + 1 = h
        BY <3>1, <3>2 DEF HostMask
      <3> HIDE DEF h
      <3>4. p.addr \in Nat /\ p.addr % h = 0 /\ p.addr <= s.start
        BY <3>1, <3>2, Mask DEF Address
      <3>5. p.addr \in Address
        BY <3>1, <3>4, SpaceSize DEF Address
      <3>6. Masked(p) = p.addr /\ Broadcast(p) \in Nat
        BY <3>1, <3>3, <3>4, <3>5, Blocks, NetworkAssumption DEF Masked
      <3>7. s.end <= Broadcast(p) /\ s.start \in Nat /\ s.end \in Nat
        BY <2>2, <3>1, <3>6 DEF InBlock, p, Address
      <3> QED
        BY <2>2, <3>4, <3>6, <3>7 DEF Usable
    <2> QED
      BY <2>1, <2>2, SubnetFields
  <1>3. Usable(s) \subseteq Masked(n) .. Broadcast(n)
    BY <1>1, <1>2
  <1> QED
    BY <1>3, AllocatableUsable DEF n

\* What a step of the spec does to the network a pool is given.
LEMMA OnlySynced ==
  ASSUME [NetNext]_<<vars, netVars>>
  PROVE  SyncPool \/ UNCHANGED <<discovered, synced>>
  BY DEF NetNext, EditNetworks, netVars

\* The network that is discovered holds every address that is allocated from the
\* first subnet, whatever the list of networks.
THEOREM DiscoveryHolds ==
  ASSUME PowersOfTwo, SpecsAreRegular
  PROVE  NetSpec => DiscoveredHoldsSubnet
  <1> DEFINE Holds == discovered = NoNetwork /\ discovered' # NoNetwork /\ InBlock(FirstSubnet) =>
               \A network \in GetNetwork(discovered') :
                 Allocatable(FirstSubnet) \subseteq Masked(network) .. Broadcast(network)
  <1>1. NetTypeOK /\ [NetNext]_<<vars, netVars>> => Holds
    <2> SUFFICES ASSUME NetTypeOK, [NetNext]_<<vars, netVars>>,
                        discovered = NoNetwork, discovered' # NoNetwork, InBlock(FirstSubnet),
                        NEW n \in GetNetwork(discovered')
                 PROVE  Allocatable(FirstSubnet) \subseteq Masked(n) .. Broadcast(n)
      OBVIOUS
    <2>1. SyncPool
      BY OnlySynced
    <2>2. discovered' = FindNetworkForSubnet(LookupPrefix(FirstSubnet))
      BY <2>1 DEF SyncPool
    <2>3. networks \in NetworkLists /\ FirstSubnet \in Subnets /\ Regular(FirstSubnet)
      BY SpecSubnets DEF NetTypeOK, TypeOK, FirstSubnet, SpecsAreRegular
    <2>4. PICK k \in DOMAIN networks : /\ discovered' = networks[k].id
                                       /\ ContainsPrefix(networks[k], LookupPrefix(FirstSubnet))
      BY <2>2, <2>3, Lookup
    <2>5. n = networks[k]
      BY <2>3, <2>4, TheNetwork
    <2> QED
      BY <2>3, <2>4, <2>5, ContainedIsHeld
  <1>2. NetSpec => [][Holds]_<<vars, netVars>>
    <2> HIDE DEF Holds
    <2> QED
      BY <1>1, TypeCorrect, PTL DEF NetSpec
  <1> QED
    BY <1>2 DEF DiscoveredHoldsSubnet

\* When a sync finds no drift, allocation from the first subnet yields usable
\* addresses of the network, and not its gateway, whenever it was discovered.
THEOREM SyncIsUsable ==
  ASSUME PowersOfTwo, SpecsAreRegular
  PROVE  NetSpec => SyncedMeansUsable
  <1> DEFINE Usables == synced # "True" /\ synced' = "True" =>
               \A network \in GetNetwork(discovered') :
                 Allocatable(FirstSubnet) \subseteq
                   (Masked(network) + 1 .. Broadcast(network) - 1) \ {GatewayOf(network)}
  <1>1. NetTypeOK /\ [NetNext]_<<vars, netVars>> => Usables
    <2> SUFFICES ASSUME NetTypeOK, [NetNext]_<<vars, netVars>>,
                        synced # "True", synced' = "True", NEW n \in GetNetwork(discovered')
                 PROVE  Allocatable(FirstSubnet) \subseteq
                          (Masked(n) + 1 .. Broadcast(n) - 1) \ {GatewayOf(n)}
      OBVIOUS
    <2>1. SyncPool
      BY OnlySynced
    <2>2. networks \in NetworkLists /\ FirstSubnet \in Subnets /\ Regular(FirstSubnet)
      BY SpecSubnets DEF NetTypeOK, TypeOK, FirstSubnet, SpecsAreRegular
    <2>3. PICK k \in DOMAIN networks : n = networks[k] /\ networks[k].id = discovered'
      BY DEF GetNetwork
    <2>4. PICK m \in GetNetwork(discovered') : ~Drift(FirstSubnet, m)
      BY <2>1 DEF SyncPool
    <2>5. m = n
      BY <2>2, <2>3, <2>4, TheNetwork
    <2> DEFINE s == FirstSubnet
    <2>6. s.cidr /\ s.addr = n.addr /\ s.bits = n.bits /\ s.gateway = GatewayOf(n)
      BY <2>4, <2>5 DEF Drift, CIDRDrift
    <2>7. Usable(s) = Masked(n) + 1 .. Broadcast(n) - 1
      BY <2>6 DEF Usable, Masked, Broadcast, HostMask
    <2>8. GetGateway(s) = GatewayOf(n)
      <3> DEFINE o == 2^OctetBits
      <3>1. n.addr \in Nat /\ n.gateway \in Nat \cup {NoGateway} /\ o \in Nat \ {0}
        BY <2>2, <2>3, NetworkFields, SpaceAssumption DEF Address, PowersOfTwo
      <3> HIDE DEF o
      <3>2. n.addr - (n.addr % o) \in Nat /\ ((n.addr % o) + 1) % o \in Nat
        BY <3>1, Mask
      <3>3. GatewayOf(n) # NoGateway
        BY <3>1, <3>2 DEF GatewayOf, NoGateway, LastOctet, o
      <3> QED
        BY <2>6, <3>3 DEF GetGateway
    <2> HIDE DEF s
    <2>9. Allocatable(s) \subseteq Usable(s) \ {GetGateway(s)}
      BY <2>2, AllocatableUsable DEF s
    <2> QED
      BY <2>7, <2>8, <2>9 DEF s
  <1>2. NetSpec => [][Usables]_<<vars, netVars>>
    <2> HIDE DEF Usables
    <2> QED
      BY <1>1, TypeCorrect, PTL DEF NetSpec
  <1> QED
    BY <1>2 DEF SyncedMeansUsable

\* A block of h and a block of H, one of which divides the other: what holds the
\* middle of the block of H, but for one address, holds all of it.
LEMMA Nested ==
  ASSUME NEW m \in Nat, NEW a \in Nat, NEW h \in Nat, NEW H \in Nat, NEW g \in Int,
         h >= 4, H >= 4, m % h = 0, a % H = 0, h % H = 0 \/ H % h = 0,
         \A ip \in a + 1 .. a + H - 2 : ip # g => m <= ip /\ ip < m + h
  PROVE  m <= a /\ a + H <= m + h
  <1> DEFINE x == IF g = a + 1 THEN a + 2 ELSE a + 1
             y == IF g = a + H - 2 THEN a + H - 3 ELSE a + H - 2
  <1>1. x \in a + 1 .. a + 2 /\ x # g
    OBVIOUS
  <1>2. y \in a + H - 3 .. a + H - 2 /\ y # g /\ y - x >= H - 4
    OBVIOUS
  <1> HIDE DEF x, y
  <1>3. m <= x /\ x < m + h /\ m <= y /\ y < m + h
    <2>1. x \in a + 1 .. a + H - 2 /\ y \in a + 1 .. a + H - 2
      BY <1>1, <1>2
    <2> QED
      BY <1>1, <1>2, <2>1
  <1>4. CASE h % H = 0
    <2>1. PICK w \in Nat : h = w * H
      BY <1>4, Quotient
    <2>2. PICK u \in Nat : m = u * h
      BY Quotient
    <2>3. PICK v \in Nat : a = v * H
      BY Quotient
    <2>4. m = (u * w) * H /\ u * w \in Nat /\ m + h = (u * w + w) * H
      BY <2>1, <2>2
    <2>5. m < (v + 1) * H
      <3>1. (v + 1) * H = a + H
        BY <2>3
      <3> QED
        BY <1>1, <1>3, <3>1
    <2>6. m + H <= a + H
      <3>1. (u * w) * H + H <= (v + 1) * H
        BY <2>4, <2>5, Cancel
      <3>2. (v + 1) * H = a + H
        BY <2>3
      <3> QED
        BY <2>4, <3>1, <3>2
    <2>7. v * H + H <= m + h
      <3>1. v * H < (u * w + w) * H
        BY <1>1, <1>3, <2>3, <2>4
      <3>2. v * H + H <= (u * w + w) * H
        BY <2>4, <3>1, Cancel
      <3> QED
        BY <2>4, <3>2
    <2> QED
      BY <2>3, <2>6, <2>7
  <1>5. CASE h % H # 0 /\ H % h = 0
    <2>1. PICK w \in Nat : H = w * h
      BY <1>5, Quotient
    <2>2. w # 1 /\ w # 0
      BY <1>5, <2>1
    <2>3. 2 * h <= H
      BY <2>1, <2>2, Times
    <2> QED
      BY <1>1, <1>2, <1>3, <2>3
  <1> QED
    BY <1>4, <1>5

\* When the lookup fails, no network holds what is allocated from the subnet: a
\* network that held all but its gateway would hold its first and last address.
LEMMA NoneHolds ==
  ASSUME PowersOfTwo, SpecsAreRegular, NetworksAreRegular, NetTypeOK
  PROVE  NetworkFound
  <1> DEFINE s == FirstSubnet
  <1> SUFFICES ASSUME s.cidr, FindNetworkForSubnet(LookupPrefix(s)) = NoNetwork,
                      NEW k \in DOMAIN networks,
                      PoolSpecToIPSet(s) \subseteq Masked(networks[k]) .. Broadcast(networks[k])
               PROVE  FALSE
    BY DEF NetworkFound
  <1> DEFINE n == networks[k]
             h == HostMask(n) + 1
             H == HostMask(s) + 1
  <1>1. networks \in NetworkLists /\ s \in Subnets /\ Regular(s)
    BY SpecSubnets DEF NetTypeOK, TypeOK, SpecsAreRegular, FirstSubnet
  <1>2. s.addr \in Address /\ s.bits \in 0 .. AddressBits /\ s.bits <= AddressBits - 2
        /\ s.gateway \in Int /\ s.addr = Masked(s)
    <2>1. s.gateway \in Address \cup {NoGateway}
      BY <1>1, SubnetFields
    <2> QED
      BY <1>1, <2>1, SubnetFields DEF Regular, Address, NoGateway
  <1>3. /\ n.cidr /\ n.addr \in Address /\ n.bits \in 0 .. AddressBits
        /\ n.bits <= AddressBits - 2
    BY <1>1, NetworkFields DEF NetworksAreRegular
  <1>4. /\ s.addr \in Nat /\ H \in Nat /\ H >= 4 /\ s.addr % H = 0
        /\ Broadcast(s) = s.addr + H - 1
    BY <1>2, Blocks
  <1>5. /\ Masked(n) \in Nat /\ h \in Nat /\ h >= 4 /\ Masked(n) % h = 0
        /\ Broadcast(n) = Masked(n) + h - 1
    BY <1>3, Blocks
  <1>6. h % H = 0 \/ H % h = 0
    <2>1. /\ 2^(AddressBits - s.bits) \in Nat \ {0} /\ 2^(AddressBits - n.bits) \in Nat \ {0}
      BY <1>2, <1>3, Sizes
    <2>2. H = 2^(AddressBits - s.bits) /\ h = 2^(AddressBits - n.bits)
      BY <2>1 DEF HostMask
    <2>3. /\ AddressBits - s.bits \in 0 .. AddressBits /\ AddressBits - n.bits \in 0 .. AddressBits
          /\ \/ AddressBits - s.bits \in 0 .. AddressBits - n.bits
             \/ AddressBits - n.bits \in 0 .. AddressBits - s.bits
      BY <1>2, <1>3, SpaceAssumption
    <2> QED
      BY <2>2, <2>3 DEF PowersOfTwo
  <1> HIDE DEF s, n, h, H
  <1>7. \A ip \in s.addr + 1 .. s.addr + H - 2 :
          ip # s.gateway => Masked(n) <= ip /\ ip < Masked(n) + h
    <2>1. Usable(s) = s.addr + 1 .. s.addr + H - 2
      BY <1>2, <1>4 DEF Usable, s
    <2>2. PoolSpecToIPSet(s) = Usable(s) \ {s.gateway}
      BY <1>1, RegularSet
    <2>3. PoolSpecToIPSet(s) \subseteq Masked(n) .. Broadcast(n)
      BY DEF s, n
    <2> QED
      BY <1>4, <1>5, <2>1, <2>2, <2>3
  <1>8. Masked(n) <= s.addr /\ s.addr + H <= Masked(n) + h
    BY <1>2, <1>4, <1>5, <1>6, <1>7, Nested
  <1>9. ContainsPrefix(n, LookupPrefix(s))
    <2>1. LookupPrefix(s) = s
      BY DEF LookupPrefix, s
    <2>2. s.addr \in Masked(n) .. Broadcast(n) /\ Broadcast(s) \in Masked(n) .. Broadcast(n)
      BY <1>4, <1>5, <1>8
    <2> QED
      BY <1>3, <2>1, <2>2 DEF ContainsPrefix, Contains
  <1> QED
    BY <1>1, <1>9, Lookup DEF s, n

\* A lookup fails only when no network of the list holds the pool's addresses.
THEOREM NetworksAreFound ==
  ASSUME PowersOfTwo, SpecsAreRegular, NetworksAreRegular
  PROVE  NetSpec => []NetworkFound
  <1>1. NetTypeOK => NetworkFound
    BY NoneHolds
  <1> QED
    BY <1>1, TypeCorrect, PTL
=============================================================================
