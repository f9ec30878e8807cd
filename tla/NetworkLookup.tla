--------------------------- MODULE NetworkLookup ---------------------------
(***************************************************************************)
(* Which UniFi network a pool belongs to, and whether the two agree: the   *)
(* lookup of FindNetworkForSubnet and the comparison of detectConfigura-   *)
(* tionDrift (internal/unifi/client.go, internal/controllers/unifiippool_  *)
(* controller.go), over the addresses of PoolSpace.  PoolController has    *)
(* the order of the writes around them and takes their outcome as input.   *)
(*                                                                         *)
(* A network is written as its own address and prefix length, as a subnet  *)
(* in CIDR notation is; networks without a subnet, which the lookup skips  *)
(* and the comparison refuses, are left out.                               *)
(***************************************************************************)
EXTENDS PoolSpace

CONSTANTS
  NetworkLists,  \* the lists of networks that UniFi may return
  RangePrefix    \* GetPrefix of a subnet given by start and end

NoNetwork == 0

Networks ==
  [id : Nat \ {NoNetwork}, cidr : {TRUE}, addr : Address, bits : 0 .. AddressBits,
   gateway : Address \cup {NoGateway}]

ASSUME NetworkAssumption ==
  /\ RangePrefix \in 0 .. AddressBits
  /\ \A l \in NetworkLists :
       /\ l \in Seq(Networks)
       /\ \A j, k \in DOMAIN l : l[j].id = l[k].id => j = k

VARIABLES
  networks,   \* the networks of the UniFi site, in the order they are listed
  discovered, \* status.discoveredNetworkId, NoNetwork when empty
  synced      \* status of the condition NetworkSynced

netVars == <<networks, discovered, synced>>

NetInit ==
  /\ Init
  /\ networks \in NetworkLists
  /\ discovered = NoNetwork
  /\ synced = "Unknown"

-----------------------------------------------------------------------------
(* FindNetworkForSubnet and discoverNetwork: for the first subnet only. *)

FirstSubnet == spec.subnets[1]

\* The prefix that is looked up: of a range, the block its start lies in.
LookupPrefix(subnet) ==
  IF subnet.cidr THEN subnet
  ELSE [addr |-> subnet.start - (subnet.start % 2^(AddressBits - RangePrefix)),
        bits |-> RangePrefix]

\* Mutant: a network that contains the first address will do.
ContainsStart(network, prefix) == Contains(network, prefix.addr)

\* Mutant: a network has to be the prefix.
IsPrefix(network, prefix) == network.addr = prefix.addr /\ network.bits = prefix.bits

\* lastAddrInPrefix is the broadcast address, whether the prefix is masked or not.
ContainsPrefix(network, prefix) ==
  Contains(network, prefix.addr) /\ Contains(network, Broadcast(prefix))

\* The first network of the list that contains the prefix.
FindNetworkForSubnet(prefix) ==
  LET found == {k \in DOMAIN networks : ContainsPrefix(networks[k], prefix)}
  IN  IF found = {} THEN NoNetwork ELSE networks[Min(found)].id

\* GetNetwork, in a set that is empty when there is no such network.
GetNetwork(id) == {networks[k] : k \in {j \in DOMAIN networks : networks[j].id = id}}

-----------------------------------------------------------------------------
(* SyncNetworkToCIDR and detectConfigurationDrift *)

\* The DHCP gateway, or calculateGatewayFromCIDR: the last octet plus one, of
\* the address the network was written with, without a carry.
GatewayOf(network) ==
  IF network.gateway # NoGateway THEN network.gateway
  ELSE (network.addr - LastOctet(network.addr))
         + ((LastOctet(network.addr) + 1) % 2^OctetBits)

\* The CIDRs are compared as they are written; that of a range is empty.
CIDRDrift(subnet, network) ==
  subnet.cidr => <<subnet.addr, subnet.bits>> # <<network.addr, network.bits>>

Drift(subnet, network) ==
  \/ CIDRDrift(subnet, network)
  \/ subnet.gateway # GatewayOf(network)

\* What a reconcile makes of the network: it looks for one unless it has found
\* one before, and compares the pool with it if it is still there.
SyncPool ==
  LET id == IF discovered # NoNetwork THEN discovered
            ELSE FindNetworkForSubnet(LookupPrefix(FirstSubnet))
  IN  /\ discovered' = id
      /\ IF GetNetwork(id) = {} THEN UNCHANGED synced
         ELSE \E network \in GetNetwork(id) :
                synced' = IF Drift(FirstSubnet, network) THEN "False" ELSE "True"
      /\ UNCHANGED <<vars, networks>>

EditNetworks ==
  /\ networks' \in NetworkLists \ {networks}
  /\ UNCHANGED <<vars, discovered, synced>>

NetNext ==
  \/ Next /\ UNCHANGED netVars
  \/ SyncPool
  \/ EditNetworks

NetSpec == NetInit /\ [][NetNext]_<<vars, netVars>>

-----------------------------------------------------------------------------
(* Properties. *)

\* No network is smaller than a regular subnet.
NetworksAreRegular ==
  \A l \in NetworkLists : \A k \in DOMAIN l : l[k].bits <= AddressBits - 2

\* The type of the state.
NetTypeOK ==
  /\ TypeOK
  /\ networks \in NetworkLists
  /\ discovered \in {NoNetwork} \cup UNION {{l[k].id : k \in DOMAIN l} : l \in NetworkLists}
  /\ synced \in {"Unknown", "True", "False"}

\* The addresses that dynamic allocation hands out from a subnet.
Allocatable(subnet) ==
  {GetIPAddress(subnet, i) : i \in 0 .. MaxAddress} \ {OutOfRange, GetGateway(subnet)}

\* A range that lies in the block that is looked up for it.
InBlock(subnet) ==
  subnet.cidr \/ subnet.end \in Masked(LookupPrefix(subnet)) .. Broadcast(LookupPrefix(subnet))

\* The network a pool is given holds every address that is allocated from its
\* first subnet (discoverNetwork, FindNetworkForSubnet: "Also verify the subnet
\* doesn't exceed the network range").
DiscoveredHoldsSubnet ==
  [][discovered = NoNetwork /\ discovered' # NoNetwork /\ InBlock(FirstSubnet) =>
       \A network \in GetNetwork(discovered') :
         Allocatable(FirstSubnet) \subseteq Masked(network) .. Broadcast(network)]_<<vars, netVars>>

\* A lookup fails only when no network holds what is allocated from the subnet.
NetworkFound ==
  FirstSubnet.cidr /\ FindNetworkForSubnet(LookupPrefix(FirstSubnet)) = NoNetwork =>
    \A k \in DOMAIN networks :
      ~(PoolSpecToIPSet(FirstSubnet) \subseteq Masked(networks[k]) .. Broadcast(networks[k]))

\* When a sync finds no drift, allocation from the first subnet yields usable
\* addresses of the network it compared with and never the network's gateway,
\* though the network was discovered for an earlier spec or for networks since
\* edited (discoveredNetworkId is never reset).
SyncedMeansUsable ==
  [][synced # "True" /\ synced' = "True" =>
       \A network \in GetNetwork(discovered') :
         Allocatable(FirstSubnet) \subseteq
           (Masked(network) + 1 .. Broadcast(network) - 1) \ {GatewayOf(network)}]_<<vars, netVars>>
=============================================================================
