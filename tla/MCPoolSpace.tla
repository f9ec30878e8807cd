---------------------------- MODULE MCPoolSpace ----------------------------
(* Instances of PoolSpace and NetworkLookup for TLC. *)
EXTENDS NetworkLookup

CIDR(addr, bits, gateway, exclude) ==
  [cidr |-> TRUE, addr |-> addr, bits |-> bits, gateway |-> gateway, exclude |-> exclude]

Between(start, end, gateway) ==
  [cidr |-> FALSE, start |-> start, end |-> end, gateway |-> gateway, exclude |-> {}]

Pool(gateway, subnets) == [gateway |-> gateway, subnets |-> subnets]

Bases(bits) == {a \in Address : a % 2^(AddressBits - bits) = 0}

\* One subnet: a CIDR with at least two host bits, or a range, of a part of an
\* octet, of a whole one, or across two, where an octet has four addresses.
OneSubnet ==
  {Pool(NoGateway, <<s>>) : s \in
     {CIDR(0, 0, g, {}) : g \in {1, 4}}
     \cup {CIDR(a, 1, g, {}) : a \in Bases(1), g \in {NoGateway, 6}}
     \cup {Between(0, 6, NoGateway), Between(0, 6, 3), Between(3, 6, 3)}}

\* Two subnets, apart, adjacent or overlapping, under the pool's gateway.
TwoSubnets ==
  {Pool(5, <<s, t>>) :
     s \in {CIDR(4, 1, 6, {}), Between(1, 3, 3)},
     t \in {CIDR(4, 1, NoGateway, {}), Between(2, 6, NoGateway)}}

\* Networks that halve the addresses, one that grows, one that has gone.
Network(id, addr, bits, gateway) ==
  [id |-> id, cidr |-> TRUE, addr |-> addr, bits |-> bits, gateway |-> gateway]

SiteNetworks ==
  {<<Network(1, 0, 1, NoGateway), Network(2, 4, 1, 6)>>,
   <<Network(1, 0, 1, 3), Network(2, 0, 0, NoGateway)>>,
   <<Network(2, 4, 1, 6)>>}

RegularSpecs == OneSubnet \cup TwoSubnets

\* What the theorems suppose is so here.
ASSUME TheoremsApply == PowersOfTwo /\ SpecsAreRegular /\ NetworksAreRegular
=============================================================================
