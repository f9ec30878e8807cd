\* Every kind of fault at any call; two claims that ask for one address of a pool whose network and pre-allocations change.
SPECIFICATION Spec
CONSTANTS
  c1 = c1
  c2 = c2
  m1 = m1
  m2 = m2
  n1 = n1
  n2 = n2
  None = None
  Claims = {c1, c2}
  MACs = {m1, m2}
  MacOf <- DistinctMACs
  IPs = {1, 2, 3}
  SubnetIPs = {1, 2, 3}
  Gateway = 1
  Networks = {n1, n2}
  NoNetwork = NoNetwork
  Pools <- SteadyPools
  Requested <- RequestC2
  Foreign <- ForeignAddress
  AbsentReplies = {"nil"}
  FaultKinds = {"apiError", "lostReply", "cacheTimeout", "crash"}
  MaxFaults = 1
  MaxIncarnations = 1
  MaxPoolChanges = 1
  MaxClusterChanges = 0
INVARIANTS
  FixedIPsUnique
  AddressIsFixedIP
  SharingExplained
  IInv
PROPERTIES
  PreAllocationHonoured
CHECK_DEADLOCK FALSE
