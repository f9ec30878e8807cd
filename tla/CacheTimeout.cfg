\* The cache does not show a new address within five seconds.
SPECIFICATION Spec
CONSTANTS
  c1 = c1
  c2 = c2
  m1 = m1
  m2 = m2
  n1 = n1
  n2 = n2
  None = None
  Claims = {c1}
  MACs = {m1, m2}
  MacOf <- OneMAC
  IPs = {1, 2, 3}
  SubnetIPs = {1, 2, 3}
  Gateway = 1
  Networks = {n1}
  NoNetwork = NoNetwork
  Pools <- AllPools
  Requested <- NoRequests
  Foreign <- NoForeign
  AbsentReplies = {"otherError"}
  FaultKinds = {"cacheTimeout"}
  MaxFaults = 1
  MaxIncarnations = 1
  MaxPoolChanges = 0
  MaxClusterChanges = 0
INVARIANTS
  NoOrphanAddress
CHECK_DEADLOCK FALSE
