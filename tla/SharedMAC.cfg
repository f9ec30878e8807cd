\* Two claims whose names have the same length.
SPECIFICATION Spec
CONSTANTS
  c1 = c1
  c2 = c2
  m1 = m1
  m2 = m2
  n1 = n1
  n2 = n2
  None = None
  Claims = {c1, c2}
  MACs = {m1, m2}
  MacOf <- SharedMAC
  IPs = {1, 2, 3}
  SubnetIPs = {1, 2, 3}
  Gateway = 1
  Networks = {n1}
  NoNetwork = NoNetwork
  Pools <- AllPools
  Requested <- NoRequests
  Foreign <- NoForeign
  AbsentReplies = {"otherError"}
  FaultKinds = {}
  MaxFaults = 0
  MaxIncarnations = 1
  MaxPoolChanges = 0
  MaxClusterChanges = 0
INVARIANTS
  NoSharedAddress
CHECK_DEADLOCK FALSE
