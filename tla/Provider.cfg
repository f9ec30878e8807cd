\* One claim, one pool, one address: all orders of what happens to both.
SPECIFICATION Spec
CONSTANTS
  c1 = c1
  m1 = m1
  None = None
  Claims = {c1}
  IPs = {1}
  MACs = {m1}
  MacOf <- OneMAC
  ClaimFaultKinds = {}
  PoolFaultKinds = {}
  MaxFaults = 0
  MaxIncarnations = 1
  MaxPools = 1
  MaxPoolViews = 1000
  MaxBacklog = 1000
INVARIANTS
  ProviderInv
PROPERTIES
  ClaimSide
  PoolSide
  ServedClaimsHoldPool
  StatusFollowsClaims
  DeletionFollowsClaims
CHECK_DEADLOCK FALSE
