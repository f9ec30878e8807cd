\* One claim name created twice; crashes, failed requests, pauses, a pool that changes.
SPECIFICATION FairSpec
CONSTANTS
  c1 = c1
  c2 = c2
  m1 = m1
  m2 = m2
  n1 = n1
  n2 = n2
  None = None
  Claims = {c1}
  MACs = {m1, m2}
  MacOf <- OneMAC
  IPs = {1, 2}
  SubnetIPs = {1, 2}
  Gateway = 1
  Networks = {n1}
  NoNetwork = NoNetwork
  Pools <- AllPools
  Requested <- NoRequests
  Foreign <- NoForeign
  AbsentReplies = {"notFound", "otherError"}
  FaultKinds = {"apiError", "crash"}
  MaxFaults = 2
  MaxIncarnations = 2
  MaxPoolChanges = 1
  MaxClusterChanges = 2
INVARIANTS
  BoundClaimIsServed
  NoOrphanAddress
  LInv
PROPERTIES
  AddressProtected
  ImplementsContract
  ClaimEventuallyBound
  ClaimEventuallyGone
CHECK_DEADLOCK FALSE
