\* Every kind of fault, at any call; an edit, deletions, a pool created again.
SPECIFICATION Spec
CONSTANTS
  a1 = a1
  a2 = a2
  None = None
  Addresses = {a1, a2}
  Outside = {}
  PoolSize = 2
  NetworkConfigured = FALSE
  Webhooks = FALSE
  FaultKinds = {"apiError", "lostReply", "unifiError", "crash"}
  MaxFaults = 1
  MaxPools = 2
  MaxEdits = 1
  MaxChanges = 0
  MaxBacklog = 0
SYMMETRY AddressSymmetry
INVARIANTS
  TypeOK
  AllocationsProtected
  PInv
PROPERTIES
  ListedAddressesHoldPool
  EditsKept
CHECK_DEADLOCK FALSE
