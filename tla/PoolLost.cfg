\* An address is created for a pool that is being deleted.
SPECIFICATION Spec
CONSTANTS
  a1 = a1
  a2 = a2
  None = None
  Addresses = {a1, a2}
  Outside = {}
  PoolSize = 2
  NetworkConfigured = FALSE
  Webhooks = FALSE
  FaultKinds = {}
  MaxFaults = 0
  MaxPools = 1
  MaxEdits = 0
  MaxChanges = 0
  MaxBacklog = 0
PROPERTIES
  PoolOutlivesAddresses
CHECK_DEADLOCK FALSE
