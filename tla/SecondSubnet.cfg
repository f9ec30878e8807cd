\* With the webhooks, an address from the second subnet.
SPECIFICATION FairSpec
CONSTANTS
  a1 = a1
  a2 = a2
  None = None
  Addresses = {a1}
  Outside = {a1}
  PoolSize = 1
  NetworkConfigured = FALSE
  Webhooks = TRUE
  FaultKinds = {}
  MaxFaults = 0
  MaxPools = 1
  MaxEdits = 0
  MaxChanges = 0
  MaxBacklog = 0
PROPERTIES
  UseReported
CHECK_DEADLOCK FALSE
