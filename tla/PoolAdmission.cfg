\* With the webhooks: the status settles, a deleted pool goes, a drift is reported.
SPECIFICATION FairSpec
CONSTANTS
  a1 = a1
  a2 = a2
  None = None
  Addresses = {a1}
  Outside = {}
  PoolSize = 1
  NetworkConfigured = FALSE
  Webhooks = TRUE
  FaultKinds = {"lostReply"}
  MaxFaults = 1
  MaxPools = 1
  MaxEdits = 0
  MaxChanges = 1
  MaxBacklog = 1
PROPERTIES
  StatusConverges
  DeletionCompletes
  DriftReported
CHECK_DEADLOCK FALSE
