\* An instance created, edited and deleted while its secret and UniFi change.
SPECIFICATION FairSpec
CONSTANTS
  None = None
  Webhooks = TRUE
  FaultKinds = {"apiError", "lostReply", "crash"}
  MaxFaults = 1
  MaxInstances = 2
  MaxEdits = 1
  MaxChanges = 1
INVARIANTS
  JudgedWhenQuiet
  InstInv
PROPERTIES
  VerdictOnCurrentSpec
  EventuallyReady
  WrongHostReported
CHECK_DEADLOCK FALSE
