\* Every order of allocating, requesting, writing, releasing, editing and syncing.
SPECIFICATION NetSpec
CONSTANTS
  AddressBits = 3
  OctetBits = 2
  Specs <- RegularSpecs
  Foreign = {2}
  MaxUsers = 3
  NetworkLists <- SiteNetworks
  RangePrefix = 1
INVARIANTS
  NetTypeOK
  AllocatorInRange
  ExhaustedOnlyWhenFull
  FreeAgreesWithAllocator
  NetworkFound
PROPERTIES
  ListedStayInside
  DiscoveredHoldsSubnet
  SyncedMeansUsable
