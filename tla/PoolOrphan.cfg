\* With the webhooks, an edit between a user and its address.
SPECIFICATION NetSpec
CONSTANTS
  AddressBits = 3
  OctetBits = 2
  Specs <- RegularSpecs
  Foreign = {2}
  MaxUsers = 1
  NetworkLists <- SiteNetworks
  RangePrefix = 1
INVARIANTS
  NoAddressOrphaned
