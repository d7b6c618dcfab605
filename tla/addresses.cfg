SPECIFICATION Spec
CONSTANTS
  MaxHeight = 2
  Address = {"a", "b", "c"}
  AddressesOf <- MCAddressesOf
  CandidateSets <- MCCandidateSets
  TxChunkSize = 1
  AddressWorker = {"w1", "w2"}
  MaxFaults = 1
INVARIANTS
  TypeOK
  WaitSuffices
  CachedIdsExist
  PoolIsDisjoint
PROPERTIES
  EventuallyUsed
