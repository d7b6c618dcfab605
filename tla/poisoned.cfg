SPECIFICATION Spec
CONSTANTS
  MaxHeight = 2
  Address = {"a", "b", "c"}
  AddressesOf <- MCAddressesOf
  CandidateSets <- MCCandidateSets
  TxChunkSize = 1
  AddressWorker = {"w1", "w2"}
  MaxFaults = 0
INVARIANTS
  AddressesSaved
