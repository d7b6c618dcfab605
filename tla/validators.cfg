SPECIFICATION Spec
CONSTANTS
  MaxHeight = 4
  PubKey = {"a", "b", "c"}
  ValidatorsOf <- MCValidatorsOf
  CandidatesOf <- MCCandidatesOf
  ReadyOf <- MCReadyOf
  Tx = {"t1", "t2"}
  TxsOf <- MCTxsOf
  Names <- MCNames
  SaveTxsCount = 2
  StakesEvery = 3
  MaxFaults = 1
INVARIANTS
  TypeOK
  CachedIdsExist
  LinksResolve
  ConflictsOnlyWithWorkers
  StatusesCurrent
PROPERTIES
  EventuallyFollowed
  EventuallyListed
  UptimesRepaired
