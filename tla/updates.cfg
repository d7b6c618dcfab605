SPECIFICATION Spec
CONSTANTS
  MaxHeight = 4
  Coin = {"A", "B", "C"}
  BaseCoin = "NOAH"
  GenesisCoins = {"A", "B"}
  CreatedIn <- MCCreatedIn
  LiquidatedIn <- MCLiquidatedIn
  SlashedIn <- MCSlashedIn
  TxsOf <- MCTxsOf
  GasCoin <- MCGasCoin
  TradedBy <- MCTradedBy
  SentBy <- MCSentBy
  Addressed = {2, 3}
  HeldIn <- MCHeldIn
  Stake = {"s1", "s2", "s3"}
  CoinOf <- MCCoinOf
  StakesOf <- MCStakesOf
  StakeChunkSize = 1
  StakesEvery = 2
  MaxFaults = 1
INVARIANTS
  TypeOK
  LookupsFailOnlyAfterCrash
  NoBalanceOfDeletedCoin
  StakesCurrent
  NoOldDelegation
  CoinsMirrorTheNode
  NoUpdateIsLost
PROPERTIES
  NeverOlder
  RevivedLate
CHECK_DEADLOCK FALSE
