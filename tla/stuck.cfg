SPECIFICATION FairSpec
CONSTANTS
  MaxHeight = 4
  Coin = {"A", "B", "C"}
  BaseCoin = "NOAH"
  GenesisCoins = {"A"}
  CreatedIn <- StuckCreatedIn
  LiquidatedIn <- StuckLiquidatedIn
  SlashedIn <- StuckSlashedIn
  TxsOf <- StuckTxsOf
  GasCoin <- StuckGasCoin
  TradedBy <- StuckTradedBy
  SentBy <- StuckSentBy
  Addressed = {1, 2, 3, 4}
  HeldIn <- StuckHeldIn
  Stake = {"s1", "s2", "s3", "s4"}
  CoinOf <- StuckCoinOf
  StakesOf <- StuckStakesOf
  StakeChunkSize = 2
  StakesEvery = 2
  MaxFaults = 1
PROPERTIES
  EventuallyFollowed
CHECK_DEADLOCK FALSE
