SPECIFICATION FairSpec
CONSTANTS
  MaxHeight = 2
  Tx <- AllTx
  Reward <- AllReward
  Slash = {"s1"}
  TxsOf <- AllTxsOf
  RewardsOf <- AllRewardsOf
  SlashesOf <- AllSlashesOf
  Invalid = {}
  Links = {"b"}
  SlashCoin <- AllSlashCoin
  LiquidatedIn <- AllLiquidatedIn
  OutCoins <- AllOutCoins
  GasCoin <- AllGasCoin
  Creates <- AllCreates
  Coin = {"NOAH", "A"}
  NoCoin = "NoCoin"
  NoTx = "NoTx"
  GenesisCoins = {"NOAH"}
  NoValidators = {}
  TxChunkSize = 2
  EventsChunkSize = 2
  RewardAggregateEveryBlocksCount = 2
  TimeOf <- AllTimeOf
  Recipient = {"v"}
  RecipientOf <- AllRecipientOf
  WrkUpdateTxsIndexNumBlocks = 2
  Wrk <- OneWorker
  MaxFaults = 1
PROPERTIES
  EventuallySeeded
  EventuallyRecovered
