SPECIFICATION FairSpec
CONSTANTS
  MaxHeight = 3
  Tx <- CoTx
  Reward = {}
  Slash = {}
  TxsOf <- CoTxsOf
  RewardsOf <- TxNone
  SlashesOf <- TxNone
  Invalid = {}
  Links = {}
  SlashCoin <- NoSlashCoin
  LiquidatedIn <- NoneLiquidated
  OutCoins <- CoOutCoins
  GasCoin <- CoGasCoin
  Creates <- CoCreates
  Coin = {"NOAH", "A", "B"}
  NoCoin = "NoCoin"
  NoTx = "NoTx"
  GenesisCoins = {"NOAH"}
  NoValidators = {1}
  TxChunkSize = 1
  EventsChunkSize = 2
  RewardAggregateEveryBlocksCount = 4
  TimeOf <- TxTimeOf
  Recipient = {"v"}
  RecipientOf <- NoRecipient
  WrkUpdateTxsIndexNumBlocks = 1
  Wrk <- OneWorker
  MaxFaults = 2
PROPERTIES
  RestartDeletesLastBlock
