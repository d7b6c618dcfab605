SPECIFICATION Spec
CONSTANTS
  MaxHeight = 3
  Tx <- TxTx
  Reward = {}
  Slash = {}
  TxsOf <- TxTxsOf
  RewardsOf <- TxNone
  SlashesOf <- TxNone
  Invalid = {"b"}
  Links = {"a", "d"}
  SlashCoin <- NoSlashCoin
  LiquidatedIn <- NoneLiquidated
  OutCoins <- TxOutCoins
  GasCoin <- TxGasCoin
  Creates <- TxCreates
  Coin = {"NOAH"}
  NoCoin = "NoCoin"
  NoTx = "NoTx"
  GenesisCoins = {"NOAH"}
  NoValidators = {1}
  TxChunkSize = 2
  EventsChunkSize = 2
  RewardAggregateEveryBlocksCount = 4
  TimeOf <- TxTimeOf
  Recipient = {"v"}
  RecipientOf <- NoRecipient
  WrkUpdateTxsIndexNumBlocks = 2
  Wrk <- OneWorker
  MaxFaults = 1
INVARIANTS
  TxCountsAgree
