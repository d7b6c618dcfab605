SPECIFICATION Spec
CONSTANTS
  MaxHeight = 3
  Tx <- MixTx
  Reward <- MixReward
  Slash = {}
  TxsOf <- MixTxsOf
  RewardsOf <- MixRewardsOf
  SlashesOf <- TxNone
  Invalid = {}
  Links = {}
  SlashCoin <- NoSlashCoin
  LiquidatedIn <- MixLiquidatedIn
  OutCoins <- MixOutCoins
  GasCoin <- MixGasCoin
  Creates <- MixCreates
  Coin = {"NOAH", "A"}
  NoCoin = "NoCoin"
  NoTx = "NoTx"
  GenesisCoins = {"NOAH"}
  NoValidators = {1}
  TxChunkSize = 1
  EventsChunkSize = 1
  RewardAggregateEveryBlocksCount = 1
  TimeOf <- TxTimeOf
  Recipient = {"v"}
  RecipientOf <- MixRecipientOf
  WrkUpdateTxsIndexNumBlocks = 1
  Wrk <- OneWorker
  MaxFaults = 2
INVARIANTS
  BlocksHaveNoGaps
  ExactlyOnce
  AtMostOnce
  ReferencesResolve
  BlockValidatorsComplete
  PanicsFollowFaults
