SPECIFICATION Spec
CONSTANTS
  MaxHeight = 3
  Address = {"a", "b", "c"}
  Coin = {"NOAH", "A"}
  AddressesOf <- MCAddressesOf
  CoinsOf <- MCCoinsOf
  BalanceAt <- MCBalanceAt
  GenesisCoins = {"NOAH"}
  AddrChunkSize = 2
  WrkGetBalancesFromNodeCount = 1
  WrkUpdateBalanceCount = 2
  MaxFaults = 1
PROPERTIES
  EventuallySeeded
CHECK_DEADLOCK FALSE
