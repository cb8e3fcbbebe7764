SPECIFICATION WorldSpec
CONSTANTS
  Ids <- MCIds
  Owners = {1, 2, 3}
  Prices <- MCPrices
  None = None
  MaxLoop = 8
  Configs <- MCConfigs
  Casts <- MCCasts
  MakerParams <- MCMaker
  NoiseParams <- MCNoise
  IdSpan = 100
  Dt = 1
  Horizon = 3
INVARIANTS WorldTypeOK TapeExact LedgerExact NothingOverdue QuotesReplaced NoMakerSelfTrade
