SPECIFICATION FairSpec
CONSTANTS
  Ids <- MCIds
  Owners = {1, 2, 3}
  Prices <- MCPrices
  None = None
  MaxLoop = 8
  Configs <- CallConfigs
  Incoming <- CallOrders
  NewQtys = {}
  LastArrival = 2
  LastJump = 3
  MaxTs = 8
INVARIANTS TypeOK NotCrossed BookConsistent OnePlace LimitsRespected QueueOnlyInCall
PROPERTIES CallFreezes AuctionMaximal CallEnds ImplementsExchange
