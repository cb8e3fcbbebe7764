SPECIFICATION Spec
CONSTANTS
  Ids <- MCIds
  Owners = {1, 2, 3}
  Prices <- MCPrices
  None = None
  MaxLoop = 8
  Configs <- MatchConfigs
  Incoming <- MatchOrders
  NewQtys = {}
  LastArrival = 0
  LastJump = 0
  MaxTs = 0
PROPERTIES FokAtomic
