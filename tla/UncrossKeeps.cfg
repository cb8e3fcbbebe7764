SPECIFICATION Spec
CONSTANTS
  Ids <- MCIds
  Owners = {1, 2, 3}
  Prices <- MCPrices
  None = None
  MaxLoop = 8
  Configs <- CallConfigs
  Incoming <- CallOrders
  NewQtys = {}
  LastArrival = 2
  LastJump = 4
  MaxTs = 4
PROPERTIES UncrossKeepsLimits
