SPECIFICATION ReplaySpec
CONSTANTS
  Ids = {1, 2, 3, 4, 5, 6}
  Owners = {0, 1, 2}
  Prices <- MCPrices
  None = None
  MaxLoop = 8
  Configs <- MCConfigs
  Vectors <- MCVectors
  RefMid = 10000
  MaxOffset = 2
  FlowQtys = {1, 2}
  Gaps = {1}
  FlowEnd = 5
  EarlyIds = 2
INVARIANTS TapeInTime ReuseOrphans FlowRests
