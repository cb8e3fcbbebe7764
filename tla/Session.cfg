SPECIFICATION FairSession
CONSTANTS
  Ids = {1, 2, 3, 4, 5}
  Owners = {1, 2, 3}
  Prices <- MCPrices
  None = None
  MaxLoop = 6
  Configs <- MCConfigs
  Incoming <- MCOrders
  NewQtys = {}
  LastArrival = 5
  LastJump = 0
  MaxTs = 7
  Schedules <- MCSchedules
PROPERTIES ClosedIsFinal ClosingUncrosses DayEnds
