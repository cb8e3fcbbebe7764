SPECIFICATION GatewaySpec
CONSTANTS
  Ids <- MCIds
  Owners = {0, 2, 100, 999}
  Prices <- MCPrices
  None = None
  MaxLoop = 8
  Configs <- MCConfigs
  Callers = {2, 100, 999}
  Orders <- MCOrders
  CancelIds = {201}
  Reductions = {}
  AgentSteps <- MCAgentSteps
  dt_ns = 1
  Horizon = 1
  MaxClock = 1
  IdSpan = 100
  ManualOwner = 999
  max_cache_trades = 2
  max_cache_tops = 0
  depth_cache_levels = 0
  MaxStarts = 1
  MaxCalls = 1
  MakerOwner = 2
  Aggressors = {100}
  Handlers = {999}
  Levels = 1
  QtyL1 = 1
  JitterSteps <- MCJitterSteps
  QtyStep = 1
  AggrQtys = {1}
  Fundamentals = {1}
  MaxPx = 2
  MaxLadders = 2
INVARIANTS LadderRemembered ShutdownSweeps
PROPERTIES SelfTradeAtFloor ExitEnds
