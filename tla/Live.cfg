SPECIFICATION LiveSpec
CONSTANTS
  Ids <- MCIds
  Owners = {0, 1, 2}
  Prices <- MCPrices
  None = None
  MaxLoop = 8
  Configs <- MCConfigs
  Callers = {c1, c2}
  Orders <- MCOrders
  CancelIds = {101}
  Reductions = {}
  AgentSteps <- MCAgentSteps
  dt_ns = 0
  Horizon = 2
  MaxClock = 3
  IdSpan = 100
  ManualOwner = 2
  max_cache_trades = 2
  max_cache_tops = 1
  depth_cache_levels = 2
  MaxStarts = 2
  MaxCalls = 2
INVARIANTS LiveTypeOK CacheCurrent TapeCached RestMeansEnded CleanUnlessHorizon
PROPERTIES OnlySubmitsGoBack NoEarlyEnd WorkerEnds
