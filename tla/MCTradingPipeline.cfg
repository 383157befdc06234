SPECIFICATION PipelineSpec

CONSTANTS
  s1 = s1
  s2 = s2
  st1 = st1
  st2 = st2
  f1 = f1
  f2 = f2
  NoTick = NoTick
  NoOrder = NoOrder
  Symbols = {s1, s2}
  Strategies = {st1, st2}
  Feeders = {f1, f2}
  RestrictedSymbols = {}
  CorrelationGroups = {}
  Decisions <- MCTwoOrders
  Ticks = {NoTick}
  CloseOnlySettings = {}
  Pausable = {}
  Marks <- MCMarks
  Pnls = {}
  Drawdowns = {}
  Latencies = {}
  HardLimits <- MCHardLimits
  InitialEquity = 100
  DefaultPrice = 4
  MaxTime = 0
  MaxAbsPnl = 0
  MaxTicks = 2
  MaxRestarts = 1
  MaxWriteFailures = 1

SYMMETRY FeederSymmetry

INVARIANTS
  PipelineTypeOK
  HaltLeaksOneOrderPerThread
  FillsFollowVerdicts
  FinishedTicksAreComplete

PROPERTIES
  ImplementsGate
