SPECIFICATION Spec

CONSTANTS
  s1 = s1
  s2 = s2
  st1 = st1
  NoTick = NoTick
  Symbols <- MCSymbols
  Strategies = {st1}
  RestrictedSymbols = {}
  CorrelationGroups <- MCGroups
  Decisions <- MCDecisions
  Ticks <- MCTicks
  CloseOnlySettings = {TRUE, FALSE}
  Pausable = {st1}
  Marks <- MCMarks
  Pnls <- MCPnls
  Drawdowns <- MCDrawdowns
  Latencies <- MCLatencies
  HardLimits <- MCHardLimits
  InitialEquity = 100
  DefaultPrice = 4
  MaxTime = 2
  MaxAbsPnl = 5

INVARIANTS
  TypeOK
  StateMatchesPortfolio
  PeakCoversEquity
  ApprovedGrowthFitsCaps
  ApprovalsAreSpaced
