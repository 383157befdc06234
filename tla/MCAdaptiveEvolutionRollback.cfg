SPECIFICATION Spec

CONSTANTS
  Targets = {weights, routing}
  Inert = {routing}
  weights = weights
  routing = routing
  SeedTarget = weights
  MaxCycles = 2
  MaxLines = 4
  MaxFailures = 0

INVARIANTS
  RolledBackMeansBaseline
