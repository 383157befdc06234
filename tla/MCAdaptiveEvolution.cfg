SPECIFICATION Spec

CONSTANTS
  Targets = {weights, routing}
  Inert = {routing}
  weights = weights
  routing = routing
  SeedTarget = weights
  MaxCycles = 2
  MaxLines = 4
  MaxFailures = 1

INVARIANTS
  TypeOK
  OutcomesAreRemembered
  KnowledgeIsReadBack
  RollbacksAreFinal
  EvolutionsAreBacked
  OrderlyRollbacksRestore
