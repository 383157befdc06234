SPECIFICATION Spec

CONSTANTS
  d1 = d1
  x1 = x1
  c1 = c1
  Daemon = Daemon
  Nobody = Nobody
  Backlog = 1
  Plugins = {d1, x1}
  Defaults <- MCDefaults
  Clients = {c1}
  Requests <- MCRequests

INVARIANTS
  TypeOK
  PromisesAreKept
  MemoryIsCurrent

PROPERTIES
  RequestsEnd
