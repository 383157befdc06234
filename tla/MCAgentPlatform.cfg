SPECIFICATION Spec

CONSTANTS
  root = root
  trader = trader
  wheel = wheel
  guest = guest
  c1 = c1
  c2 = c2
  Text = Text
  Daemon = Daemon
  Nobody = Nobody
  Root = root
  Users = {root, trader, wheel, guest}
  Groups <- MCGroups
  Clients = {c1, c2}
  Requests <- MCRequests
  Backlog = 1
  MaxRequests = 2
  MaxMishaps = 1

INVARIANTS
  AgentTypeOK
  OrdersAreEarned
  OrdersAreRecorded
  AnswersAreTrue
  RecordsAreReadBack
  WorkIsLogged
  ProtectionsHold

PROPERTIES
  RecordsStay
  RequestsAreAnswered
  HaltsDoNotReachAgents

\* The bounds on requests and mishaps may leave nothing to do.
CHECK_DEADLOCK FALSE
