SPECIFICATION Spec
CONSTANTS
  Parts = {"member", "owner", "routing", "events", "delivery", "life"}
  Procs = {p1, p2}
  Ids = {1, 2}
  RegisterRounds = 2
  Nobody = Nobody
  Members <- MCMembers
  NoAddr = 0
  Routable <- MCRoutable
  Senders = {g1, g2}
  MaxVersion = 3
  None = None
  EsNodes = {1, 2}
  Subscribers <- MCSubscribers
  MaxLog = 3
  Nodes = {"n1", "n2"}
  Requests = {"ask", "poison"}
  Src <- MCSrc
  Kind <- MCKind
  FirstOwners = {"n1"}
  MaxMoves = 1
  NoNode = "none"
  OldEntry = FALSE
INVARIANTS
  UniqueNodeId
  ViewConverges
  OwnerAgreed
  RouteIsFresh
  PublishReaches
  DeadAskIsFailed
  PoisonStartsNothing
PROPERTIES
  LeastDisruption
  NoRollback
  LeaseLossStops
  EveryMessageEnds
  FailedStartLeaves
  FatalStops
  ReportersReturn
CHECK_DEADLOCK FALSE
