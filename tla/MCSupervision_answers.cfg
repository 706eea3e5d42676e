SPECIFICATION MCSpec
CONSTANTS
  Part = {"messages"}
  Tickets = {t1}
  Planners = {p1}
  Workers = {w1}
  Operator = operator
  NoAgent = noagent
  Qualified <- MCQualified
  MaxRetries = 1
  CloseAs = {}
  MayCrash = {}
  LinkDrops = {}
  MayBusy = FALSE
  Openers = {p1}
  Worker = w1
  Planner = p1
  Repeated = a1
  Instances = {p1, w1}
  Assignments = {a1, a2}
  Sender <- MCSender
  Routes <- MCRoutes
  MaxHops = 1
  SeenCap = 1
  Copies <- MCCopies
  Guarded = {p1}
  Reloading = {}
  Restarting = {}
  Prompted = {w1}
  MayRefuse = {}
  NoTask = notask
  OwnTask = owntask
INVARIANTS AnswersMatch
CHECK_DEADLOCK FALSE
