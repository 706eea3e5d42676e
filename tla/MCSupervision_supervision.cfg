SPECIFICATION MCSpec
CONSTANTS
  Part = {"rough", "calm", "messages"}
  Tickets = {t1}
  Planners = {p1}
  Workers = {w1}
  Operator = operator
  NoAgent = noagent
  Qualified <- MCQualified
  MaxRetries = 1
  CloseAs = {"cancelled"}
  MayCrash = {p1, w1}
  LinkDrops = {p1, w1}
  MayBusy = TRUE
  Openers = {p1, w1}
  Worker = w1
  Planner = p1
  Repeated = a1
  Instances = {p1, w1}
  Assignments = {a1, a2}
  Sender <- MCSender
  Routes <- MCRoutes
  MaxHops = 1
  SeenCap = 1
  Copies <- MCCopies
  Guarded = {p1}
  Reloading = {p1}
  Restarting = {p1}
  Prompted = {w1}
  MayRefuse = {p1}
  NoTask = notask
  OwnTask = owntask
INVARIANTS CurrentIsOpen TakenOnce ToldOnce
PROPERTIES HoldPausesSweep CalmRescue ReadyTakesNothing AlwaysWoken
CHECK_DEADLOCK FALSE
