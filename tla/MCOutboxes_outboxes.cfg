SPECIFICATION MCSpec
CONSTANTS
  Part = {"answers", "rough", "calm"}
  Holds = {h1, h2}
  Approvals = {h2}
  Expiring = {h1}
  Keys = {k1, k2}
  Planners = {p1, p2}
  Users = {}
  MayCrash = {p2}
  States = {"received", "waiting", "blocked"}
  Initial = "received"
  Blocked = "blocked"
  Transitions = {"scope", "cancel"}
  From <- MCFrom
  To <- MCTo
  EffectIds = {"approve", "notify"}
  Effects <- MCEffects
  Kind <- MCKind
  Movers = {m1, m2}
  Adapters = {a1, a2}
  NoOwner = noowner
  MaxGeneration = 2
  MaxAttempts = 2
  MayDie = {m1, m2, a1, a2}
  MayLapse = TRUE
INVARIANTS OneNotification OneAnswer ResumedOncePerPlanner
INVARIANTS ApprovalGates ExclusiveExecutor
PROPERTIES ImplementsGate ImplementsPlaybook AnswersAreTold OverdueHoldsClose CalmEffectsSettle
CHECK_DEADLOCK FALSE
