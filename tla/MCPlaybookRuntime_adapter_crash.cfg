SPECIFICATION FairPlaybookSpec
CONSTANTS
  States = {"received", "waiting", "blocked"}
  Initial = "received"
  Blocked = "blocked"
  Transitions = {"scope", "cancel"}
  From <- MCFrom
  To <- MCTo
  EffectIds = {"approve", "notify"}
  Effects <- MCEffects
  Kind <- MCKind
  Movers = {p1}
  Adapters = {a1, a2}
  NoOwner = noowner
  MaxGeneration = 1
  MaxAttempts = 2
  MayDie = {a1}
  MayLapse = TRUE
PROPERTIES EffectsSettle
CHECK_DEADLOCK FALSE
