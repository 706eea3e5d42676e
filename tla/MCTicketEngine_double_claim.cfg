SPECIFICATION Spec
CONSTANTS
  Tickets = {t1, t2}
  Planners = {p1}
  Workers = {w1, w2}
  Operator = operator
  NoAgent = noagent
  Qualified <- MCQualified
  MaxRetries = 1
  CloseAs = {}
  MayCrash = {}
  FirstTicket = t1
  Specialist = w2
PROPERTIES ClaimTakesPending
CHECK_DEADLOCK FALSE
