SPECIFICATION MCSpec
CONSTANTS
  Part = {"improver"}
  Tickets = {t1}
  Planners = {p1, p2}
  Workers = {w1}
  Operator = operator
  NoAgent = noagent
  Qualified <- MCQualified
  MaxRetries = 2
  CloseAs = {"cancelled"}
  MayCrash = {p1, w1}
  Tabs = {tab1, tab2}
  Healers = {cron, status}
  Supervisors = {cron}
  Works = {"ready"}
  MaxUpsets = 1
  Daemons = {d1, d2}
  Perishable = {d1}
  Operators = {op}
  Orders = {"run", "rehearse", "resume", "pause"}
  Cron = crontab
  NoDaemon = nodaemon
PROPERTIES PauseSuspends
CHECK_DEADLOCK FALSE
