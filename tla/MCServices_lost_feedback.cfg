SPECIFICATION MCSpec
CONSTANTS
 Part = {"feedback"}
 Jobs = {"digest", "ask", "once", "plan"}
 Digest = "digest"
 Async = {"ask"}
 OneShot = {"once"}
 Initially = {"ask", "plan"}
 Due <- MCDue
 Outcomes <- MCOutcomes
 Entries = {"cron", "watcher"}
 Commands <- MCCommands
 MaxMinute = 2
 MaxCommands = 1
 MaxRecoveries = 1
 StaleAfter = 1
 MayDie = {"cron"}
 MayOverrun = {}
 NoEntry = noentry
 Items = {1, 2}
 Type <- MCType
 Agents = {p1}
 Vanishing = {}
 Present = {}
 Editable = {}
 Slugs = {s1, s2}
 Work = {w1}
 Callers = {c1, c2}
 Mortal = {c1}
 Clashing = {s1}
 NoSlug = none
 Members = {"p", "q"}
 PlannerRole = {"p", "q"}
 Fragile = {"q"}
 Roles = {"coder", "docs", "tdd"}
 Coding = {"coder"}
 Coder = "coder"
 Tester = "tdd"
 Documenter = "docs"
 Declarations <- MCDeclarations
 Files = {"f", "g"}
 Commanders = {"x", "y"}
 Interruptible = {"x"}
 Proposals = {"p"}
 Tasks = {"plain", "team"}
 Playbooks = {"ours"}
 Capabilities = {"cli", "mcp"}
 Mcp = {"mcp"}
 Needs <- MCNeeds
 Playbook <- MCPlaybook
 Teams = {"team"}
 MaxVersion = 1
CONSTRAINT Watched
INVARIANT FindsOut
CHECK_DEADLOCK FALSE
