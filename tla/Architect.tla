------------------------------ MODULE Architect ------------------------------
(***************************************************************************)
(* Generated Playbooks: `yano architect' proposes, revises, provisions and *)
(* promotes them, `yano playbook' removes and purges what was promoted.    *)
(*                                                                         *)
(* A proposal is a row, its files (manifest.json and readiness.json, which *)
(* the launcher obeys), the recorded checks of its capabilities, its       *)
(* validations, feedback and interviews.  Planners, the architect,         *)
(* the watcher and users run the command line, each call a process: those  *)
(* that start other programs or write several files are chains of steps,   *)
(* the others one step.  A process may be interrupted between two steps.   *)
(***************************************************************************)
EXTENDS Integers

CONSTANTS
  Commanders,     \* processes of the chains
  Interruptible,  \* those that may be interrupted
  Proposals, Tasks, Playbooks, Capabilities,
  Mcp,            \* capabilities that only a recorded handshake makes ready
  Needs,          \* Needs[t]: what the Playbook generated for task t declares
  Playbook,       \* Playbook[t]: its id
  Teams,          \* tasks that get a team: their revision asks the user again
  MaxVersion      \* bound on revisions

ASSUME ArchitectAssumption ==
  /\ Interruptible \subseteq Commanders /\ Mcp \subseteq Capabilities
  /\ Teams \subseteq Tasks /\ Playbook \in [Tasks -> Playbooks]
  /\ Needs \in [Tasks -> (SUBSET Capabilities) \ {{}}]
  /\ MaxVersion \in Nat \ {0} /\ Tasks # {} /\ Proposals # {}

\* Version n stands for 0.n.0, and 0 for the 1.0.0 of an import, which is
\* revised to 0.1.0.
Versions == 0..MaxVersion
Contents == Versions \X Tasks

VARIABLES
  proposal,   \* proposal[p]: the row's status and, as a content, version and task
  manifest,   \* manifest[p]: the content of manifest.json
  ready,      \* ready[p]: what readiness.json says
  interview,  \* interview[p]: an interview is open
  checks,     \* checks[p][n]: the row of capability n
  evidence,   \* evidence[p]: a passed validation, positive feedback
  catalog,    \* catalog[k]: the directory of Playbook k
  command,    \* command[c]: where process c is, with what it has read; history, in
              \* late: the manifest that it checked was replaced, or the rows that
              \* its gate read were in doubt
  proven,     \* history: what was verified for the present manifest
  blurred,    \* history: proposals with a revision that was cut short, or with
              \* checks recorded after the manifest they are of was replaced
  razed       \* history: Playbooks purged while they were promoted

arVars == <<proposal, manifest, ready, interview, checks, evidence, catalog, command,
            proven, blurred, razed>>

\* "settled" stands for every other status: no command decides on which.
Standings == {"absent", "awaiting_user_input", "settled"}
Revising  == {"manifest", "row", "drop"}
Verifying == {"record", "stage", "agents"}
Gating    == {"copy", "copied"}
Promoting == {"copied", "described"}

ArchitectTypeOK ==
  /\ proposal \in [Proposals -> [status : Standings, is : Contents]]
  /\ manifest \in [Proposals -> Contents]
  /\ ready \in [Proposals -> BOOLEAN] /\ interview \in [Proposals -> BOOLEAN]
  /\ checks \in [Proposals -> [Capabilities -> {"none", "missing", "ready", "verified"}]]
  /\ evidence \in [Proposals -> SUBSET {"passed", "positive"}]
  /\ catalog \in [Playbooks ->
       [copied : SUBSET Versions, described : SUBSET Versions,
        unverified : SUBSET Versions, doubted : SUBSET Versions,
        current : SUBSET Versions, removed : BOOLEAN]]
  /\ command \in [Commanders ->
       [at : {"rest", "ask", "verify", "record", "imported", "stage", "launch", "agents",
              "repairs", "gate"} \cup Revising \cup Gating \cup Promoting,
        p : Proposals, of : Contents, found : SUBSET Capabilities, late : BOOLEAN]]
  /\ proven \in [Proposals -> SUBSET Capabilities]
  /\ blurred \subseteq Proposals /\ razed \subseteq Playbooks

NoContent == <<0, CHOOSE t \in Tasks : TRUE>>
Uncalled == [at |-> "rest", p |-> CHOOSE p \in Proposals : TRUE, of |-> NoContent,
             found |-> {}, late |-> FALSE]
Vacant == [copied |-> {}, described |-> {}, unverified |-> {}, doubted |-> {},
           current |-> {}, removed |-> FALSE]
Unchecked == [n \in Capabilities |-> "none"]

ArchitectInit ==
  /\ proposal = [p \in Proposals |-> [status |-> "absent", is |-> NoContent]]
  /\ manifest = [p \in Proposals |-> NoContent]
  /\ ready = [p \in Proposals |-> FALSE] /\ interview = [p \in Proposals |-> FALSE]
  /\ checks = [p \in Proposals |-> Unchecked]
  /\ evidence = [p \in Proposals |-> {}]
  /\ catalog = [k \in Playbooks |-> Vacant]
  /\ command = [c \in Commanders |-> Uncalled]
  /\ proven = [p \in Proposals |-> {}] /\ blurred = {} /\ razed = {}

Exists(p) == proposal[p].status # "absent"
Turns(p, s) == proposal' = [proposal EXCEPT ![p].status = s]
Calls(c, at, p, of, found) ==
  command' = [command EXCEPT ![c] =
             [at |-> at, p |-> p, of |-> of, found |-> found, late |-> command[c].late]]
Steps(c, at) == command' = [command EXCEPT ![c].at = at]
Returns(c) == command' = [command EXCEPT ![c] = Uncalled]
-----------------------------------------------------------------------------
(* Proposals, imports and interviews *)

Drafts(c, p, of, status, at) ==
  /\ command[c].at = "rest" /\ ~Exists(p)
  /\ proposal' = [proposal EXCEPT ![p] = [status |-> status, is |-> of]]
  /\ manifest' = [manifest EXCEPT ![p] = of]
  /\ IF at = "rest" THEN UNCHANGED command ELSE Calls(c, at, p, of, {})
  /\ UNCHANGED <<ready, interview, checks, evidence, catalog, proven, blurred, razed>>

\* createProposal: a Playbook that the catalog lacks, or a new one that was
\* asked for, needs the user.
Propose(c, p, t) ==
  \/ Drafts(c, p, <<1, t>>, "awaiting_user_input", "ask")
  \/ Drafts(c, p, <<1, t>>, "settled", "rest")

Import(c, p, t) == Drafts(c, p, <<0, t>>, "awaiting_user_input", "imported")

\* createInterview: an open one is reused.
Ask(c) ==
  /\ command[c].at = "ask"
  /\ interview' = [interview EXCEPT ![command[c].p] = TRUE]
  /\ Returns(c)
  /\ UNCHANGED <<proposal, manifest, ready, checks, evidence, catalog, proven,
                 blurred, razed>>

Interview(p) ==
  /\ Exists(p)
  /\ interview' = [interview EXCEPT ![p] = TRUE]
  /\ UNCHANGED <<proposal, manifest, ready, checks, evidence, catalog, command,
                 proven, blurred, razed>>

AnswerInterview(p) ==
  /\ interview[p]
  /\ interview' = [interview EXCEPT ![p] = FALSE]
  /\ Turns(p, "settled")
  /\ UNCHANGED <<manifest, ready, checks, evidence, catalog, command, proven, blurred,
                 razed>>

\* recordValidation and recordFeedback write the status whatever it is.
Judge(p, verdict) ==
  /\ Exists(p)
  /\ Turns(p, "settled")
  /\ \/ evidence' = [evidence EXCEPT ![p] = @ \cup {verdict}]
     \/ UNCHANGED evidence
  /\ UNCHANGED <<manifest, ready, interview, checks, catalog, command, proven,
                 blurred, razed>>

RecordValidation(p) == Judge(p, "passed")
RecordFeedback(p) == Judge(p, "positive")

\* recordCapability: somebody vouches for a capability that has a row.
RecordCapability(p, n) ==
  /\ checks[p][n] # "none"
  /\ checks' = [checks EXCEPT ![p][n] = IF n \in Mcp THEN "verified" ELSE "ready"]
  /\ proven' = [proven EXCEPT ![p] = @ \cup {n}]
  /\ UNCHANGED <<proposal, manifest, ready, interview, evidence, catalog, command,
                 blurred, razed>>
-----------------------------------------------------------------------------
(* The capability gate *)

\* What the launcher asks before it starts a role of the proposal.
Operational(p) == Exists(p) /\ ready[p]

Provision(c, p) ==
  /\ command[c].at = "rest" /\ Exists(p) /\ proposal[p].status # "awaiting_user_input"
  /\ Calls(c, "verify", p, NoContent, {})
  /\ UNCHANGED <<proposal, manifest, ready, interview, checks, evidence, catalog, proven,
                 blurred, razed>>

\* checkCapabilities: skills and CLIs are looked for, an MCP is ready only if
\* its handshake is recorded.
CheckCapabilities(c) ==
  LET p == command[c].p
      of == manifest[p]
      handshakes == {n \in Needs[of[2]] \cap Mcp : checks[p][n] = "verified"}
  IN /\ command[c].at \in {"verify", "imported"}
     /\ \E found \in SUBSET (Needs[of[2]] \ Mcp) :
          Calls(c, IF command[c].at = "verify" THEN "record" ELSE "stage", p, of,
                found \cup handshakes)
     /\ UNCHANGED <<proposal, manifest, ready, interview, checks, evidence, catalog, proven,
                    blurred, razed>>

\* persistChecks: it leaves the rows of other capabilities.
PersistChecks(c) ==
  LET p == command[c].p
      of == command[c].of
      row(n) == IF n \notin command[c].found THEN "missing"
                ELSE IF n \in Mcp THEN "verified" ELSE "ready"
      late == command[c].late
  IN /\ checks' = [checks EXCEPT ![p] =
                     [n \in Capabilities |-> IF n \in Needs[of[2]] THEN row(n) ELSE @[n]]]
     /\ proven' = IF late THEN proven ELSE [proven EXCEPT ![p] = @ \cup command[c].found]
     /\ blurred' = IF late THEN blurred \cup {p} ELSE blurred

\* The first half of provision: all of it with --once, or when something is
\* missing and nothing is to be installed.
RecordChecks(c) ==
  LET p == command[c].p
      ok == command[c].found = Needs[command[c].of[2]]
  IN /\ command[c].at = "record"
     /\ PersistChecks(c)
     /\ Turns(p, "settled")
     /\ \/ Returns(c) /\ ready' = [ready EXCEPT ![p] = ok]
        \/ ok /\ Calls(c, "agents", p, command[c].of, {}) /\ UNCHANGED ready
        \/ ~ok /\ Calls(c, "repairs", p, command[c].of, {}) /\ UNCHANGED ready
     /\ UNCHANGED <<manifest, interview, evidence, catalog, razed>>

\* launchValidationWatcher, launchArchitect and the end of provision: with one
\* launch that fails, or in a dry run, readiness.json refuses.  Without all
\* capabilities the architect alone is started, to install them; then only a
\* failure writes the status.
LaunchAgents(c) ==
  LET p == command[c].p IN
  /\ \/ /\ command[c].at = "agents"
        /\ Turns(p, "settled") /\ ready' = [ready EXCEPT ![p] = TRUE]
        /\ blurred' = IF command[c].late THEN blurred \cup {p} ELSE blurred
     \/ /\ command[c].at \in {"agents", "repairs"}
        /\ \/ Turns(p, "settled")
           \/ command[c].at = "repairs" /\ UNCHANGED proposal
        /\ ready' = [ready EXCEPT ![p] = FALSE] /\ UNCHANGED blurred
  /\ Returns(c)
  /\ UNCHANGED <<manifest, interview, checks, evidence, catalog, proven, razed>>

\* createImport checks too, and asks whatever it finds.
StageImport(c) ==
  /\ command[c].at = "stage"
  /\ PersistChecks(c)
  /\ interview' = [interview EXCEPT ![command[c].p] = TRUE]
  /\ Steps(c, "launch") \/ Returns(c)
  /\ UNCHANGED <<proposal, manifest, ready, evidence, catalog, razed>>

\* It takes minutes to start the architect; the status is written again.
LaunchForImport(c) ==
  /\ command[c].at = "launch"
  /\ Turns(command[c].p, "awaiting_user_input") \/ UNCHANGED proposal
  /\ Returns(c)
  /\ UNCHANGED <<manifest, ready, interview, checks, evidence, catalog, proven,
                 blurred, razed>>
-----------------------------------------------------------------------------
(* Revision: new files under the old row, then the row, then the old checks *)

\* The row is read and playbook.yaml written.
Revise(c, p, t) ==
  /\ command[c].at = "rest" /\ Exists(p) /\ proposal[p].is[1] < MaxVersion
  /\ Calls(c, "manifest", p, <<proposal[p].is[1] + 1, t>>, {})
  /\ UNCHANGED <<proposal, manifest, ready, interview, checks, evidence, catalog, proven,
                 blurred, razed>>

Replaces(c, p) ==
  /\ manifest' = [manifest EXCEPT ![p] = command[c].of]
  /\ proven' = [proven EXCEPT ![p] = {}]
  /\ command' = [d \in Commanders |->
       [command[d] EXCEPT
          !.at = IF d = c THEN "row" ELSE @,
          !.late = @ \/ (command[d].p = p /\ command[d].at \in Verifying \cup Gating)]]
  /\ UNCHANGED <<proposal, interview, checks, evidence, catalog, blurred, razed>>

\* Faulty variant: readiness.json keeps what it says of the earlier manifest.
WriteManifestOnly(c) ==
  command[c].at = "manifest" /\ Replaces(c, command[c].p) /\ UNCHANGED ready

\* manifest.json and a readiness.json that refuses.
WriteManifest(c) ==
  /\ command[c].at = "manifest"
  /\ Replaces(c, command[c].p)
  /\ ready' = [ready EXCEPT ![command[c].p] = FALSE]

UpdateProposal(c) ==
  /\ command[c].at = "row"
  /\ proposal' = [proposal EXCEPT ![command[c].p] =
       [status |-> IF command[c].of[2] \in Teams THEN "awaiting_user_input" ELSE "settled",
        is |-> command[c].of]]
  /\ Steps(c, "drop")
  /\ UNCHANGED <<manifest, ready, interview, checks, evidence, catalog, proven,
                 blurred, razed>>

UnderRevision(p) == \E c \in Commanders : command[c].p = p /\ command[c].at \in Revising

\* Faulty variant: the rows of the earlier manifest stay.
KeepsChecks(c) ==
  LET p == command[c].p IN
  /\ command[c].at = "drop"
  /\ interview' = [interview EXCEPT ![p] = @ \/ command[c].of[2] \in Teams]
  /\ Returns(c)
  /\ UNCHANGED <<proposal, manifest, ready, checks, evidence, catalog, proven,
                 blurred, razed>>

\* The DELETE, and the interview of a team.
DropChecks(c) ==
  LET p == command[c].p IN
  /\ command[c].at = "drop"
  /\ checks' = [checks EXCEPT ![p] = Unchecked]
  /\ interview' = [interview EXCEPT ![p] = @ \/ command[c].of[2] \in Teams]
  /\ Returns(c)
  /\ UNCHANGED <<proposal, manifest, ready, evidence, catalog, proven, blurred, razed>>
-----------------------------------------------------------------------------
(* Promotion into the catalog, and out of it *)

Gated(p) ==
  /\ \E n \in Capabilities : checks[p][n] # "none"
  /\ \A n \in Capabilities : checks[p][n] # "missing"

Doubtful(p) == UnderRevision(p) \/ p \in blurred

\* promote: the row is read and named to the command ...
Promote(c, p) ==
  /\ command[c].at = "rest" /\ Exists(p)
  /\ Calls(c, "gate", p, proposal[p].is, {})
  /\ UNCHANGED <<proposal, manifest, ready, interview, checks, evidence, catalog, proven,
                 blurred, razed>>

\* ... then the checks, validations and feedback there are ...
PassGate(c) ==
  LET p == command[c].p IN
  /\ command[c].at = "gate"
  /\ \/ /\ Gated(p) /\ evidence[p] = {"passed", "positive"}
        /\ command' = [command EXCEPT ![c].at = "copy", ![c].late = Doubtful(p)]
     \/ ~(Gated(p) /\ evidence[p] = {"passed", "positive"}) /\ Returns(c)
  /\ UNCHANGED <<proposal, manifest, ready, interview, checks, evidence, catalog, proven,
                 blurred, razed>>

Target(c) == Playbook[command[c].of[2]]

\* ... and playbook.yaml is copied to the directory of the row's version.
CopyPlaybook(c) ==
  /\ command[c].at = "copy"
  /\ catalog' = [catalog EXCEPT ![Target(c)].copied = @ \cup {command[c].of[1]}]
  /\ Steps(c, "copied")
  /\ UNCHANGED <<proposal, manifest, ready, interview, checks, evidence, proven,
                 blurred, razed>>

\* The version's manifest and the roles, with the capabilities of the manifest
\* that is there now; a directory that was purged meanwhile is an error.
Describe(c) ==
  LET p == command[c].p
      k == Target(c)
      v == command[c].of[1]
      With(versions, cond) == IF cond THEN versions \cup {v} ELSE versions \ {v}
  IN /\ command[c].at = "copied"
     /\ \/ /\ v \in catalog[k].copied
           /\ catalog' = [catalog EXCEPT
                ![k].described = @ \cup {v},
                ![k].unverified = With(@, ~(Needs[manifest[p][2]] \subseteq proven[p])),
                ![k].doubted = With(@, command[c].late)]
           /\ Steps(c, "described")
        \/ v \notin catalog[k].copied /\ Returns(c) /\ UNCHANGED catalog
     /\ UNCHANGED <<proposal, manifest, ready, interview, checks, evidence, proven,
                    blurred, razed>>

\* current.json and the row.
Publish(c) ==
  LET k == Target(c)
      v == command[c].of[1]
  IN /\ command[c].at = "described"
     /\ \/ /\ catalog[k].copied # {}
           /\ catalog' = [catalog EXCEPT ![k].current = {v}, ![k].removed = FALSE]
           /\ Turns(command[c].p, "settled")
        \/ catalog[k].copied = {} /\ UNCHANGED <<catalog, proposal>>
     /\ Returns(c)
     /\ UNCHANGED <<manifest, ready, interview, checks, evidence, proven, blurred,
                    razed>>

\* What readers of the catalog take: the version that current.json names, and
\* 0.1.0 while it names none.
Offered(k) ==
  IF catalog[k].current # {} THEN catalog[k].current ELSE catalog[k].copied \cap {1}

RemovePlaybook(k) ==
  /\ Offered(k) # {} /\ ~catalog[k].removed
  /\ catalog' = [catalog EXCEPT ![k].removed = TRUE]
  /\ UNCHANGED <<proposal, manifest, ready, interview, checks, evidence, command,
                 proven, blurred, razed>>

PurgePlaybook(k) ==
  /\ Offered(k) # {} /\ catalog[k].removed
  /\ catalog' = [catalog EXCEPT ![k] = Vacant]
  /\ razed' = IF \E c \in Commanders : command[c].at \in Promoting /\ Target(c) = k
              THEN razed \cup {k} ELSE razed
  /\ UNCHANGED <<proposal, manifest, ready, interview, checks, evidence, command,
                 proven, blurred>>
-----------------------------------------------------------------------------
\* A command is interrupted, or one of its statements fails.
Interrupt(c) ==
  /\ c \in Interruptible /\ command[c].at # "rest"
  /\ blurred' = IF command[c].at \in Revising THEN blurred \cup {command[c].p} ELSE blurred
  /\ Returns(c)
  /\ UNCHANGED <<proposal, manifest, ready, interview, checks, evidence, catalog,
                 proven, razed>>

ArchitectNext ==
  \/ \E c \in Commanders, p \in Proposals :
       \/ \E t \in Tasks : Propose(c, p, t) \/ Import(c, p, t) \/ Revise(c, p, t)
       \/ Provision(c, p) \/ Promote(c, p)
  \/ \E c \in Commanders :
       \/ Ask(c) \/ CheckCapabilities(c) \/ RecordChecks(c) \/ LaunchAgents(c)
       \/ StageImport(c) \/ LaunchForImport(c)
       \/ WriteManifest(c) \/ UpdateProposal(c) \/ DropChecks(c)
       \/ PassGate(c) \/ CopyPlaybook(c) \/ Describe(c) \/ Publish(c) \/ Interrupt(c)
  \/ \E p \in Proposals :
       \/ Interview(p) \/ AnswerInterview(p) \/ RecordValidation(p) \/ RecordFeedback(p)
       \/ \E n \in Capabilities : RecordCapability(p, n)
  \/ \E k \in Playbooks : RemovePlaybook(k) \/ PurgePlaybook(k)

ArchitectSpec == ArchitectInit /\ [][ArchitectNext]_arVars
-----------------------------------------------------------------------------
(* What the architect guarantees *)

\* The launcher starts the roles of a proposal only when every capability its
\* manifest declares has been verified since the manifest was manifest, however
\* verifications, handshakes, launches and revisions follow one another: unless
\* a revision is under way or was cut short, or a provision that began before
\* it ended after it.
CapabilityGate ==
  \A p \in Proposals :
    Operational(p) /\ ~Doubtful(p) => Needs[manifest[p][2]] \subseteq proven[p]

\* Each capability that a version of the catalog declares had been verified for
\* the manifest it was taken from, although a promotion reads the manifest again
\* after its gate, and a version that current.json names is complete, whatever
\* interrupted its promotion: unless the manifest was replaced between the gate
\* and that reading, the gate read rows of a proposal that CapabilityGate leaves
\* out, or the Playbook was purged meanwhile.
CatalogSound ==
  \A k \in Playbooks \ razed :
    ~catalog[k].removed =>
      /\ Offered(k) \cap catalog[k].unverified \subseteq catalog[k].doubted
      /\ catalog[k].current \subseteq catalog[k].described
=============================================================================
