-------------------------- MODULE Architect_proofs --------------------------
(***************************************************************************)
(* Proofs about the architect, for any proposals, tasks, Playbooks and     *)
(* processes.  Two histories carry the argument: `proven' starts again     *)
(* with every manifest, and `late' tells a verification whose manifest was *)
(* replaced under it from one that still speaks of the present one.        *)
(***************************************************************************)
EXTENDS Architect, TLAPS

\* A proposal that does not exist has no checks and is not ready, and a process
\* that has begun works on one that exists.
Existing ==
  /\ \A p \in Proposals : ~Exists(p) => ~ready[p] /\ checks[p] = Unchecked
  /\ \A c \in Commanders : command[c].at # "rest" => Exists(command[c].p)

\* readiness.json tells the truth, also while a revision is under way.
ReadyIsProven ==
  \A p \in Proposals :
    ready[p] /\ p \notin blurred => Needs[manifest[p][2]] \subseteq proven[p]

\* The recorded checks are none at all, or one for each capability that the
\* manifest declares, and true.
RowsSound(p) ==
  \/ \A n \in Capabilities : checks[p][n] = "none"
  \/ \A n \in Needs[manifest[p][2]] :
       checks[p][n] # "none" /\ (checks[p][n] = "missing" \/ n \in proven[p])
RowsAreSound == \A p \in Proposals : ~Doubtful(p) => RowsSound(p)

\* A verification that is not late is one of the present manifest, and goes on
\* to start the agents only when it has proved all that it declares; a promotion
\* that is not late and past its gate will read a manifest that is proved.
ChecksOfManifest ==
  /\ \A c \in Commanders : command[c].at \in Verifying /\ ~command[c].late =>
       /\ command[c].of = manifest[command[c].p]
       /\ command[c].at = "agents" => Needs[command[c].of[2]] \subseteq proven[command[c].p]
  /\ \A c \in Commanders : command[c].at \in Gating /\ ~command[c].late =>
       Needs[manifest[command[c].p][2]] \subseteq proven[command[c].p]

\* Nothing unverified enters the catalog but in doubt, and what is about to be published, or
\* was, is described.
CatalogComplete ==
  /\ \A k \in Playbooks : catalog[k].unverified \subseteq catalog[k].doubted
  /\ \A k \in Playbooks \ razed : catalog[k].current \subseteq catalog[k].described
  /\ \A c \in Commanders : command[c].at = "described" /\ Target(c) \notin razed =>
       command[c].of[1] \in catalog[Target(c)].described

Sound == Existing /\ ReadyIsProven /\ RowsAreSound /\ ChecksOfManifest
ArInv == ArchitectTypeOK /\ Sound /\ CatalogComplete

USE ArchitectAssumption DEF Revising, Verifying, Gating, Promoting
-----------------------------------------------------------------------------
LEMMA Nobody == NoContent \in Contents /\ Uncalled.p \in Proposals
<1>1. (CHOOSE t \in Tasks : TRUE) \in Tasks
  OBVIOUS
<1>2. (CHOOSE p \in Proposals : TRUE) \in Proposals
  OBVIOUS
<1> QED BY <1>1, <1>2 DEF NoContent, Uncalled, Contents, Versions

LEMMA InitArInv == ArchitectInit => ArInv
<1> SUFFICES ASSUME ArchitectInit PROVE ArInv
  OBVIOUS
<1>1. ArchitectTypeOK
  BY Nobody DEF ArchitectInit, ArchitectTypeOK, Uncalled, Vacant, Unchecked, Standings
<1>2. Existing /\ ReadyIsProven /\ RowsAreSound /\ ChecksOfManifest /\ CatalogComplete
  BY Nobody DEF ArchitectInit, Existing, Exists, ReadyIsProven, RowsAreSound, RowsSound, Unchecked,
     ChecksOfManifest, CatalogComplete, Uncalled, Vacant
<1> QED BY <1>1, <1>2 DEF ArInv, Sound

Calling ==
  [at : {"rest", "ask", "verify", "record", "imported", "stage", "launch", "agents",
         "repairs", "gate"} \cup Revising \cup Gating \cup Promoting,
   p : Proposals, of : Contents, found : SUBSET Capabilities, late : BOOLEAN]
Listing ==
  [copied : SUBSET Versions, described : SUBSET Versions,
   unverified : SUBSET Versions, doubted : SUBSET Versions,
   current : SUBSET Versions, removed : BOOLEAN]

Only(c) == \A d \in Commanders \ {c} : command'[d] = command[d]
Lasting == \A p \in Proposals : Exists(p) => Exists(p)'

LEMMA CommandType ==
  ASSUME ArchitectTypeOK, NEW c \in Commanders
  PROVE  /\ command \in [Commanders -> Calling]
         /\ command[c].p \in Proposals /\ command[c].of \in Contents
         /\ command[c].of[1] \in Versions /\ command[c].of[2] \in Tasks
         /\ command[c].found \in SUBSET Capabilities /\ command[c].late \in BOOLEAN
<1>1. command \in [Commanders -> Calling]
  BY DEF ArchitectTypeOK, Calling
<1> QED BY <1>1 DEF Calling, Contents

LEMMA ProposalType ==
  ASSUME ArchitectTypeOK, NEW p \in Proposals
  PROVE  /\ proposal[p] \in [status : Standings, is : Contents]
         /\ proposal[p].is \in Contents
         /\ proposal[p].is[1] \in Versions /\ proposal[p].is[2] \in Tasks
<1>1. proposal \in [Proposals -> [status : Standings, is : Contents]]
  BY DEF ArchitectTypeOK
<1>2. proposal[p] \in [status : Standings, is : Contents]
  BY <1>1
<1>3. proposal[p].is \in Contents
  BY <1>2
<1> QED BY <1>2, <1>3 DEF Contents

LEMMA NewProposal ==
  ASSUME ArchitectTypeOK, NEW p \in Proposals, NEW r,
         r \in [status : Standings, is : Contents], proposal' = [proposal EXCEPT ![p] = r]
  PROVE  /\ proposal' \in [Proposals -> [status : Standings, is : Contents]]
         /\ r.status # "absent" => Lasting /\ Exists(p)'
BY DEF ArchitectTypeOK, Lasting, Exists

\* What a step makes of the process that takes it.
LEMMA Moved ==
  ASSUME ArchitectTypeOK, NEW c \in Commanders, NEW r \in Calling,
         command' = [command EXCEPT ![c] = r]
  PROVE  command' \in [Commanders -> Calling] /\ Only(c) /\ command'[c] = r
BY CommandType DEF Only

LEMMA Called ==
  ASSUME ArchitectTypeOK, NEW c \in Commanders, NEW at, NEW p \in Proposals,
         NEW of \in Contents, NEW found \in SUBSET Capabilities,
         at \in {"ask", "verify", "record", "imported", "stage", "launch", "agents",
                "repairs", "gate"} \cup Revising \cup Gating \cup Promoting,
         Calls(c, at, p, of, found)
  PROVE  /\ command' \in [Commanders -> Calling] /\ Only(c)
         /\ command'[c] = [at |-> at, p |-> p, of |-> of, found |-> found,
                            late |-> command[c].late]
BY CommandType, Moved, ZenonT(30) DEF Calls, Calling

LEMMA Returned ==
  ASSUME ArchitectTypeOK, NEW c \in Commanders, Returns(c)
  PROVE  /\ command' \in [Commanders -> Calling] /\ Only(c)
         /\ command'[c].at = "rest"
BY Nobody, Moved DEF Returns, Calling, Uncalled

LEMMA Stepped ==
  ASSUME ArchitectTypeOK, NEW c \in Commanders, NEW at,
         at \in {"launch"} \cup Revising \cup Gating \cup Promoting, Steps(c, at)
  PROVE  /\ command' \in [Commanders -> Calling] /\ Only(c)
         /\ command'[c] = [command[c] EXCEPT !.at = at]
         /\ command'[c].at = at /\ command'[c].p = command[c].p
         /\ command'[c].of = command[c].of /\ command'[c].late = command[c].late
<1>1. command \in [Commanders -> Calling]
  BY CommandType
<1>2. [command[c] EXCEPT !.at = at] \in Calling
  BY <1>1 DEF Calling
<1>3. command' = [command EXCEPT ![c] = [command[c] EXCEPT !.at = at]]
  BY <1>1 DEF Steps
<1>4. command' \in [Commanders -> Calling] /\ Only(c)
      /\ command'[c] = [command[c] EXCEPT !.at = at]
  BY <1>2, <1>3, Moved
<1> QED BY <1>1, <1>4 DEF Calling

LEMMA Turned ==
  ASSUME ArchitectTypeOK, NEW p \in Proposals, NEW s \in {"awaiting_user_input", "settled"},
         Turns(p, s)
  PROVE  /\ proposal' \in [Proposals -> [status : Standings, is : Contents]]
         /\ Lasting /\ Exists(p)'
<1>1. [proposal[p] EXCEPT !.status = s] \in [status : Standings, is : Contents]
  BY ProposalType DEF Standings
<1>2. proposal' = [proposal EXCEPT ![p] = [proposal[p] EXCEPT !.status = s]]
  BY DEF Turns
<1>3. [proposal[p] EXCEPT !.status = s].status # "absent"
  BY ProposalType
<1> QED BY <1>1, <1>2, <1>3, NewProposal

LEMMA Persisted ==
  ASSUME ArchitectTypeOK, NEW c \in Commanders, PersistChecks(c)
  PROVE  /\ checks' \in [Proposals -> [Capabilities -> {"none", "missing", "ready", "verified"}]]
         /\ proven' \in [Proposals -> SUBSET Capabilities]
         /\ blurred' \subseteq Proposals
<1> DEFINE p == command[c].p
           of == command[c].of
           row(n) == IF n \notin command[c].found THEN "missing"
                     ELSE IF n \in Mcp THEN "verified" ELSE "ready"
           rows == [n \in Capabilities |-> IF n \in Needs[of[2]] THEN row(n) ELSE checks[p][n]]
<1>1. checks' = [checks EXCEPT ![p] = rows]
  BY DEF PersistChecks, ArchitectTypeOK
<1>2. checks[p] \in [Capabilities -> {"none", "missing", "ready", "verified"}]
  BY CommandType DEF ArchitectTypeOK
<1>3. rows \in [Capabilities -> {"none", "missing", "ready", "verified"}]
  <2>1. \A n \in Capabilities : row(n) \in {"none", "missing", "ready", "verified"}
    OBVIOUS
  <2> QED BY <2>1, <1>2
<1>4. checks' \in [Proposals -> [Capabilities -> {"none", "missing", "ready", "verified"}]]
  BY <1>1, <1>3 DEF ArchitectTypeOK
<1>5. proven' \in [Proposals -> SUBSET Capabilities] /\ blurred' \subseteq Proposals
  BY CommandType DEF ArchitectTypeOK, PersistChecks
<1> QED BY <1>4, <1>5

LEMMA Shelved ==
  ASSUME ArchitectTypeOK, NEW k \in Playbooks, NEW r \in Listing,
         catalog' = [catalog EXCEPT ![k] = r]
  PROVE  catalog' \in [Playbooks -> Listing]
BY DEF ArchitectTypeOK, Listing

LEMMA GatePassed ==
  ASSUME ArchitectTypeOK, NEW c \in Commanders, PassGate(c)
  PROVE  /\ command' \in [Commanders -> Calling] /\ Only(c)
         /\ \/ command'[c].at = "rest"
            \/ /\ Gated(command[c].p)
               /\ command'[c] = [command[c] EXCEPT !.at = "copy", !.late = Doubtful(command[c].p)]
               /\ command'[c].at = "copy" /\ command'[c].p = command[c].p
               /\ command'[c].late = Doubtful(command[c].p)
<1>1. CASE Returns(c)
  BY <1>1, Returned
<1>2. CASE ~Returns(c)
  <2> DEFINE d == Doubtful(command[c].p)
             r == [command[c] EXCEPT !.at = "copy", !.late = d]
  <2>1. command[c] \in Calling /\ d \in BOOLEAN
    BY CommandType DEF Doubtful
  <2>2. command' = [command EXCEPT ![c].at = "copy", ![c].late = d] /\ Gated(command[c].p)
    BY <1>2 DEF PassGate
  <2> HIDE DEF d
  <2>3. r \in Calling /\ r.at = "copy" /\ r.p = command[c].p /\ r.late = d
    BY <2>1 DEF Calling
  <2>4. command' = [command EXCEPT ![c] = r]
    BY <2>2, CommandType
  <2> HIDE DEF r
  <2>5. command' \in [Commanders -> Calling] /\ Only(c) /\ command'[c] = r
    BY <2>3, <2>4, Moved
  <2> QED BY <2>2, <2>3, <2>5 DEF r, d
<1> QED BY <1>1, <1>2

\* What a promotion makes of the catalog's version when it reads the manifest.
LEMMA Described ==
  ASSUME ArchitectTypeOK, NEW c \in Commanders, Describe(c),
         command[c].of[1] \in catalog[Target(c)].copied
  PROVE  /\ catalog' \in [Playbooks -> Listing]
         /\ \A k \in Playbooks \ {Target(c)} : catalog'[k] = catalog[k]
         /\ LET k == Target(c)
                v == command[c].of[1]
                p == command[c].p
                With(versions, cond) == IF cond THEN versions \cup {v} ELSE versions \ {v}
            IN  /\ catalog'[k].described = catalog[k].described \cup {v}
                /\ catalog'[k].unverified = With(catalog[k].unverified,
                     ~(Needs[manifest[p][2]] \subseteq proven[p]))
                /\ catalog'[k].doubted = With(catalog[k].doubted, command[c].late)
                /\ catalog'[k].current = catalog[k].current
<1> DEFINE k == Target(c)
           v == command[c].of[1]
           p == command[c].p
           With(versions, cond) == IF cond THEN versions \cup {v} ELSE versions \ {v}
           un == With(catalog[k].unverified, ~(Needs[manifest[p][2]] \subseteq proven[p]))
           dt == With(catalog[k].doubted, command[c].late)
           r == [catalog[k] EXCEPT !.described = @ \cup {v}, !.unverified = un, !.doubted = dt]
<1>1. k \in Playbooks /\ v \in Versions
  BY CommandType DEF Target
<1>2. catalog[k] \in Listing /\ catalog \in [Playbooks -> Listing]
  BY <1>1 DEF ArchitectTypeOK, Listing
<1>3. catalog' = [catalog EXCEPT ![k].described = @ \cup {v}, ![k].unverified = un,
                                 ![k].doubted = dt]
  BY DEF Describe
<1>4. un \in SUBSET Versions /\ dt \in SUBSET Versions
  BY <1>1, <1>2 DEF Listing
<1> HIDE DEF un, dt, k, v
<1>5. catalog' = [catalog EXCEPT ![k] = r]
  BY <1>1, <1>2, <1>3 DEF Listing
<1>6. /\ r \in Listing /\ r.described = catalog[k].described \cup {v} /\ r.unverified = un
      /\ r.doubted = dt /\ r.current = catalog[k].current
  BY <1>1, <1>2, <1>4 DEF Listing
<1> HIDE DEF r
<1>7. catalog' \in [Playbooks -> Listing] /\ catalog'[k] = r
      /\ \A l \in Playbooks \ {k} : catalog'[l] = catalog[l]
  BY <1>1, <1>2, <1>5, <1>6
<1> QED BY <1>6, <1>7 DEF un, dt, k, v

LEMMA Drafted ==
  ASSUME ArchitectTypeOK, NEW c \in Commanders, NEW p \in Proposals, NEW of \in Contents,
         NEW status \in {"awaiting_user_input", "settled"},
         NEW at \in {"rest", "ask", "imported"}, Drafts(c, p, of, status, at)
  PROVE  ArchitectTypeOK'
<1>1. [status |-> status, is |-> of] \in [status : Standings, is : Contents]
  BY DEF Standings
<1>2. proposal' \in [Proposals -> [status : Standings, is : Contents]]
  BY <1>1, NewProposal DEF Drafts
<1>3. command' \in [Commanders -> Calling]
  BY Called, CommandType DEF Drafts
<1> QED BY <1>2, <1>3 DEF Drafts, ArchitectTypeOK, Calling

LEMMA TypedStep == ArchitectTypeOK /\ [ArchitectNext]_arVars => ArchitectTypeOK'
<1> SUFFICES ASSUME ArchitectTypeOK, [ArchitectNext]_arVars PROVE ArchitectTypeOK'
  OBVIOUS
<1>a. ASSUME command' \in [Commanders -> Calling]
      PROVE command' \in [Commanders ->
       [at : {"rest", "ask", "verify", "record", "imported", "stage", "launch", "agents",
              "repairs", "gate"} \cup Revising \cup Gating \cup Promoting,
        p : Proposals, of : Contents, found : SUBSET Capabilities, late : BOOLEAN]]
  BY <1>a DEF Calling
<1>1. ASSUME NEW c \in Commanders, NEW p \in Proposals, NEW t \in Tasks, Propose(c, p, t)
      PROVE  ArchitectTypeOK'
  <2>1. <<1, t>> \in Contents
    BY DEF Contents, Versions
  <2> QED BY <1>1, <1>a, <2>1, Drafted DEF Propose
<1>2. ASSUME NEW c \in Commanders, NEW p \in Proposals, NEW t \in Tasks, Import(c, p, t)
      PROVE  ArchitectTypeOK'
  <2>1. <<0, t>> \in Contents
    BY DEF Contents, Versions
  <2> QED BY <1>2, <1>a, <2>1, Drafted DEF Import
<1>3. ASSUME NEW c \in Commanders, NEW p \in Proposals, NEW t \in Tasks, Revise(c, p, t)
      PROVE  ArchitectTypeOK'
  <2>2. <<proposal[p].is[1] + 1, t>> \in Contents
    BY <1>3, ProposalType DEF Revise, Contents, Versions
  <2>3. Calls(c, "manifest", p, <<proposal[p].is[1] + 1, t>>, {})
    BY <1>3 DEF Revise
  <2>4. command' \in [Commanders -> Calling]
    BY <2>2, <2>3, Called
  <2> QED BY <1>3, <1>a, <2>4 DEF ArchitectTypeOK, Revise
<1>4. ASSUME NEW c \in Commanders, NEW p \in Proposals, Provision(c, p)
      PROVE  ArchitectTypeOK'
  <2>1. Calls(c, "verify", p, NoContent, {})
    BY <1>4 DEF Provision
  <2>2. command' \in [Commanders -> Calling]
    BY <2>1, Called, Nobody
  <2> QED BY <1>4, <1>a, <2>2 DEF ArchitectTypeOK, Provision
<1>5. ASSUME NEW c \in Commanders, NEW p \in Proposals, Promote(c, p)
      PROVE  ArchitectTypeOK'
  <2>1. Calls(c, "gate", p, proposal[p].is, {}) /\ proposal[p].is \in Contents
    BY <1>5, ProposalType DEF Promote
  <2>2. command' \in [Commanders -> Calling]
    BY <2>1, Called
  <2> QED BY <1>5, <1>a, <2>2 DEF ArchitectTypeOK, Promote
<1>26. ASSUME NEW c \in Commanders, PassGate(c)
      PROVE  ArchitectTypeOK'
  <2>1. command' \in [Commanders -> Calling]
    BY <1>26, GatePassed
  <2> QED BY <1>26, <1>a, <2>1 DEF ArchitectTypeOK, PassGate
<1>27. ASSUME NEW c \in Commanders, CopyPlaybook(c)
      PROVE  ArchitectTypeOK'
  <2>1. Target(c) \in Playbooks /\ command[c].of[1] \in Versions
    BY CommandType DEF Target
  <2>a. catalog[Target(c)] \in Listing
    BY <2>1 DEF ArchitectTypeOK, Listing
  <2>2. [catalog[Target(c)] EXCEPT !.copied = @ \cup {command[c].of[1]}] \in Listing
    BY <2>1, <2>a DEF Listing
  <2>3. catalog' \in [Playbooks -> Listing]
    BY <1>27, <2>1, <2>2, Shelved DEF CopyPlaybook, ArchitectTypeOK, Listing
  <2>4. command' \in [Commanders -> Calling]
    BY <1>27, Stepped DEF CopyPlaybook
  <2> QED BY <1>27, <1>a, <2>3, <2>4 DEF ArchitectTypeOK, CopyPlaybook, Listing
<1>6. ASSUME NEW c \in Commanders, Ask(c)
      PROVE  ArchitectTypeOK'
  BY <1>6, <1>a, Returned, CommandType DEF ArchitectTypeOK, Ask
<1>7. ASSUME NEW c \in Commanders, CheckCapabilities(c)
      PROVE  ArchitectTypeOK'
  <2> DEFINE of == manifest[command[c].p]
             handshakes == {n \in Needs[of[2]] \cap Mcp : checks[command[c].p][n] = "verified"}
  <2>1. of \in Contents /\ Needs[of[2]] \subseteq Capabilities
    BY CommandType DEF ArchitectTypeOK, Contents
  <2>2. PICK found \in SUBSET (Needs[of[2]] \ Mcp) :
          Calls(c, IF command[c].at = "verify" THEN "record" ELSE "stage", command[c].p, of,
                found \cup handshakes)
    BY <1>7 DEF CheckCapabilities
  <2>3. found \cup handshakes \in SUBSET Capabilities
    BY <2>1
  <2>4. command' \in [Commanders -> Calling]
    BY <2>1, <2>2, <2>3, Called, CommandType
  <2> QED BY <1>7, <1>a, <2>4 DEF ArchitectTypeOK, CheckCapabilities
<1>8. ASSUME NEW c \in Commanders, RecordChecks(c)
      PROVE  ArchitectTypeOK'
  <2>1. command' \in [Commanders -> Calling]
    BY <1>8, Returned, Called, CommandType, ZenonT(30) DEF RecordChecks
  <2>2. proposal' \in [Proposals -> [status : Standings, is : Contents]]
    BY <1>8, Turned, CommandType DEF RecordChecks
  <2>3. ready' \in [Proposals -> BOOLEAN]
    BY <1>8 DEF RecordChecks, ArchitectTypeOK
  <2> QED BY <1>8, <1>a, <2>1, <2>2, <2>3, Persisted DEF ArchitectTypeOK, RecordChecks
<1>9. ASSUME NEW c \in Commanders, LaunchAgents(c)
      PROVE  ArchitectTypeOK'
  <2>1. proposal' \in [Proposals -> [status : Standings, is : Contents]]
    BY <1>9, Turned, CommandType DEF LaunchAgents, ArchitectTypeOK
  <2>2. ready' \in [Proposals -> BOOLEAN]
    BY <1>9 DEF ArchitectTypeOK, LaunchAgents
  <2>4. blurred' \subseteq Proposals
    BY <1>9, CommandType DEF ArchitectTypeOK, LaunchAgents
  <2>3. command' \in [Commanders -> Calling]
    BY <1>9, Returned DEF LaunchAgents
  <2> QED BY <1>9, <1>a, <2>1, <2>2, <2>3, <2>4 DEF ArchitectTypeOK, LaunchAgents
<1>10. ASSUME NEW c \in Commanders, StageImport(c)
      PROVE  ArchitectTypeOK'
  BY <1>10, <1>a, Persisted, Stepped, Returned, CommandType DEF ArchitectTypeOK, StageImport
<1>11. ASSUME NEW c \in Commanders, LaunchForImport(c)
      PROVE  ArchitectTypeOK'
  BY <1>11, <1>a, Turned, Returned, CommandType DEF ArchitectTypeOK, LaunchForImport
<1>12. ASSUME NEW c \in Commanders, WriteManifest(c)
      PROVE  ArchitectTypeOK'
  <2>1. ASSUME NEW d \in Commanders, NEW b \in BOOLEAN, NEW l \in BOOLEAN
        PROVE  [command[d] EXCEPT !.at = IF b THEN "row" ELSE @, !.late = l] \in Calling
    <3>1. command[d] \in Calling
      BY CommandType
    <3> QED BY <3>1 DEF Calling
  <2>2. command' \in [Commanders -> Calling]
    BY <1>12, <2>1, CommandType, ZenonT(30) DEF WriteManifest, Replaces, Calling
  <2> QED BY <1>12, <1>a, <2>2, CommandType DEF ArchitectTypeOK, WriteManifest, Replaces
<1>13. ASSUME NEW c \in Commanders, UpdateProposal(c)
      PROVE  ArchitectTypeOK'
  <2>1. [status |-> IF command[c].of[2] \in Teams THEN "awaiting_user_input" ELSE "settled",
         is |-> command[c].of] \in [status : Standings, is : Contents]
    BY CommandType DEF Standings
  <2>2. proposal' \in [Proposals -> [status : Standings, is : Contents]]
    BY <1>13, <2>1, NewProposal, CommandType DEF UpdateProposal
  <2>3. command' \in [Commanders -> Calling]
    BY <1>13, Stepped DEF UpdateProposal
  <2> QED BY <1>13, <1>a, <2>2, <2>3 DEF ArchitectTypeOK, UpdateProposal
<1>14. ASSUME NEW c \in Commanders, DropChecks(c)
      PROVE  ArchitectTypeOK'
  BY <1>14, <1>a, Returned, CommandType DEF ArchitectTypeOK, DropChecks, Unchecked
<1>15. ASSUME NEW c \in Commanders, Describe(c)
      PROVE  ArchitectTypeOK'
  <2>1. Target(c) \in Playbooks /\ command[c].of[1] \in Versions
    BY CommandType DEF Target
  <2>a. catalog[Target(c)] \in Listing
    BY <2>1 DEF ArchitectTypeOK, Listing
  <2>3. catalog' \in [Playbooks -> Listing]
    <3>1. CASE command[c].of[1] \notin catalog[Target(c)].copied
      BY <1>15, <3>1 DEF Describe, ArchitectTypeOK, Listing
    <3>2. CASE command[c].of[1] \in catalog[Target(c)].copied
      BY <1>15, <3>2, Described
    <3> QED BY <3>1, <3>2
  <2>4. command' \in [Commanders -> Calling]
    BY <1>15, Stepped, Returned DEF Describe
  <2> QED BY <1>15, <1>a, <2>3, <2>4 DEF ArchitectTypeOK, Describe, Listing
<1>16. ASSUME NEW c \in Commanders, Publish(c)
      PROVE  ArchitectTypeOK'
  <2>1. Target(c) \in Playbooks /\ command[c].of[1] \in Versions
    BY CommandType DEF Target
  <2>a. catalog[Target(c)] \in Listing
    BY <2>1 DEF ArchitectTypeOK, Listing
  <2>2. [catalog[Target(c)] EXCEPT !.current = {command[c].of[1]}, !.removed = FALSE] \in Listing
    BY <2>1, <2>a DEF Listing
  <2>3. catalog' \in [Playbooks -> Listing]
    BY <1>16, <2>1, <2>2, Shelved DEF Publish, ArchitectTypeOK, Listing
  <2>4. proposal' \in [Proposals -> [status : Standings, is : Contents]]
    BY <1>16, Turned, CommandType DEF Publish, ArchitectTypeOK
  <2> QED BY <1>16, <1>a, <2>3, <2>4, Returned DEF ArchitectTypeOK, Publish, Listing
<1>17. ASSUME NEW c \in Commanders, Interrupt(c)
      PROVE  ArchitectTypeOK'
  BY <1>17, <1>a, Returned, CommandType DEF ArchitectTypeOK, Interrupt
<1>18. ASSUME NEW p \in Proposals, Interview(p)
      PROVE  ArchitectTypeOK'
  BY <1>18, <1>a, Turned DEF ArchitectTypeOK, Interview, Judge
<1>19. ASSUME NEW p \in Proposals, AnswerInterview(p)
      PROVE  ArchitectTypeOK'
  BY <1>19, <1>a, Turned DEF ArchitectTypeOK, AnswerInterview, Judge
<1>20. ASSUME NEW p \in Proposals, RecordValidation(p)
      PROVE  ArchitectTypeOK'
  <2>1. \A v \in {"passed", "positive"} : evidence[p] \cup {v} \in SUBSET {"passed", "positive"}
    BY DEF ArchitectTypeOK
  <2>2. evidence' \in [Proposals -> SUBSET {"passed", "positive"}]
    BY <1>20, <2>1 DEF ArchitectTypeOK, RecordValidation, Judge
  <2> QED BY <1>20, <1>a, <2>2, Turned DEF ArchitectTypeOK, RecordValidation, Judge
<1>21. ASSUME NEW p \in Proposals, RecordFeedback(p)
      PROVE  ArchitectTypeOK'
  <2>1. \A v \in {"passed", "positive"} : evidence[p] \cup {v} \in SUBSET {"passed", "positive"}
    BY DEF ArchitectTypeOK
  <2>2. evidence' \in [Proposals -> SUBSET {"passed", "positive"}]
    BY <1>21, <2>1 DEF ArchitectTypeOK, RecordFeedback, Judge
  <2> QED BY <1>21, <1>a, <2>2, Turned DEF ArchitectTypeOK, RecordFeedback, Judge
<1>22. ASSUME NEW p \in Proposals, NEW n \in Capabilities, RecordCapability(p, n)
      PROVE  ArchitectTypeOK'
  BY <1>22, <1>a DEF ArchitectTypeOK, RecordCapability
<1>23. ASSUME NEW k \in Playbooks, RemovePlaybook(k)
      PROVE  ArchitectTypeOK'
  <2>a. catalog[k] \in Listing
    BY DEF ArchitectTypeOK, Listing
  <2>1. [catalog[k] EXCEPT !.removed = TRUE] \in Listing
    BY <2>a DEF Listing
  <2> QED BY <1>23, <2>1, Shelved DEF ArchitectTypeOK, RemovePlaybook, Listing
<1>24. ASSUME NEW k \in Playbooks, PurgePlaybook(k)
      PROVE  ArchitectTypeOK'
  BY <1>24, <1>a DEF ArchitectTypeOK, PurgePlaybook, Vacant
<1>25. CASE UNCHANGED arVars
  BY <1>25 DEF arVars, ArchitectTypeOK
<1> QED BY <1>1, <1>2, <1>3, <1>4, <1>5, <1>6, <1>7, <1>8, <1>9, <1>10, <1>11, <1>12, <1>13, <1>14, <1>15, <1>16, <1>17, <1>18, <1>19, <1>20, <1>21, <1>22, <1>23, <1>24, <1>25, <1>26, <1>27 DEF ArchitectNext
-----------------------------------------------------------------------------
(* The catalog                                                             *)

LEMMA CatalogKept ==
  ASSUME CatalogComplete, NEW c \in Commanders, Only(c), UNCHANGED <<catalog, razed>>,
         command'[c].at # "described"
  PROVE  CatalogComplete'
BY DEF CatalogComplete, Only, Target

-----------------------------------------------------------------------------
(* Proposals, verifications and revisions                                  *)

\* Steps of a process that change no manifest, no check and no proof, make nothing
\* ready, start no verification and pass no gate in vain: a revision goes on or is known to be cut short.
LEMMA Kept ==
  ASSUME ArInv, ArchitectTypeOK', NEW c \in Commanders, Only(c), Lasting,
         UNCHANGED <<manifest, checks, proven>>, blurred \subseteq blurred',
         \A p \in Proposals : ready'[p] => ready[p],
         command'[c].at \notin Verifying,
         command'[c].at \in Gating =>
           \/ command'[c].late
           \/ Needs[manifest[command[c].p][2]] \subseteq proven[command[c].p]
              /\ command'[c].p = command[c].p,
         (command[c].at # "rest" => Exists(command[c].p))',
         command[c].at \in Revising =>
           \/ command[c].p \in blurred'
           \/ command'[c].at \in Revising /\ command'[c].p = command[c].p
  PROVE  Sound'
<1> USE DEF ArInv, Sound
<1>1. Existing'
  <2>1. (\A p \in Proposals : ~Exists(p) => ~ready[p] /\ checks[p] = Unchecked)'
    BY DEF Existing, Lasting, Unchecked
  <2>2. (\A d \in Commanders : command[d].at # "rest" => Exists(command[d].p))'
    BY CommandType DEF Existing, Lasting, Only
  <2> QED BY <2>1, <2>2 DEF Existing
<1>2. ReadyIsProven'
  BY DEF ReadyIsProven
<1>3. RowsAreSound'
  <2> SUFFICES ASSUME NEW p \in Proposals, ~Doubtful(p)' PROVE RowsSound(p)'
    BY DEF RowsAreSound
  <2>1. ~Doubtful(p)
    BY DEF Doubtful, UnderRevision, Only
  <2> QED BY <2>1 DEF RowsAreSound, RowsSound
<1>4. ChecksOfManifest'
  BY DEF ChecksOfManifest, Only
<1> QED BY <1>1, <1>2, <1>3, <1>4

\* Steps of nobody in particular, that do no more than settle a proposal.
LEMMA Judged ==
  ASSUME ArInv, Lasting,
         UNCHANGED <<manifest, ready, checks, command, proven, blurred>>
  PROVE  Sound'
<1> USE DEF ArInv, Sound
<1>1. Existing'
  <2>1. (\A d \in Commanders : command[d].at # "rest" => Exists(command[d].p))'
    BY CommandType DEF Existing, Lasting
  <2> QED BY <2>1 DEF Existing, Lasting, Unchecked
<1>2. ReadyIsProven' /\ ChecksOfManifest'
  BY DEF ReadyIsProven, ChecksOfManifest
<1>3. RowsAreSound'
  BY DEF RowsAreSound, Doubtful, UnderRevision, RowsSound
<1> QED BY <1>1, <1>2, <1>3

\* A new proposal has no checks, is not ready, and nobody is at work on it.
LEMMA DraftsStep ==
  ASSUME ArInv, NEW c \in Commanders, NEW p \in Proposals, NEW of \in Contents,
         NEW status \in {"awaiting_user_input", "settled"},
         NEW at \in {"rest", "ask", "imported"}, Drafts(c, p, of, status, at)
  PROVE  Sound'
<1> USE DEF ArInv, Sound
<1>1. Lasting /\ Exists(p)' /\ ~Exists(p)
  BY DEF Drafts, Lasting, Exists, ArchitectTypeOK
<1>2. /\ Only(c) /\ command[c].at = "rest"
      /\ command'[c] = command[c] \/ (command'[c].p = p /\ command'[c].at \in {"ask", "imported"})
  <2>1. CASE at = "rest"
    BY <2>1 DEF Drafts, Only
  <2>2. CASE at # "rest"
    <3>1. Calls(c, at, p, of, {})
      BY <2>2 DEF Drafts
    <3>2. ArchitectTypeOK /\ at \in {"ask", "imported"} /\ {} \in SUBSET Capabilities
      BY <2>2
    <3>3. /\ Only(c)
          /\ command'[c] = [at |-> at, p |-> p, of |-> of, found |-> {}, late |-> command[c].late]
      BY ONLY <3>1, <3>2, Called
    <3> QED BY <2>2, <3>2, <3>3 DEF Drafts
  <2> QED BY <2>1, <2>2
<1>3. Existing'
  <2>1. (\A q \in Proposals : ~Exists(q) => ~ready[q] /\ checks[q] = Unchecked)'
    BY <1>1 DEF Existing, Lasting, Drafts, Unchecked
  <2>2. (\A d \in Commanders : command[d].at # "rest" => Exists(command[d].p))'
    BY <1>1, <1>2, CommandType DEF Existing, Lasting, Only
  <2> QED BY <2>1, <2>2 DEF Existing
<1>4. /\ UNCHANGED <<ready, checks, proven, blurred>>
      /\ \A q \in Proposals \ {p} : manifest'[q] = manifest[q]
  BY DEF Drafts, ArchitectTypeOK
<1>5. ReadyIsProven'
  BY <1>1, <1>4 DEF ReadyIsProven, Existing
<1>6. RowsAreSound'
  <2> SUFFICES ASSUME NEW q \in Proposals, ~Doubtful(q)' PROVE RowsSound(q)'
    BY DEF RowsAreSound
  <2>1. ~Doubtful(q)
    BY <1>2, <1>4 DEF Doubtful, UnderRevision, Only
  <2>2. CASE q = p
    BY <2>2, <1>1, <1>4 DEF Existing, RowsSound, Unchecked
  <2>3. CASE q # p
    BY <2>1, <2>3, <1>4 DEF RowsAreSound, RowsSound
  <2> QED BY <2>2, <2>3
<1>7. ChecksOfManifest'
  <2> SUFFICES ASSUME NEW d \in Commanders, command'[d].at \in Verifying \cup Gating,
                      ~command'[d].late
               PROVE  /\ command'[d].at \in Verifying =>
                           /\ command'[d].of = manifest'[command'[d].p]
                           /\ command'[d].at = "agents" =>
                                Needs[command'[d].of[2]] \subseteq proven'[command'[d].p]
                      /\ command'[d].at \in Gating =>
                           Needs[manifest'[command'[d].p][2]] \subseteq proven'[command'[d].p]
    BY DEF ChecksOfManifest
  <2>1. command'[d] = command[d] /\ command[d].p # p
    BY <1>1, <1>2 DEF Only, Existing
  <2>2. manifest'[command[d].p] = manifest[command[d].p]
    BY <2>1, <1>4, CommandType
  <2> QED BY <2>1, <2>2, <1>4 DEF ChecksOfManifest
<1> QED BY <1>3, <1>5, <1>6, <1>7

\* A verification reads the manifest that is there.
LEMMA CheckCapabilitiesStep ==
  ASSUME ArInv, ArchitectTypeOK', NEW c \in Commanders, CheckCapabilities(c)
  PROVE  Sound' /\ CatalogComplete'
<1> USE DEF ArInv, Sound
<1> DEFINE of == manifest[command[c].p]
           handshakes == {n \in Needs[of[2]] \cap Mcp : checks[command[c].p][n] = "verified"}
<1>1. PICK at \in {"record", "stage"}, found \in SUBSET (Needs[of[2]] \ Mcp) :
        Calls(c, at, command[c].p, of, found \cup handshakes)
  BY DEF CheckCapabilities
<1>2. of \in Contents /\ found \cup handshakes \in SUBSET Capabilities
  BY CommandType DEF ArchitectTypeOK, Contents
<1>3. /\ Only(c) /\ command'[c].p = command[c].p /\ command'[c].of = of
      /\ command'[c].at \in {"record", "stage"}
  <2>1. ArchitectTypeOK /\ command[c].p \in Proposals
    BY CommandType
  <2> DEFINE all == found \cup handshakes
  <2>2. Calls(c, at, command[c].p, of, all) /\ all \in SUBSET Capabilities
    BY <1>1, <1>2
  <2> HIDE DEF all, of, handshakes
  <2>3. Only(c) /\ command'[c] = [at |-> at, p |-> command[c].p, of |-> of, found |-> all,
                                 late |-> command[c].late]
    BY <1>2, <2>1, <2>2, Called
  <2> QED BY <2>3
<1>4. command[c].at \in {"verify", "imported"}
      /\ UNCHANGED <<proposal, manifest, ready, checks, catalog, proven, blurred, razed>>
  BY DEF CheckCapabilities
<1>5. Existing'
  BY <1>3, <1>4 DEF Existing, Only, Exists
<1>6. ReadyIsProven'
  BY <1>4 DEF ReadyIsProven
<1>7. RowsAreSound'
  <2> SUFFICES ASSUME NEW p \in Proposals, ~Doubtful(p)' PROVE RowsSound(p)'
    BY DEF RowsAreSound
  <2>1. ~Doubtful(p)
    BY <1>3, <1>4 DEF Doubtful, UnderRevision, Only
  <2> QED BY <2>1, <1>4 DEF RowsAreSound, RowsSound
<1>8. ChecksOfManifest'
  BY <1>3, <1>4 DEF ChecksOfManifest, Only
<1>9. CatalogComplete'
  BY <1>3, <1>4, CatalogKept
<1> QED BY <1>5, <1>6, <1>7, <1>8, <1>9

\* What persistChecks leaves of a verification that is not late is true: a row for
\* each capability that the manifest declares, and a proof for each one found.
LEMMA PersistedSound ==
  ASSUME ArInv, ArchitectTypeOK', NEW c \in Commanders, command[c].at \in Verifying,
         PersistChecks(c), UNCHANGED <<manifest, catalog, razed>>, Lasting, Only(c),
         (command[c].at # "rest" => Exists(command[c].p))',
         command'[c].at \notin Revising \cup Gating \cup {"described"},
         command'[c].at \in Verifying =>
           /\ command'[c].at = "agents" /\ command'[c].p = command[c].p
           /\ command'[c].of = command[c].of /\ command'[c].late = command[c].late
           /\ command[c].found = Needs[command[c].of[2]],
         \A p \in Proposals :
           ready'[p] => \/ ready[p]
                        \/ /\ p = command[c].p
                           /\ command[c].found = Needs[command[c].of[2]]
  PROVE  Sound' /\ CatalogComplete'
<1> USE DEF ArInv, Sound
<1> DEFINE p == command[c].p
           of == command[c].of
<1>1. /\ p \in Proposals /\ of \in Contents /\ Exists(p) /\ of[2] \in Tasks
      /\ Needs[of[2]] \subseteq Capabilities
  BY CommandType DEF Existing
<1>2. ~command[c].late => of = manifest[p]
  BY DEF ChecksOfManifest
<1>3. \A q \in Proposals \ {p} : checks'[q] = checks[q] /\ proven'[q] = proven[q]
  BY <1>1 DEF PersistChecks, ArchitectTypeOK
<1>4. /\ \A q \in Proposals : proven[q] \subseteq proven'[q]
      /\ blurred \subseteq blurred' /\ (command[c].late => p \in blurred')
      /\ ~command[c].late => command[c].found \subseteq proven'[p]
  BY <1>1 DEF PersistChecks, ArchitectTypeOK
<1>5. \A n \in Needs[of[2]] :
        /\ checks'[p][n] # "none"
        /\ n \in command[c].found \/ checks'[p][n] = "missing"
  <2> DEFINE row(n) == IF n \notin command[c].found THEN "missing"
                       ELSE IF n \in Mcp THEN "verified" ELSE "ready"
  <2>1. \A n \in Needs[of[2]] : checks'[p][n] = row(n)
    BY <1>1 DEF PersistChecks, ArchitectTypeOK
  <2> QED BY <2>1
<1>6. Existing'
  <2>1. (\A q \in Proposals : ~Exists(q) => ~ready[q] /\ checks[q] = Unchecked)'
    BY <1>1, <1>3 DEF Existing, Lasting, Unchecked
  <2>2. (\A d \in Commanders : command[d].at # "rest" => Exists(command[d].p))'
    BY CommandType DEF Existing, Lasting, Only
  <2> QED BY <2>1, <2>2 DEF Existing
<1>7. ReadyIsProven'
  BY <1>1, <1>2, <1>4 DEF ReadyIsProven
<1>8. RowsAreSound'
  <2> SUFFICES ASSUME NEW q \in Proposals, ~Doubtful(q)' PROVE RowsSound(q)'
    BY DEF RowsAreSound
  <2>1. ~Doubtful(q)
    BY <1>4 DEF Doubtful, UnderRevision, Only, Verifying, Revising
  <2>2. CASE q = p
    BY <2>2, <1>2, <1>4, <1>5 DEF RowsSound, Doubtful
  <2>3. CASE q # p
    BY <2>1, <2>3, <1>3 DEF RowsAreSound, RowsSound
  <2> QED BY <2>2, <2>3
<1>9. ChecksOfManifest'
  <2> SUFFICES ASSUME NEW d \in Commanders, ~command'[d].late
               PROVE  /\ command'[d].at \in Verifying =>
                           /\ command'[d].of = manifest'[command'[d].p]
                           /\ command'[d].at = "agents" =>
                                Needs[command'[d].of[2]] \subseteq proven'[command'[d].p]
                      /\ command'[d].at \in Gating =>
                           Needs[manifest'[command'[d].p][2]] \subseteq proven'[command'[d].p]
    BY DEF ChecksOfManifest
  <2>1. CASE d = c
    BY <1>1, <1>2, <1>4, <2>1
  <2>2. CASE d # c
    <3>1. command'[d] = command[d] /\ command[d].p \in Proposals
      BY <2>2, CommandType DEF Only
    <3>2. proven[command[d].p] \subseteq proven'[command[d].p] /\ manifest' = manifest
      BY <1>4, <3>1
    <3> QED BY <3>1, <3>2 DEF ChecksOfManifest
  <2> QED BY <2>1, <2>2
<1>10. CatalogComplete'
  BY CatalogKept
<1> QED BY <1>6, <1>7, <1>8, <1>9, <1>10

LEMMA RecordChecksStep ==
  ASSUME ArInv, ArchitectTypeOK', NEW c \in Commanders, RecordChecks(c)
  PROVE  Sound' /\ CatalogComplete'
<1>1. ArchitectTypeOK /\ command[c].p \in Proposals /\ command[c].of \in Contents
  BY CommandType DEF ArInv
<1>a. PICK q \in Proposals : q = command[c].p
  BY <1>1
<1>2. Lasting /\ Exists(q)'
  <2>1. Turns(q, "settled")
    BY <1>a DEF RecordChecks
  <2>2. "settled" \in {"awaiting_user_input", "settled"}
    OBVIOUS
  <2> QED BY ONLY <1>1, <2>1, <2>2, Turned
<1>3. /\ Only(c)
      /\ \/ command'[c].at = "rest"
         \/ /\ command'[c].at \in {"agents", "repairs"} /\ command'[c].p = command[c].p
            /\ command'[c].of = command[c].of /\ command'[c].late = command[c].late
            /\ command'[c].at = "agents" => command[c].found = Needs[command[c].of[2]]
  <2>1. CASE Returns(c)
    BY <1>1, <2>1, Returned
  <2>2. ASSUME NEW at \in {"agents", "repairs"},
               Calls(c, at, command[c].p, command[c].of, {}),
               at = "agents" => command[c].found = Needs[command[c].of[2]]
        PROVE  Only(c) /\ command'[c] = [at |-> at, p |-> command[c].p, of |-> command[c].of,
                                        found |-> {}, late |-> command[c].late]
    <3>1. /\ at \in {"ask", "verify", "record", "imported", "stage", "launch", "agents",
                     "repairs", "gate"} \cup Revising \cup Gating \cup Promoting
          /\ {} \in SUBSET Capabilities /\ Calls(c, at, command[c].p, command[c].of, {})
      BY <2>2
    <3> QED BY ONLY <1>1, <3>1, Called
  <2>3. \/ Returns(c)
        \/ /\ command[c].found = Needs[command[c].of[2]]
           /\ Calls(c, "agents", command[c].p, command[c].of, {})
        \/ Calls(c, "repairs", command[c].p, command[c].of, {})
    BY DEF RecordChecks
  <2> QED BY <2>1, <2>2, <2>3
<1>4. (command[c].at # "rest" => Exists(command[c].p))'
  BY <1>a, <1>2, <1>3 DEF Exists
<1>5. command[c].at = "record" /\ PersistChecks(c) /\ UNCHANGED <<manifest, catalog, razed>>
      /\ \A p \in Proposals : ready'[p] => \/ ready[p]
                                        \/ /\ p = command[c].p
                                           /\ command[c].found = Needs[command[c].of[2]]
  BY <1>1 DEF RecordChecks, ArchitectTypeOK
<1> QED BY <1>2, <1>3, <1>4, <1>5, PersistedSound


LEMMA StageImportStep ==
  ASSUME ArInv, ArchitectTypeOK', NEW c \in Commanders, StageImport(c)
  PROVE  Sound' /\ CatalogComplete'
<1>1. ArchitectTypeOK
  BY DEF ArInv
<1>2. /\ command[c].at = "stage" /\ PersistChecks(c)
      /\ UNCHANGED <<proposal, manifest, ready, catalog, razed>>
  BY DEF StageImport
<1>3. Only(c) /\ (command'[c].at = "rest" \/
                  (command'[c].at = "launch" /\ command'[c].p = command[c].p))
  <2>1. CASE Returns(c)
    BY <1>1, <2>1, Returned
  <2>2. CASE Steps(c, "launch")
    BY <1>1, <2>2, Stepped
  <2> QED BY <2>1, <2>2 DEF StageImport
<1>4. Lasting /\ (command[c].at # "rest" => Exists(command[c].p))'
  BY <1>2, <1>3 DEF Lasting, Exists, ArInv, Sound, Existing
<1> QED BY <1>2, <1>3, <1>4, PersistedSound

\* The launch settles what is ready: the capabilities that the verification had
\* found, and the manifest that they are of is the present one, or the proposal
\* is known to be blurred.
LEMMA LaunchAgentsStep ==
  ASSUME ArInv, ArchitectTypeOK', NEW c \in Commanders, LaunchAgents(c)
  PROVE  Sound' /\ CatalogComplete'
<1> USE DEF ArInv, Sound
<1>1. PICK p \in Proposals : p = command[c].p
  BY CommandType
<1>2. Lasting
  <2>1. CASE Turns(p, "settled")
    <3>1. ArchitectTypeOK /\ "settled" \in {"awaiting_user_input", "settled"}
      OBVIOUS
    <3> QED BY ONLY <2>1, <3>1, Turned
  <2>2. CASE UNCHANGED proposal
    BY <2>2 DEF Lasting, Exists
  <2> QED BY <1>1, <2>1, <2>2 DEF LaunchAgents
<1>3. Only(c) /\ command'[c].at = "rest"
  BY Returned DEF LaunchAgents
<1>4. /\ command[c].at \in {"agents", "repairs"} /\ Exists(p)
      /\ UNCHANGED <<manifest, checks, catalog, proven, razed>> /\ blurred \subseteq blurred'
      /\ \A q \in Proposals \ {p} : ready'[q] = ready[q]
  BY <1>1 DEF LaunchAgents, ArchitectTypeOK, Existing
<1>5. Existing'
  <2>1. (\A q \in Proposals : ~Exists(q) => ~ready[q] /\ checks[q] = Unchecked)'
    BY <1>2, <1>4 DEF Existing, Lasting, Unchecked
  <2>2. (\A d \in Commanders : command[d].at # "rest" => Exists(command[d].p))'
    BY <1>2, <1>3, CommandType DEF Existing, Lasting, Only
  <2> QED BY <2>1, <2>2 DEF Existing
<1>6. ReadyIsProven'
  <2> SUFFICES ASSUME NEW q \in Proposals, ready'[q], q \notin blurred'
               PROVE  Needs[manifest'[q][2]] \subseteq proven'[q]
    BY DEF ReadyIsProven
  <2>1. CASE ready[q]
    BY <1>4, <2>1 DEF ReadyIsProven
  <2>2. CASE ~ready[q]
    <3>1. q = p
      BY <1>4, <2>2
    <3>2. command[c].at = "agents" /\ ~command[c].late
      BY <1>1, <2>2, <3>1 DEF LaunchAgents, ArchitectTypeOK
    <3> QED BY <1>1, <1>4, <3>1, <3>2 DEF ChecksOfManifest
  <2> QED BY <2>1, <2>2
<1>7. RowsAreSound'
  <2> SUFFICES ASSUME NEW q \in Proposals, ~Doubtful(q)' PROVE RowsSound(q)'
    BY DEF RowsAreSound
  <2>1. ~Doubtful(q)
    BY <1>3, <1>4 DEF Doubtful, UnderRevision, Only
  <2> QED BY <2>1, <1>4 DEF RowsAreSound, RowsSound
<1>8. ChecksOfManifest'
  BY <1>3, <1>4 DEF ChecksOfManifest, Only
<1>9. CatalogComplete'
  BY <1>3, <1>4, CatalogKept
<1> QED BY <1>5, <1>6, <1>7, <1>8, <1>9

\* A new manifest: readiness.json refuses, nothing is proved of it, the revision
\* is under way, and the verifications of the earlier one are late.
LEMMA WriteManifestStep ==
  ASSUME ArInv, ArchitectTypeOK', NEW c \in Commanders, WriteManifest(c)
  PROVE  Sound' /\ CatalogComplete'
<1> USE DEF ArInv, Sound
<1>1. PICK p \in Proposals : p = command[c].p
  BY CommandType
<1>2. /\ UNCHANGED <<proposal, checks, catalog, blurred, razed>>
      /\ \A q \in Proposals \ {p} : /\ manifest'[q] = manifest[q] /\ proven'[q] = proven[q]
                                    /\ ready'[q] = ready[q]
      /\ ~ready'[p] /\ command[c].at = "manifest" /\ Exists(p)
  BY <1>1, ZenonT(30) DEF WriteManifest, Replaces, ArchitectTypeOK, Existing
<1>3. ASSUME NEW d \in Commanders
      PROVE  /\ command'[d].at = IF d = c THEN "row" ELSE command[d].at
             /\ command'[d].p = command[d].p /\ command'[d].of = command[d].of
             /\ command'[d].late =
                  (command[d].late \/ (command[d].p = p /\ command[d].at \in Verifying \cup Gating))
  <2>1. command[d] \in Calling
    BY CommandType
  <2>2. command'[d] = [command[d] EXCEPT
          !.at = IF d = c THEN "row" ELSE @,
          !.late = @ \/ (command[d].p = p /\ command[d].at \in Verifying \cup Gating)]
    BY <1>1 DEF WriteManifest, Replaces
  <2> QED BY <2>1, <2>2 DEF Calling
<1>4. Existing'
  BY <1>2, <1>3 DEF Existing, Exists
<1>5. ReadyIsProven'
  BY <1>2 DEF ReadyIsProven
<1>6. RowsAreSound'
  <2> SUFFICES ASSUME NEW q \in Proposals, ~Doubtful(q)' PROVE RowsSound(q)'
    BY DEF RowsAreSound
  <2>1. q # p
    BY <1>1, <1>3 DEF Doubtful, UnderRevision
  <2>2. ~Doubtful(q)
    BY <1>1, <1>2, <1>3, <2>1 DEF Doubtful, UnderRevision
  <2> QED BY <1>2, <2>1, <2>2 DEF RowsAreSound, RowsSound
<1>7. ChecksOfManifest'
  <2> SUFFICES ASSUME NEW d \in Commanders, command'[d].at \in Verifying \cup Gating,
                      ~command'[d].late
               PROVE  /\ command'[d].at \in Verifying =>
                           /\ command'[d].of = manifest'[command'[d].p]
                           /\ command'[d].at = "agents" =>
                                Needs[command'[d].of[2]] \subseteq proven'[command'[d].p]
                      /\ command'[d].at \in Gating =>
                           Needs[manifest'[command'[d].p][2]] \subseteq proven'[command'[d].p]
    BY DEF ChecksOfManifest
  <2>1. /\ command[d].at \in Verifying \cup Gating /\ ~command[d].late /\ command[d].p # p
        /\ command'[d].at = command[d].at /\ command'[d].p = command[d].p
        /\ command'[d].of = command[d].of
    BY <1>3, <1>2
  <2>2. /\ manifest'[command[d].p] = manifest[command[d].p]
        /\ proven'[command[d].p] = proven[command[d].p]
    BY <1>2, <2>1, CommandType
  <2> QED BY <2>1, <2>2 DEF ChecksOfManifest
<1>8. CatalogComplete'
  <2>1. \A d \in Commanders : Target(d)' = Target(d)
    BY <1>3 DEF Target
  <2> QED BY <1>2, <1>3, <2>1 DEF CatalogComplete
<1> QED BY <1>4, <1>5, <1>6, <1>7, <1>8

\* The rows of the earlier manifest go before the revision ends.
LEMMA DropChecksStep ==
  ASSUME ArInv, ArchitectTypeOK', NEW c \in Commanders, DropChecks(c)
  PROVE  Sound' /\ CatalogComplete'
<1> USE DEF ArInv, Sound
<1>1. PICK p \in Proposals : p = command[c].p
  BY CommandType
<1>2. /\ UNCHANGED <<proposal, manifest, ready, catalog, proven, blurred, razed>>
      /\ \A q \in Proposals \ {p} : checks'[q] = checks[q]
      /\ checks'[p] = Unchecked /\ command[c].at = "drop"
  BY <1>1 DEF DropChecks, ArchitectTypeOK
<1>3. Only(c) /\ command'[c].at = "rest"
  BY Returned DEF DropChecks
<1>4. Existing'
  BY <1>2, <1>3 DEF Existing, Exists, Only, Unchecked
<1>5. ReadyIsProven'
  BY <1>2 DEF ReadyIsProven
<1>6. RowsAreSound'
  <2> SUFFICES ASSUME NEW q \in Proposals, ~Doubtful(q)' PROVE RowsSound(q)'
    BY DEF RowsAreSound
  <2>1. CASE q = p
    BY <1>2, <2>1 DEF RowsSound, Unchecked
  <2>2. CASE q # p
    <3>1. ~Doubtful(q)
      BY <1>1, <1>2, <1>3, <2>2 DEF Doubtful, UnderRevision, Only
    <3> QED BY <1>2, <2>2, <3>1 DEF RowsAreSound, RowsSound
  <2> QED BY <2>1, <2>2
<1>7. ChecksOfManifest'
  BY <1>2, <1>3 DEF ChecksOfManifest, Only
<1>8. CatalogComplete'
  BY <1>2, <1>3, CatalogKept
<1> QED BY <1>4, <1>5, <1>6, <1>7, <1>8

\* Somebody vouches for a capability: proofs only grow.
LEMMA RecordCapabilityStep ==
  ASSUME ArInv, ArchitectTypeOK', NEW p \in Proposals, NEW n \in Capabilities,
         RecordCapability(p, n)
  PROVE  Sound' /\ CatalogComplete'
<1> USE DEF ArInv, Sound
<1>1. /\ UNCHANGED <<proposal, manifest, ready, catalog, command, blurred, razed>>
      /\ checks[p][n] # "none" /\ checks'[p][n] \in {"verified", "ready"}
      /\ \A q \in Proposals, m \in Capabilities :
           q # p \/ m # n => checks'[q][m] = checks[q][m]
      /\ \A q \in Proposals \ {p} : checks'[q] = checks[q]
      /\ \A q \in Proposals : proven[q] \subseteq proven'[q]
      /\ n \in proven'[p]
  BY DEF RecordCapability, ArchitectTypeOK
<1>2. Exists(p)
  BY <1>1 DEF Existing, Unchecked
<1>3. Existing'
  BY <1>1, <1>2 DEF Existing, Exists, Unchecked
<1>4. ReadyIsProven' /\ ChecksOfManifest'
  BY <1>1, CommandType DEF ReadyIsProven, ChecksOfManifest
<1>5. RowsAreSound'
  <2> SUFFICES ASSUME NEW q \in Proposals, ~Doubtful(q)' PROVE RowsSound(q)'
    BY DEF RowsAreSound
  <2>1. RowsSound(q)
    BY <1>1 DEF Doubtful, UnderRevision, RowsAreSound
  <2>2. manifest[q][2] \in Tasks
    BY DEF ArchitectTypeOK, Contents
  <2>3. Needs[manifest[q][2]] \subseteq Capabilities
    BY <2>2
  <2>4. CASE \A m \in Capabilities : checks[q][m] = "none"
    BY <1>1, <2>4 DEF RowsSound
  <2>5. CASE \A m \in Needs[manifest[q][2]] :
               checks[q][m] # "none" /\ (checks[q][m] = "missing" \/ m \in proven[q])
    BY <1>1, <2>3, <2>5 DEF RowsSound
  <2> QED BY <2>1, <2>4, <2>5 DEF RowsSound
<1>6. CatalogComplete'
  BY <1>1 DEF CatalogComplete, Target
<1> QED BY <1>3, <1>4, <1>5, <1>6

\* Calls, questions and launches of an import: nothing that is verified changes.
LEMMA SimpleStep ==
  ASSUME ArInv, ArchitectTypeOK', NEW c \in Commanders, NEW q \in Proposals, NEW t \in Tasks,
         Ask(c) \/ Revise(c, q, t) \/ Provision(c, q) \/ Promote(c, q) \/ LaunchForImport(c)
           \/ UpdateProposal(c) \/ Interrupt(c)
  PROVE  Sound' /\ CatalogComplete'
<1> USE DEF ArInv, Sound
<1>1. PICK p \in Proposals : p = command[c].p
  BY CommandType
<1>t. ArchitectTypeOK /\ {} \in SUBSET Capabilities
  OBVIOUS
<1>2. CASE Ask(c)
  <2>1. Only(c) /\ command'[c].at = "rest"
    BY <1>2, Returned DEF Ask
  <2> QED BY <1>2, <2>1, Kept, CatalogKept DEF Ask, Lasting, Exists
<1>3. CASE Revise(c, q, t)
  <2>1. /\ Calls(c, "manifest", q, <<proposal[q].is[1] + 1, t>>, {}) /\ Exists(q)
        /\ command[c].at = "rest"
        /\ UNCHANGED <<proposal, manifest, ready, checks, catalog, proven, blurred, razed>>
    BY <1>3 DEF Revise
  <2>2. <<proposal[q].is[1] + 1, t>> \in Contents
    BY <1>3, ProposalType DEF Revise, Contents, Versions
  <2>3. /\ Only(c)
        /\ command'[c] = [at |-> "manifest", p |-> q, of |-> <<proposal[q].is[1] + 1, t>>,
                          found |-> {}, late |-> command[c].late]
    BY ONLY <1>t, <2>1, <2>2, Called DEF Revising
  <2>4. command'[c].at = "manifest" /\ command'[c].p = q
    BY <2>3
  <2> QED BY <2>1, <2>3, <2>4, Kept, CatalogKept DEF Lasting, Exists
<1>4. CASE Provision(c, q)
  <2>1. /\ Calls(c, "verify", q, NoContent, {}) /\ Exists(q) /\ command[c].at = "rest"
        /\ UNCHANGED <<proposal, manifest, ready, checks, catalog, proven, blurred, razed>>
    BY <1>4 DEF Provision
  <2>3. /\ Only(c)
        /\ command'[c] = [at |-> "verify", p |-> q, of |-> NoContent,
                          found |-> {}, late |-> command[c].late]
    BY ONLY <1>t, <2>1, Nobody, Called
  <2>4. command'[c].at = "verify" /\ command'[c].p = q
    BY <2>3
  <2> QED BY <2>1, <2>3, <2>4, Kept, CatalogKept DEF Lasting, Exists
<1>8. CASE Promote(c, q)
  <2>1. /\ Calls(c, "gate", q, proposal[q].is, {}) /\ Exists(q) /\ command[c].at = "rest"
        /\ UNCHANGED <<proposal, manifest, ready, checks, catalog, proven, blurred, razed>>
    BY <1>8 DEF Promote
  <2>2. proposal[q].is \in Contents
    BY ProposalType
  <2>3. /\ Only(c)
        /\ command'[c] = [at |-> "gate", p |-> q, of |-> proposal[q].is,
                          found |-> {}, late |-> command[c].late]
    BY ONLY <1>t, <2>1, <2>2, Called
  <2>4. command'[c].at = "gate" /\ command'[c].p = q
    BY <2>3
  <2> QED BY <2>1, <2>3, <2>4, Kept, CatalogKept DEF Lasting, Exists
<1>5. CASE LaunchForImport(c)
  <2>1. Lasting
    <3>1. CASE Turns(p, "awaiting_user_input")
      <4>1. "awaiting_user_input" \in {"awaiting_user_input", "settled"}
        OBVIOUS
      <4> QED BY ONLY <1>t, <3>1, <4>1, Turned
    <3>2. CASE UNCHANGED proposal
      BY <3>2 DEF Lasting, Exists
    <3> QED BY <1>1, <1>5, <3>1, <3>2 DEF LaunchForImport
  <2>2. Only(c) /\ command'[c].at = "rest"
    BY <1>5, Returned DEF LaunchForImport
  <2> QED BY <1>5, <2>1, <2>2, Kept, CatalogKept DEF LaunchForImport
<1>6. CASE UpdateProposal(c)
  <2> DEFINE r == [status |-> IF command[c].of[2] \in Teams THEN "awaiting_user_input"
                              ELSE "settled", is |-> command[c].of]
  <2>1. proposal' = [proposal EXCEPT ![p] = r]
    BY <1>1, <1>6 DEF UpdateProposal
  <2>2. r \in [status : Standings, is : Contents] /\ r.status # "absent"
    BY CommandType DEF Standings
  <2> HIDE DEF r
  <2>3. Lasting
    BY <2>1, <2>2, NewProposal
  <2>a. Exists(p)'
    BY <2>1, <2>2, NewProposal
  <2>4. Only(c) /\ command'[c].at = "drop" /\ command'[c].p = p
    BY <1>1, <1>6, Stepped DEF UpdateProposal
  <2>5. (command[c].at # "rest" => Exists(command[c].p))'
    BY <2>a, <2>4 DEF Exists
  <2> QED BY <1>1, <1>6, <2>3, <2>4, <2>5, Kept, CatalogKept DEF UpdateProposal
<1>7. CASE Interrupt(c)
  <2>1. Only(c) /\ command'[c].at = "rest"
    BY <1>7, Returned DEF Interrupt
  <2> QED BY <1>7, <2>1, Kept, CatalogKept DEF Interrupt, Lasting, Exists
<1> QED BY <1>2, <1>3, <1>4, <1>5, <1>6, <1>7, <1>8

LEMMA DraftsCatalog ==
  ASSUME ArInv, NEW c \in Commanders, NEW p \in Proposals, NEW of \in Contents,
         NEW status, NEW at \in {"rest", "ask", "imported"}, Drafts(c, p, of, status, at)
  PROVE  CatalogComplete'
<1> USE DEF ArInv
<1>1. CASE at = "rest"
  BY <1>1 DEF Drafts, CatalogComplete, Target
<1>2. CASE at # "rest"
  <2>1. Calls(c, at, p, of, {})
    BY <1>2 DEF Drafts
  <2>2. ArchitectTypeOK /\ at \in {"ask", "imported"} /\ {} \in SUBSET Capabilities
    BY <1>2
  <2>3. /\ Only(c)
        /\ command'[c] = [at |-> at, p |-> p, of |-> of, found |-> {}, late |-> command[c].late]
    BY ONLY <2>1, <2>2, Called
  <2> QED BY <2>2, <2>3, CatalogKept DEF Drafts
<1> QED BY <1>1, <1>2

\* The gate reads rows that are one for each capability and none missing: what it
\* lets pass is verified, unless the proposal is doubtful.
LEMMA PassGateStep ==
  ASSUME ArInv, ArchitectTypeOK', NEW c \in Commanders, PassGate(c)
  PROVE  Sound' /\ CatalogComplete'
<1> USE DEF ArInv, Sound
<1>1. PICK p \in Proposals : p = command[c].p
  BY CommandType
<1>2. /\ UNCHANGED <<proposal, manifest, ready, checks, proven, blurred, catalog, razed>>
      /\ command[c].at = "gate" /\ Exists(p) /\ Lasting
  BY <1>1 DEF PassGate, Existing, Lasting, Exists
<1>3. /\ Only(c)
      /\ \/ command'[c].at = "rest"
         \/ /\ Gated(p) /\ command'[c].at = "copy" /\ command'[c].p = p
            /\ command'[c].late = Doubtful(p)
  BY <1>1, GatePassed
<1>4. Gated(p) /\ ~Doubtful(p) => Needs[manifest[p][2]] \subseteq proven[p]
  <2>1. manifest[p][2] \in Tasks
    BY DEF ArchitectTypeOK, Contents
  <2>2. Needs[manifest[p][2]] \subseteq Capabilities
    BY <2>1
  <2> QED BY <2>2 DEF RowsAreSound, RowsSound, Gated
<1>5. (command[c].at # "rest" => Exists(command[c].p))'
  BY <1>2, <1>3 DEF Exists
<1>6. Sound'
  <2>1. command'[c].at \in Gating => \/ command'[c].late
                                    \/ /\ Needs[manifest[command[c].p][2]] \subseteq proven[command[c].p]
                                       /\ command'[c].p = command[c].p
    BY <1>1, <1>3, <1>4
  <2> QED BY <1>2, <1>3, <1>5, <2>1, Kept
<1>7. CatalogComplete'
  BY <1>2, <1>3, CatalogKept
<1> QED BY <1>6, <1>7

LEMMA CopyStep ==
  ASSUME ArInv, ArchitectTypeOK', NEW c \in Commanders, CopyPlaybook(c)
  PROVE  Sound' /\ CatalogComplete'
<1> USE DEF ArInv, Sound
<1> DEFINE k == Target(c)
           v == command[c].of[1]
           r == [catalog[k] EXCEPT !.copied = @ \cup {v}]
<1>1. k \in Playbooks /\ v \in Versions
  BY CommandType DEF Target
<1>2. /\ UNCHANGED <<proposal, manifest, ready, checks, proven, blurred, razed>>
      /\ command[c].at = "copy" /\ Exists(command[c].p)
  BY DEF CopyPlaybook, Existing
<1>3. /\ Only(c) /\ command'[c].at = "copied" /\ command'[c].p = command[c].p
      /\ command'[c].of = command[c].of /\ command'[c].late = command[c].late
  BY Stepped DEF CopyPlaybook
<1>4. Sound'
  <2>1. (command[c].at # "rest" => Exists(command[c].p))' /\ Lasting
    BY <1>2, <1>3 DEF Exists, Lasting
  <2>2. command[c].late \/ Needs[manifest[command[c].p][2]] \subseteq proven[command[c].p]
    BY <1>2 DEF ChecksOfManifest
  <2> QED BY <1>2, <1>3, <2>1, <2>2, Kept
<1>5. catalog[k] \in Listing /\ catalog \in [Playbooks -> Listing]
  BY <1>1 DEF ArchitectTypeOK, Listing
<1>6. catalog' = [catalog EXCEPT ![k] = r]
  BY <1>1, <1>5 DEF CopyPlaybook, Listing
<1>7. /\ r.unverified = catalog[k].unverified /\ r.doubted = catalog[k].doubted
      /\ r.current = catalog[k].current /\ r.described = catalog[k].described
  BY <1>5 DEF Listing
<1> HIDE DEF r, k
<1>8. \A l \in Playbooks : /\ catalog'[l].unverified = catalog[l].unverified
                           /\ catalog'[l].doubted = catalog[l].doubted
                           /\ catalog'[l].current = catalog[l].current
                           /\ catalog'[l].described = catalog[l].described
  BY <1>1, <1>5, <1>6, <1>7
<1>9. \A d \in Commanders \ {c} : Target(d)' = Target(d) /\ Target(d) \in Playbooks
  BY <1>3, CommandType DEF Target, Only
<1>10. CatalogComplete'
  BY <1>2, <1>3, <1>8, <1>9 DEF CatalogComplete, Only
<1> QED BY <1>4, <1>10

\* A promotion describes the version that it copied, if it is still there: by the
\* manifest its gate was of, or the version is in doubt.
LEMMA DescribeStep ==
  ASSUME ArInv, ArchitectTypeOK', NEW c \in Commanders, Describe(c)
  PROVE  Sound' /\ CatalogComplete'
<1> USE DEF ArInv, Sound
<1> DEFINE k == Target(c)
           v == command[c].of[1]
<1>1. k \in Playbooks /\ v \in Versions
  BY CommandType DEF Target
<1>2. /\ UNCHANGED <<proposal, manifest, ready, checks, proven, blurred, razed>>
      /\ command[c].at = "copied" /\ Exists(command[c].p)
  BY DEF Describe, Existing
<1>3. CASE v \notin catalog[k].copied
  <2>1. Only(c) /\ command'[c].at = "rest" /\ UNCHANGED catalog
    BY <1>3, Returned DEF Describe
  <2>2. Sound'
    BY <1>2, <2>1, Kept DEF Lasting, Exists
  <2> QED BY <1>2, <2>1, <2>2, CatalogKept
<1>4. CASE v \in catalog[k].copied
  <2>1. /\ Only(c) /\ command'[c].at = "described" /\ command'[c].p = command[c].p
        /\ command'[c].of = command[c].of
    BY <1>4, Stepped DEF Describe
  <2>2. Sound'
    <3>1. (command[c].at # "rest" => Exists(command[c].p))' /\ Lasting
      BY <1>2, <2>1 DEF Exists, Lasting
    <3> QED BY <1>2, <2>1, <3>1, Kept
  <2>3. Target(c)' = k /\ \A d \in Commanders \ {c} : Target(d)' = Target(d)
    BY <2>1 DEF Target, Only
  <2>4. command[c].late \/ Needs[manifest[command[c].p][2]] \subseteq proven[command[c].p]
    BY <1>2 DEF ChecksOfManifest
  <2>5. /\ \A l \in Playbooks : /\ catalog'[l].unverified \subseteq catalog'[l].doubted
                                /\ catalog'[l].current = catalog[l].current
                                /\ catalog[l].described \subseteq catalog'[l].described
        /\ v \in catalog'[k].described
    <3> DEFINE p == command[c].p
               With(versions, cond) == IF cond THEN versions \cup {v} ELSE versions \ {v}
    <3>1. /\ \A l \in Playbooks \ {k} : catalog'[l] = catalog[l]
          /\ catalog'[k].described = catalog[k].described \cup {v}
          /\ catalog'[k].unverified = With(catalog[k].unverified,
               ~(Needs[manifest[p][2]] \subseteq proven[p]))
          /\ catalog'[k].doubted = With(catalog[k].doubted, command[c].late)
          /\ catalog'[k].current = catalog[k].current
      BY <1>4, Described
    <3>2. catalog[k].unverified \subseteq catalog[k].doubted
      BY <1>1 DEF CatalogComplete
    <3> HIDE DEF k, v
    <3>3. catalog'[k].unverified \subseteq catalog'[k].doubted
      BY <2>4, <3>1, <3>2, CommandType
    <3> QED BY <1>1, <3>1, <3>3 DEF CatalogComplete
  <2>6. \A d \in Commanders : Target(d) \in Playbooks
    BY CommandType DEF Target
  <2> HIDE DEF k, v
  <2>7. v = command'[c].of[1] /\ k \in Playbooks
    BY <1>1, <2>1 DEF v
  <2>8. CatalogComplete'
    BY <1>2, <2>1, <2>3, <2>5, <2>6, <2>7 DEF CatalogComplete, Only
  <2> QED BY <2>2, <2>8
<1> QED BY <1>3, <1>4

LEMMA PublishStep ==
  ASSUME ArInv, ArchitectTypeOK', NEW c \in Commanders, Publish(c)
  PROVE  Sound' /\ CatalogComplete'
<1> USE DEF ArInv, Sound
<1> DEFINE k == Target(c)
           v == command[c].of[1]
           r == [catalog[k] EXCEPT !.current = {v}, !.removed = FALSE]
<1>1. k \in Playbooks /\ v \in Versions
  BY CommandType DEF Target
<1>2. /\ UNCHANGED <<manifest, ready, checks, proven, blurred, razed>>
      /\ command[c].at = "described"
      /\ Only(c) /\ command'[c].at = "rest"
  BY Returned DEF Publish
<1>3. CASE catalog[k].copied = {}
  <2>1. UNCHANGED <<catalog, proposal>>
    BY <1>3 DEF Publish
  <2>2. Sound'
    BY <1>2, <2>1, Kept DEF Lasting, Exists
  <2> QED BY <1>2, <2>1, <2>2, CatalogKept
<1>4. CASE catalog[k].copied # {}
  <2>1. PICK p \in Proposals : p = command[c].p
    BY CommandType
  <2>2. Lasting
    <3>1. ArchitectTypeOK /\ "settled" \in {"awaiting_user_input", "settled"}
      OBVIOUS
    <3>2. Turns(p, "settled")
      BY <1>4, <2>1 DEF Publish
    <3> QED BY ONLY <3>1, <3>2, Turned
  <2>3. Sound'
    BY <1>2, <2>2, Kept
  <2>4. catalog[k] \in Listing /\ catalog \in [Playbooks -> Listing]
    BY <1>1 DEF ArchitectTypeOK, Listing
  <2>5. catalog' = [catalog EXCEPT ![k] = r]
    BY <1>1, <1>4, <2>4 DEF Publish, Listing
  <2>6. /\ r.unverified = catalog[k].unverified /\ r.doubted = catalog[k].doubted
        /\ r.current = {v}
        /\ r.described = catalog[k].described
    BY <2>4 DEF Listing
  <2>7. k \notin razed => v \in catalog[k].described
    BY <1>2 DEF CatalogComplete
  <2> HIDE DEF r, k
  <2>8. /\ \A l \in Playbooks : /\ catalog'[l].unverified = catalog[l].unverified
                                /\ catalog'[l].doubted = catalog[l].doubted
                                /\ catalog[l].described = catalog'[l].described
        /\ \A l \in Playbooks \ {k} : catalog'[l].current = catalog[l].current
        /\ catalog'[k].current = {v}
    BY <1>1, <2>4, <2>5, <2>6
  <2>9. \A d \in Commanders \ {c} : Target(d)' = Target(d) /\ Target(d) \in Playbooks
    BY <1>2, CommandType DEF Target, Only
  <2>10. CatalogComplete'
    BY <1>2, <2>7, <2>8, <2>9 DEF CatalogComplete, Only
  <2> QED BY <2>3, <2>10
<1> QED BY <1>3, <1>4

\* A Playbook that is purged loses its files; the promotion under way is told apart.
LEMMA PlaybookStep ==
  ASSUME ArInv, NEW k \in Playbooks, RemovePlaybook(k) \/ PurgePlaybook(k)
  PROVE  Sound' /\ CatalogComplete'
<1> USE DEF ArInv, Sound
<1>1. /\ UNCHANGED <<proposal, manifest, ready, checks, command, proven, blurred>>
      /\ razed \subseteq razed'
  BY DEF RemovePlaybook, PurgePlaybook
<1>2. Sound'
  BY <1>1, Judged DEF Lasting, Exists
<1>3. catalog \in [Playbooks -> Listing] /\ catalog[k] \in Listing
  BY DEF ArchitectTypeOK, Listing
<1>4. CASE RemovePlaybook(k)
  <2>1. catalog' = [catalog EXCEPT ![k] = [catalog[k] EXCEPT !.removed = TRUE]]
        /\ UNCHANGED razed
    BY <1>3, <1>4 DEF RemovePlaybook, Listing
  <2>2. \A l \in Playbooks : /\ catalog'[l].unverified = catalog[l].unverified
                             /\ catalog'[l].doubted = catalog[l].doubted
                             /\ catalog'[l].current = catalog[l].current
                             /\ catalog[l].described = catalog'[l].described
    BY <1>3, <2>1 DEF Listing
  <2>3. \A d \in Commanders : Target(d)' = Target(d) /\ Target(d) \in Playbooks
    BY <1>1, CommandType DEF Target
  <2> QED BY <1>1, <1>2, <2>1, <2>2, <2>3 DEF CatalogComplete
<1>5. CASE PurgePlaybook(k)
  <2>1. catalog' = [catalog EXCEPT ![k] = Vacant]
    BY <1>5 DEF PurgePlaybook
  <2>2. /\ \A l \in Playbooks \ {k} : catalog'[l] = catalog[l]
        /\ catalog'[k] = Vacant
    BY <1>3, <2>1
  <2>3. \A d \in Commanders : Target(d)' = Target(d) /\ Target(d) \in Playbooks
    BY <1>1, CommandType DEF Target
  <2>4. \A d \in Commanders : command[d].at = "described" /\ Target(d) = k => k \in razed'
    BY <1>5 DEF PurgePlaybook
  <2> QED BY <1>1, <1>2, <2>2, <2>3, <2>4 DEF CatalogComplete, Vacant
<1> QED BY <1>4, <1>5

LEMMA JudgeStep ==
  ASSUME ArInv, ArchitectTypeOK', NEW p \in Proposals,
         Interview(p) \/ AnswerInterview(p) \/ RecordValidation(p) \/ RecordFeedback(p)
  PROVE  Sound' /\ CatalogComplete'
<1>1. UNCHANGED <<manifest, ready, checks, command, proven, blurred, catalog, razed>>
  BY DEF Interview, AnswerInterview, RecordValidation, RecordFeedback, Judge
<1>2. Lasting
  <2>1. CASE UNCHANGED proposal
    BY <2>1 DEF Lasting, Exists
  <2>2. CASE Turns(p, "settled")
    <3>1. ArchitectTypeOK /\ "settled" \in {"awaiting_user_input", "settled"}
      BY DEF ArInv
    <3> QED BY ONLY <2>2, <3>1, Turned
  <2> QED BY <2>1, <2>2 DEF Interview, AnswerInterview, RecordValidation, RecordFeedback, Judge
<1>3. Sound'
  BY <1>1, <1>2, Judged
<1>4. CatalogComplete'
  BY <1>1 DEF ArInv, CatalogComplete, Target
<1> QED BY <1>3, <1>4

LEMMA ArStep == ArInv /\ [ArchitectNext]_arVars => ArInv'
<1> SUFFICES ASSUME ArInv, [ArchitectNext]_arVars PROVE ArInv'
  OBVIOUS
<1>a. ArchitectTypeOK'
  BY TypedStep DEF ArInv
<1> SUFFICES Sound' /\ CatalogComplete'
  BY <1>a DEF ArInv
<1>1. ASSUME NEW c \in Commanders, NEW p \in Proposals, NEW t \in Tasks,
             Propose(c, p, t) \/ Import(c, p, t)
      PROVE  Sound' /\ CatalogComplete'
  <2>1. <<0, t>> \in Contents /\ <<1, t>> \in Contents
    BY DEF Contents, Versions
  <2> QED BY <1>1, <2>1, DraftsStep, DraftsCatalog DEF Propose, Import
<1>2. ASSUME NEW c \in Commanders, NEW p \in Proposals, NEW t \in Tasks, Revise(c, p, t)
      PROVE  Sound' /\ CatalogComplete'
  BY <1>2, <1>a, SimpleStep
<1>3. ASSUME NEW c \in Commanders, NEW p \in Proposals, Provision(c, p) \/ Promote(c, p)
      PROVE  Sound' /\ CatalogComplete'
  BY <1>3, <1>a, SimpleStep
<1>4. ASSUME NEW c \in Commanders,
             Ask(c) \/ LaunchForImport(c) \/ UpdateProposal(c) \/ Interrupt(c)
      PROVE  Sound' /\ CatalogComplete'
  BY <1>4, <1>a, SimpleStep
<1>5. ASSUME NEW c \in Commanders,
             \/ CheckCapabilities(c) \/ RecordChecks(c) \/ LaunchAgents(c) \/ StageImport(c)
             \/ WriteManifest(c) \/ DropChecks(c) \/ PassGate(c) \/ CopyPlaybook(c)
             \/ Describe(c) \/ Publish(c)
      PROVE  Sound' /\ CatalogComplete'
  BY <1>5, <1>a, CheckCapabilitiesStep, RecordChecksStep, LaunchAgentsStep, StageImportStep,
     WriteManifestStep, DropChecksStep, PassGateStep, CopyStep, DescribeStep, PublishStep
<1>6. ASSUME NEW p \in Proposals,
             \/ Interview(p) \/ AnswerInterview(p) \/ RecordValidation(p) \/ RecordFeedback(p)
             \/ \E n \in Capabilities : RecordCapability(p, n)
      PROVE  Sound' /\ CatalogComplete'
  BY <1>6, <1>a, JudgeStep, RecordCapabilityStep
<1>7. ASSUME NEW k \in Playbooks, RemovePlaybook(k) \/ PurgePlaybook(k)
      PROVE  Sound' /\ CatalogComplete'
  BY <1>7, PlaybookStep
<1>8. CASE UNCHANGED arVars
  <2>1. Sound'
    BY <1>8, Judged DEF arVars, Lasting, Exists
  <2>2. CatalogComplete'
    BY <1>8 DEF arVars, ArInv, CatalogComplete, Target
  <2> QED BY <2>1, <2>2
<1> QED BY <1>1, <1>2, <1>3, <1>4, <1>5, <1>6, <1>7, <1>8 DEF ArchitectNext
-----------------------------------------------------------------------------
(* The theorems                                                            *)

LEMMA ArchitectInvariant == ArchitectSpec => []ArInv
BY InitArInv, ArStep, PTL DEF ArchitectSpec

\* Every column, file and process has its type, whatever the commands do.
THEOREM ArchitectTyped == ArchitectSpec => []ArchitectTypeOK
<1>1. ArInv => ArchitectTypeOK
  BY DEF ArInv
<1> QED BY <1>1, ArchitectInvariant, PTL

\* The launcher starts the roles of a proposal only on capabilities verified for
\* the manifest that is there, for any number of commands, revisions and
\* interruptions: what readiness.json says is proved, or the proposal blurred.
THEOREM GateHolds == ArchitectSpec => []CapabilityGate
<1>1. ArInv => CapabilityGate
  BY DEF ArInv, Sound, ReadyIsProven, CapabilityGate, Operational, Doubtful
<1> QED BY <1>1, ArchitectInvariant, PTL

\* The catalog offers a version with an unverified capability only in doubt, when
\* a manifest replaced after the gate or rows of a revision under way were read,
\* and current.json names only a version that is described, unless the Playbook
\* was purged under a promotion.
THEOREM CatalogHolds == ArchitectSpec => []CatalogSound
<1>1. ArInv => CatalogSound
  BY DEF ArInv, CatalogComplete, CatalogSound
<1> QED BY <1>1, ArchitectInvariant, PTL
=============================================================================
