----------------------------- MODULE AgentTree -----------------------------
(***************************************************************************)
(* The live tree of agents: SpawnChild, RetireChild and ReplaceChild of    *)
(* crates/coral_temporal/src/workflow.rs, with the activity that registers *)
(* a child in the structural DB, the retirement of an agent, the signals   *)
(* between parent and child, and the child handles that continue-as-new    *)
(* (CAN) carries.                                                          *)
(*                                                                         *)
(* Every agent runs the loop of module AgentWorkflow, of which only the    *)
(* awaits that concern the tree are kept; its `cycle` stands for every     *)
(* step that leaves the tree alone.  Temporal is external: it retries an   *)
(* activity attempt that fails or times out, for ever and without stopping *)
(* the old one, starts a child workflow once, delivers a signal to a       *)
(* running workflow and fails it for any other.                            *)
(***************************************************************************)
EXTENDS Naturals, FiniteSets

CONSTANTS
    MaxAgents,      \* bound on the agent ids minted; the root is 1
    MaxFaults,      \* bound on the attempts of the activity that fail or time out
    GraphTools,     \* tool_defs of the graph
    Grants          \* the tool sets a decision's mandate may grant

ASSUME BoundAssumption == MaxAgents \in Nat \ {0} /\ MaxFaults \in Nat

Agents == 1 .. MaxAgents
Root == 1
NoAgent == 0

VARIABLES
    \* the structural DB
    rows,       \* agents
    edges,      \* edges, <<parent, child>>
    \* the activity
    attempt,    \* per agent, the attempt of register_child it waits for
    strays,     \* attempts that timed out and are still running
    faults,     \* attempts that failed or timed out
    \* Temporal's and each workflow's state
    pc,         \* the await an agent's run is blocked on
    job,        \* the decision it executes
    input,      \* the AgentInput its workflow was started with
    handles,    \* child_handles
    asked,      \* retirement_request.is_some()
    notices,    \* ChildRetired triggers in pending_triggers
    carry,      \* the carryover in the input of a run not yet started
    \* what has happened
    records     \* agents whose retirement.json is written

dbVars == <<rows, edges>>
activityVars == <<attempt, strays, faults>>
vars == <<dbVars, activityVars, pc, job, input, handles, asked, notices, carry, records>>

Closed == {"retired", "failed"}
PC == {"none", "gate", "cycle", "tell", "drop", "register", "start", "started",
       "suspended", "persist", "report"} \cup Closed
Running(a) == pc[a] \notin {"none"} \cup Closed

NoJob == [target |-> NoAgent, spawns |-> FALSE, grant |-> {}, child |-> NoAgent]
NoAttempt == [at |-> "idle", child |-> NoAgent]
NoCarry == [some |-> FALSE, handles |-> {}, asked |-> FALSE, notices |-> {}, resume |-> FALSE]
NoInput == [parent |-> NoAgent, tools |-> {}]

Init ==
    /\ rows = {Root} /\ edges = {}
    /\ attempt = [a \in Agents |-> NoAttempt] /\ strays = {} /\ faults = 0
    /\ pc = [a \in Agents |-> IF a = Root THEN "gate" ELSE "none"]
    /\ job = [a \in Agents |-> NoJob]
    /\ input = [a \in Agents |-> NoInput]
    /\ handles = [a \in Agents |-> {}]
    /\ asked = [a \in Agents |-> FALSE]
    /\ notices = [a \in Agents |-> {}]
    /\ carry = [a \in Agents |-> NoCarry]
    /\ records = {}

-----------------------------------------------------------------------------
(* Rounds of an agent's loop.                                              *)

EncodeCarryover(h, ask, ns, resume) ==
    [some |-> TRUE, handles |-> h, asked |-> ask, notices |-> ns, resume |-> resume]

\* The run ends; the next one, not started yet, has a default struct.
ContinueAsNew(a, h, resume) ==
    /\ carry' = [carry EXCEPT ![a] = EncodeCarryover(h, asked[a], notices[a], resume)]
    /\ handles' = [handles EXCEPT ![a] = {}]
    /\ asked' = [asked EXCEPT ![a] = FALSE]
    /\ notices' = [notices EXCEPT ![a] = {}]
    /\ pc' = [pc EXCEPT ![a] = "suspended"]

\* A decision is executed, its observation pushed, the handles are now h: the
\* cycle goes on, or is suspended by a CAN.
Observe(a, h) ==
    \/ /\ pc' = [pc EXCEPT ![a] = "cycle"]
       /\ handles' = [handles EXCEPT ![a] = h]
       /\ UNCHANGED <<asked, notices, carry>>
    \/ ContinueAsNew(a, h, TRUE)

\* The step cap is looked at on the top of the loop; `cap` says it is reached.
LoopTop(cap) == IF cap THEN "persist" ELSE "gate"

\* First workflow task of a run after a CAN.  What was signalled in between is
\* handled after run() has hydrated the carryover and blocked.
HydrateRun(a) ==
    /\ pc[a] = "suspended"
    /\ handles' = [handles EXCEPT ![a] = carry[a].handles]
    /\ notices' = [notices EXCEPT ![a] = @ \cup carry[a].notices]
    /\ carry' = [carry EXCEPT ![a] = NoCarry]
    /\ \/ /\ carry[a].resume
          /\ pc' = [pc EXCEPT ![a] = IF carry[a].asked THEN "persist" ELSE "cycle"]
          /\ UNCHANGED asked
       \/ /\ ~carry[a].resume
          /\ asked' = [asked EXCEPT ![a] = @ \/ carry[a].asked]
          /\ \E cap \in BOOLEAN : pc' = [pc EXCEPT ![a] = LoopTop(cap)]
    /\ UNCHANGED <<dbVars, activityVars, job, input, records>>

\* wait_for_tick returns and the buckets are drained; a retirement request
\* discards the rest.  The wake may be a timer's.
Wake(a) ==
    /\ pc[a] = "gate"
    /\ asked' = [asked EXCEPT ![a] = FALSE]
    /\ notices' = [notices EXCEPT ![a] = {}]
    /\ pc' = [pc EXCEPT ![a] = IF asked[a] THEN "persist" ELSE "cycle"]
    /\ UNCHANGED <<dbVars, activityVars, job, input, handles, carry, records>>

\* Fault: the wake condition leaves the retirement request out.
WaitingOnTriggers(a) == notices[a] # {}

SignalWaiting(a) == asked[a] \/ notices[a] # {}

\* A step that is none of the tree's: the tools, the files, an Output.
OtherStep(a) ==
    /\ pc[a] = "cycle"
    /\ Observe(a, handles[a])
    /\ UNCHANGED <<dbVars, activityVars, job, input, records>>

\* Idle, or the runaway fuse: the cycle is committed and the loop goes round, or
\* continues as new between two cycles.
EndCycle(a) ==
    /\ pc[a] = "cycle"
    /\ \/ /\ \E cap \in BOOLEAN : pc' = [pc EXCEPT ![a] = LoopTop(cap)]
          /\ UNCHANGED <<handles, asked, notices, carry>>
       \/ ContinueAsNew(a, handles[a], FALSE)
    /\ UNCHANGED <<dbVars, activityVars, job, input, records>>

-----------------------------------------------------------------------------
(* RetireChild, and the first half of ReplaceChild.                        *)

\* The ids that the spawns and the stray attempts under way are yet to mint.
\* A spawn begins, and an attempt is retried, only where MaxAgents leaves a spare.
Unminted(a) == job[a].spawns /\ (pc[a] \in {"tell", "drop"} \/ attempt[a].at = "grant")
Owed ==
    Cardinality({a \in Agents : Unminted(a)}) + Cardinality({s \in strays : s.at = "grant"})
Spare == Cardinality(Agents \ rows) > Owed

\* The model names an agent by its AgentRef: any it has read of, of its own
\* children or not, alive or not.  Both fields are of one agent.
RetireChild(a, c) ==
    /\ pc[a] = "cycle"
    /\ c \in rows
    /\ job' = [job EXCEPT ![a] = [NoJob EXCEPT !.target = c]]
    /\ pc' = [pc EXCEPT ![a] = "tell"]
    /\ UNCHANGED <<dbVars, activityVars, input, handles, asked, notices, carry, records>>

ReplaceChild(a, c, tools) ==
    /\ pc[a] = "cycle"
    /\ c \in rows
    /\ Spare
    /\ job' = [job EXCEPT ![a] = [NoJob EXCEPT
                 !.target = c, !.spawns = TRUE, !.grant = tools]]
    /\ pc' = [pc EXCEPT ![a] = "tell"]
    /\ UNCHANGED <<dbVars, activityVars, input, handles, asked, notices, carry, records>>

\* Fault: the handle is dropped before the signal is sent.
DropThenTell(a) ==
    /\ pc[a] = "tell"
    /\ handles' = [handles EXCEPT ![a] = @ \ {job[a].target}]
    /\ pc' = [pc EXCEPT ![a] = "drop"]
    /\ UNCHANGED <<dbVars, activityVars, job, input, asked, notices, carry, records>>

\* The retire signal reaches a running workflow and fails for any other; the
\* failure is logged.
TellChild(a) ==
    /\ pc[a] = "tell"
    /\ asked' = [asked EXCEPT ![job[a].target] = @ \/ Running(job[a].target)]
    /\ pc' = [pc EXCEPT ![a] = "drop"]
    /\ UNCHANGED <<dbVars, activityVars, job, input, handles, notices, carry, records>>

\* The handle goes whatever became of the signal; a replacement is spawned next.
DropHandle(a) ==
    /\ pc[a] = "drop"
    /\ LET kept == handles[a] \ {job[a].target}
       IN IF job[a].spawns
          THEN /\ handles' = [handles EXCEPT ![a] = kept]
               /\ pc' = [pc EXCEPT ![a] = "register"]
               /\ attempt' = [attempt EXCEPT ![a] = [NoAttempt EXCEPT !.at = "grant"]]
               /\ UNCHANGED <<job, asked, notices, carry>>
          ELSE /\ Observe(a, kept)
               /\ job' = [job EXCEPT ![a] = NoJob]
               /\ UNCHANGED attempt
    /\ UNCHANGED <<dbVars, strays, faults, input, records>>

-----------------------------------------------------------------------------
(* SpawnChild: register_child_in_structural_db.                            *)

SpawnChild(a, tools) ==
    /\ pc[a] = "cycle"
    /\ Spare
    /\ job' = [job EXCEPT ![a] = [NoJob EXCEPT !.spawns = TRUE, !.grant = tools]]
    /\ pc' = [pc EXCEPT ![a] = "register"]
    /\ attempt' = [attempt EXCEPT ![a] = [NoAttempt EXCEPT !.at = "grant"]]
    /\ UNCHANGED <<dbVars, strays, faults, input, handles, asked, notices, carry, records>>

\* The grant names only tools the graph defines.
Granted(tools) == tools \subseteq GraphTools

\* The id add_agent mints: ids are numbered in the order they are minted.
Minted(c) == c \in Agents \ rows /\ \A d \in Agents \ rows : c <= d

\* Fault: the grant is checked once the row is in.
RejectAfterAgent(a) ==
    /\ pc[a] = "register"
    /\ attempt[a].at = "grant"
    /\ ~Granted(job[a].grant)
    /\ \E c \in Agents : Minted(c) /\ rows' = rows \cup {c}
    /\ attempt' = [attempt EXCEPT ![a] = NoAttempt]
    /\ job' = [job EXCEPT ![a] = NoJob]
    /\ Observe(a, handles[a])
    /\ UNCHANGED <<edges, strays, faults, input, records>>

\* A bad grant is an observation, and nothing is written.
RejectGrant(a) ==
    /\ pc[a] = "register"
    /\ attempt[a].at = "grant"
    /\ ~Granted(job[a].grant)
    /\ attempt' = [attempt EXCEPT ![a] = NoAttempt]
    /\ job' = [job EXCEPT ![a] = NoJob]
    /\ Observe(a, handles[a])
    /\ UNCHANGED <<dbVars, strays, faults, input, records>>

\* The two statements of an attempt, each a transaction of its own.
AddAgent(c) == rows' = rows \cup {c} /\ UNCHANGED edges
AddEdge(a, c) == edges' = edges \cup {<<a, c>>} /\ UNCHANGED rows

AttemptAddsAgent(a) ==
    /\ attempt[a].at = "grant"
    /\ Granted(job[a].grant)
    /\ \E c \in Agents :
          /\ Minted(c)
          /\ AddAgent(c)
          /\ attempt' = [attempt EXCEPT ![a] = [at |-> "edge", child |-> c]]
    /\ UNCHANGED <<strays, faults, pc, job, input, handles, asked, notices, carry, records>>

AttemptAddsEdge(a) ==
    /\ attempt[a].at = "edge"
    /\ AddEdge(a, attempt[a].child)
    /\ attempt' = [attempt EXCEPT ![a].at = "done"]
    /\ UNCHANGED <<strays, faults, pc, job, input, handles, asked, notices, carry, records>>

Retry(a) ==
    /\ faults < MaxFaults /\ Spare
    /\ faults' = faults + 1
    /\ attempt' = [attempt EXCEPT ![a] = [NoAttempt EXCEPT !.at = "grant"]]
    /\ UNCHANGED <<dbVars, pc, job, input, handles, asked, notices, carry, records>>

\* An error of the store, or a completion that is lost: Temporal starts another
\* attempt, which mints another id.
AttemptFails(a) ==
    /\ attempt[a].at # "idle"
    /\ Retry(a)
    /\ UNCHANGED strays

\* The start-to-close timeout passes and the attempt goes on.
AttemptTimesOut(a) ==
    /\ attempt[a].at \in {"grant", "edge"}
    /\ Granted(job[a].grant)
    /\ Retry(a)
    /\ strays' = strays \cup {[no |-> faults, parent |-> a, at |-> attempt[a].at,
                               child |-> attempt[a].child]}

StrayAddsAgent(s) ==
    /\ s.at = "grant"
    /\ \E c \in Agents :
          /\ Minted(c)
          /\ AddAgent(c)
          /\ strays' = (strays \ {s}) \cup {[s EXCEPT !.at = "edge", !.child = c]}
    /\ UNCHANGED <<attempt, faults, pc, job, input, handles, asked, notices, carry, records>>

\* Nobody waits for what a stray returns.
StrayAddsEdge(s) ==
    /\ s.at = "edge"
    /\ AddEdge(s.parent, s.child)
    /\ strays' = strays \ {s}
    /\ UNCHANGED <<attempt, faults, pc, job, input, handles, asked, notices, carry, records>>

-----------------------------------------------------------------------------
(* SpawnChild: the workflow.                                               *)

Registered(a) ==
    /\ pc[a] = "register"
    /\ attempt[a].at = "done"
    /\ job' = [job EXCEPT ![a].child = attempt[a].child]
    /\ attempt' = [attempt EXCEPT ![a] = NoAttempt]
    /\ pc' = [pc EXCEPT ![a] = "start"]
    /\ UNCHANGED <<dbVars, strays, faults, input, handles, asked, notices, carry, records>>

BuildChildInput(a) == [parent |-> a, tools |-> job[a].grant]

\* Temporal starts the child's workflow, which runs from now on.
StartChild(a) ==
    /\ pc[a] = "start"
    /\ pc' = [pc EXCEPT ![a] = "started", ![job[a].child] = "gate"]
    /\ input' = [input EXCEPT ![job[a].child] = BuildChildInput(a)]
    /\ UNCHANGED <<dbVars, activityVars, job, handles, asked, notices, carry, records>>

\* A start that fails is an error of the parent's workflow.
StartFails(a) ==
    /\ pc[a] = "start"
    /\ pc' = [pc EXCEPT ![a] = "failed"]
    /\ UNCHANGED <<dbVars, activityVars, job, input, handles, asked, notices, carry, records>>

\* The parent resumes; by now the child may have run, and even retired.
PushHandle(a) ==
    /\ pc[a] = "started"
    /\ Observe(a, handles[a] \cup {job[a].child})
    /\ job' = [job EXCEPT ![a] = NoJob]
    /\ UNCHANGED <<dbVars, activityVars, input, records>>

-----------------------------------------------------------------------------
(* Retirement.                                                             *)

\* A human, or the reaper, asks.
AskRetire(a) ==
    /\ Running(a)
    /\ ~asked[a]
    /\ asked' = [asked EXCEPT ![a] = TRUE]
    /\ UNCHANGED <<dbVars, activityVars, pc, job, input, handles, notices, carry, records>>

PersistRetirement(a) ==
    /\ pc[a] = "persist"
    /\ records' = records \cup {a}
    /\ pc' = [pc EXCEPT ![a] = IF input[a].parent = NoAgent THEN "retired" ELSE "report"]
    /\ UNCHANGED <<dbVars, activityVars, job, input, handles, asked, notices, carry>>

\* ChildRetired reaches a parent that runs; for any other the failure is logged.
ReportRetirement(a) ==
    /\ pc[a] = "report"
    /\ LET p == input[a].parent
       IN notices' = IF Running(p) THEN [notices EXCEPT ![p] = @ \cup {a}] ELSE notices
    /\ pc' = [pc EXCEPT ![a] = "retired"]
    /\ UNCHANGED <<dbVars, activityVars, job, input, handles, asked, carry, records>>

\* An activity of a cycle, of its seed or commit, or of the retirement fails for
\* good: the workflow ends with no record and nobody is told.
ActivityFails(a) ==
    /\ pc[a] \in {"cycle", "persist"}
    /\ pc' = [pc EXCEPT ![a] = "failed"]
    /\ UNCHANGED <<dbVars, activityVars, job, input, handles, asked, notices, carry, records>>

-----------------------------------------------------------------------------

\* What Temporal, the worker or the store brings about once an agent waits for it.
Progress(a) ==
    \/ HydrateRun(a)
    \/ TellChild(a)
    \/ DropHandle(a)
    \/ RejectGrant(a)
    \/ AttemptAddsAgent(a)
    \/ AttemptAddsEdge(a)
    \/ Registered(a)
    \/ StartChild(a)
    \/ PushHandle(a)
    \/ PersistRetirement(a)
    \/ ReportRetirement(a)

\* What the model, a human or a failure may do.
Choice(a) ==
    \/ \E tools \in Grants : SpawnChild(a, tools)
    \/ \E c \in Agents : RetireChild(a, c)
    \/ \E c \in Agents, tools \in Grants : ReplaceChild(a, c, tools)
    \/ OtherStep(a)
    \/ AskRetire(a)
    \/ AttemptFails(a)
    \/ AttemptTimesOut(a)
    \/ StartFails(a)
    \/ ActivityFails(a)

Next ==
    \/ \E a \in Agents : Progress(a) \/ Wake(a) \/ EndCycle(a) \/ Choice(a)
    \/ \E s \in strays : StrayAddsAgent(s) \/ StrayAddsEdge(s)

Spec == Init /\ [][Next]_vars

\* Whatever a run waits for happens, a signal wakes the gate, and a cycle ends
\* however often it goes on: the runaway fuse counts its steps over every CAN.
Fairness ==
    \A a \in Agents :
        /\ WF_vars(Progress(a))
        /\ WF_vars(SignalWaiting(a) /\ Wake(a))
        /\ SF_vars(EndCycle(a))

FairSpec == Spec /\ Fairness

-----------------------------------------------------------------------------
(* Properties.                                                             *)

AgentOrNone == Agents \cup {NoAgent}
Attempts == [at : {"idle", "grant"}, child : {NoAgent}] \cup [at : {"edge", "done"}, child : Agents]
Strays == [no : Nat, parent : Agents, at : {"grant"}, child : {NoAgent}]
          \cup [no : Nat, parent : Agents, at : {"edge"}, child : Agents]
Jobs == [target : AgentOrNone, spawns : BOOLEAN, grant : Grants \cup {{}}, child : AgentOrNone]
Inputs == [parent : AgentOrNone, tools : Grants \cup {{}}]
Carries == [some : BOOLEAN, handles : SUBSET Agents, asked : BOOLEAN,
            notices : SUBSET Agents, resume : BOOLEAN]

\* What every variable ranges over.
TypeOK ==
    /\ rows \subseteq Agents /\ edges \subseteq Agents \X Agents
    /\ attempt \in [Agents -> Attempts]
    /\ strays \subseteq Strays
    /\ faults \in Nat
    /\ pc \in [Agents -> PC]
    /\ job \in [Agents -> Jobs]
    /\ input \in [Agents -> Inputs]
    /\ handles \in [Agents -> SUBSET Agents]
    /\ asked \in [Agents -> BOOLEAN]
    /\ notices \in [Agents -> SUBSET Agents]
    /\ carry \in [Agents -> Carries]
    /\ records \subseteq Agents

Started == {a \in Agents : pc[a] # "none"}

\* Nothing runs that the structural DB does not show where it is: a workflow's
\* agent has its row and the edge from the agent its ChildRetired goes to, and
\* holds only tools the graph defines (spawn_child registers before it starts).
StartedIsRegistered ==
    \A a \in Started \ {Root} :
        /\ a \in rows
        /\ <<input[a].parent, a>> \in edges
        /\ input[a].parent \in Started
        /\ input[a].tools \subseteq GraphTools

\* Registration is not idempotent ("a retried activity invocation ... would
\* create a duplicate child row"), but each duplicate has a cause: a row with no
\* workflow is of a spawn under way, of a parent that failed in the middle of it,
\* or of one failed or timed-out attempt.
Spawning == {a \in Agents : pc[a] \in {"register", "start"}}
FailedSpawning == {a \in Agents : pc[a] = "failed" /\ job[a].child # NoAgent}
DuplicatesHaveACause ==
    Cardinality(rows \ Started)
        <= faults + Cardinality(Spawning) + Cardinality(FailedSpawning)

\* What a run holds, or the next will.
HandlesOf(a) == handles[a] \cup carry[a].handles

\* A parent's handles are its own children, every one registered and started: a
\* retried registration leaves no handle of the duplicate.
HandlesAreOwn ==
    \A a \in Agents : \A c \in HandlesOf(a) : c \in Started /\ input[c].parent = a

\* An agent seen through its runs and through the signals it has been sent.
Status(a) ==
    IF pc[a] = "none" THEN "absent"
    ELSE IF pc[a] \in Closed THEN "gone"
    ELSE IF asked[a] \/ carry[a].asked \/ pc[a] \in {"persist", "report"} THEN "leaving"
    ELSE "open"

\* The children it accounts for: its handles, and the child just started.
Known(a) == HandlesOf(a) \cup IF pc[a] = "started" THEN {job[a].child} ELSE {}

statusOf == [a \in Agents |-> Status(a)]
parentOf == [a \in Agents |-> input[a].parent]
knownOf == [a \in Agents |-> Known(a)]

Forest == INSTANCE AgentForest WITH
    status <- statusOf, parent <- parentOf, known <- knownOf

\* Spawning is atomic and retirement signals precede forgetting, seen from outside:
\* the rows, the retried activity, continue-as-new and the signals are details.
ImplementsForest == Forest!Spec
NoStrayChild == Forest!NoStrayChild

\* Who is asked to leave does, from whatever it is doing: waiting for a
\* registration, suspended by a continue-as-new, or replacing another.  Statuses
\* only advance, so this says it of every agent.
NobodyLingers == []<>(\A a \in Agents : Status(a) # "leaving")
=============================================================================
