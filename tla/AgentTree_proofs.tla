-------------------------- MODULE AgentTree_proofs --------------------------
(***************************************************************************)
(* Machine-checked proofs about AgentTree, for every number of agents,     *)
(* fault bound, set of graph tools and set of grants: AgentTree implements *)
(* AgentForest, and so no child is ever lost by a living parent.           *)
(***************************************************************************)
EXTENDS AgentTree, FiniteSetTheorems, TLAPS

-----------------------------------------------------------------------------
(* The inductive invariant.                                                *)

\* The row a spawn has added and whose workflow it is yet to start.
Added(a) == attempt[a].at \in {"edge", "done"}
Pending(a) == IF Added(a) THEN attempt[a].child ELSE job[a].child
IsSpawning(a) == Added(a) \/ pc[a] = "start"

\* A pending child has its row, no workflow, and one agent that spawns it; by the
\* time the activity is done it has its edge, and its grant has been checked.
PendingIsFresh ==
    \A a \in Agents : IsSpawning(a) =>
        /\ Pending(a) \in rows
        /\ pc[Pending(a)] = "none"
        /\ job[a].grant \subseteq GraphTools
        /\ attempt[a].at # "edge" => <<a, Pending(a)>> \in edges
        /\ \A b \in Agents \ {a} : IsSpawning(b) => Pending(b) # Pending(a)

\* An activity attempt is waited for by a run blocked on it, and by no other.
AttemptIsAwaited == \A a \in Agents : attempt[a].at # "idle" => pc[a] = "register"

\* Between two runs everything is in the carryover, and within one nothing is.
CarryBetweenRuns ==
    \A a \in Agents :
        /\ pc[a] = "suspended" => handles[a] = {}
        /\ pc[a] # "suspended" => carry[a] = NoCarry

\* An agent that was never started holds nothing and was asked nothing.
AbsentIsBlank ==
    \A a \in Agents : pc[a] = "none" => handles[a] = {} /\ ~asked[a]

RowsOfStarted == Started \subseteq rows

\* A child just started is the child of the agent about to push its handle.
StartedIsOwn ==
    \A a \in Agents : pc[a] = "started" =>
        job[a].child \in Started /\ input[job[a].child].parent = a

TargetIsAgent == \A a \in Agents : pc[a] \in {"tell", "drop"} => job[a].target \in Agents

\* A handle is dropped only after its agent has been told, or had closed.
ToldBeforeDropped ==
    \A a \in Agents : pc[a] = "drop" /\ job[a].target \in HandlesOf(a)
        => Status(job[a].target) # "open"

TreeInv ==
    /\ PendingIsFresh
    /\ AttemptIsAwaited
    /\ CarryBetweenRuns
    /\ AbsentIsBlank
    /\ RowsOfStarted
    /\ StartedIsOwn
    /\ TargetIsAgent
    /\ HandlesAreOwn
    /\ StartedIsRegistered
    /\ ToldBeforeDropped

-----------------------------------------------------------------------------
(* Types.                                                                  *)

\* The root is an agent and NoAgent is none.
LEMMA Ids == Root \in Agents /\ NoAgent \notin Agents
BY BoundAssumption DEF Root, Agents, NoAgent

\* What a variable is set to where a job, an attempt, an input or a run ends.
LEMMA BlankTypes ==
    /\ NoJob \in Jobs /\ NoAttempt \in Attempts /\ NoCarry \in Carries /\ NoInput \in Inputs
    /\ [NoAttempt EXCEPT !.at = "grant"] \in Attempts
BY DEF NoJob, NoAttempt, NoCarry, NoInput, Jobs, Attempts, Carries, Inputs, AgentOrNone

\* The initial state.
LEMMA InitTypeOK == Init => TypeOK
BY Ids, BlankTypes DEF Init, TypeOK, PC, Closed

\* What an observation leaves of the run that makes it.
LEMMA ObserveTypes ==
    ASSUME TypeOK, NEW a \in Agents, NEW h \in SUBSET Agents, Observe(a, h)
    PROVE  /\ pc' \in [Agents -> PC] /\ handles' \in [Agents -> SUBSET Agents]
           /\ asked' \in [Agents -> BOOLEAN] /\ notices' \in [Agents -> SUBSET Agents]
           /\ carry' \in [Agents -> Carries]
<1>1. asked[a] \in BOOLEAN /\ notices[a] \in SUBSET Agents
  BY DEF TypeOK
<1>2. \A r \in BOOLEAN : EncodeCarryover(h, asked[a], notices[a], r) \in Carries
  BY <1>1 DEF EncodeCarryover, Carries
<1>3. CASE ContinueAsNew(a, h, TRUE)
  <2>1. carry' = [carry EXCEPT ![a] = EncodeCarryover(h, asked[a], notices[a], TRUE)]
    BY <1>3 DEF ContinueAsNew
  <2>2. carry' \in [Agents -> Carries]
    BY <1>2, <2>1 DEF TypeOK
  <2>3. pc' \in [Agents -> PC] /\ handles' \in [Agents -> SUBSET Agents]
    BY <1>3 DEF ContinueAsNew, TypeOK, PC
  <2>4. asked' \in [Agents -> BOOLEAN] /\ notices' \in [Agents -> SUBSET Agents]
    BY <1>3 DEF ContinueAsNew, TypeOK
  <2> QED BY <2>2, <2>3, <2>4
<1>4. CASE ~ContinueAsNew(a, h, TRUE)
  BY <1>4 DEF Observe, TypeOK, PC
<1> QED BY <1>3, <1>4

\* What it leaves of the other agents' runs, and that its own is still one.
LEMMA ObserveIsOwn ==
    ASSUME TypeOK, NEW a \in Agents, NEW h, Observe(a, h)
    PROVE  /\ pc'[a] \in {"cycle", "suspended"}
           /\ \A x \in Agents \ {a} : pc'[x] = pc[x]
<1>1. pc' = [pc EXCEPT ![a] = "cycle"] \/ pc' = [pc EXCEPT ![a] = "suspended"]
  BY DEF Observe, ContinueAsNew
<1> QED BY <1>1 DEF TypeOK

\* Every step keeps the types.
LEMMA TypeStep ==
    ASSUME TypeOK, StartedIsOwn, [Next]_vars
    PROVE  TypeOK'
<1> USE Ids, BlankTypes DEF AgentOrNone
<1>1. ASSUME NEW a \in Agents, HydrateRun(a) PROVE TypeOK'
  BY <1>1 DEF HydrateRun, TypeOK, PC, Closed, activityVars, dbVars, LoopTop, Carries
<1>2. ASSUME NEW a \in Agents, Wake(a) PROVE TypeOK'
  BY <1>2 DEF Wake, TypeOK, PC, Closed, activityVars, dbVars
<1>3. ASSUME NEW a \in Agents, OtherStep(a) PROVE TypeOK'
  BY <1>3, ObserveTypes DEF OtherStep, TypeOK, activityVars, dbVars
<1>4. ASSUME NEW a \in Agents, EndCycle(a) PROVE TypeOK'
  <2>1. CASE ContinueAsNew(a, handles[a], FALSE)
    <3>1. EncodeCarryover(handles[a], asked[a], notices[a], FALSE) \in Carries
      BY DEF EncodeCarryover, Carries, TypeOK
    <3> QED BY <1>4, <2>1, <3>1
      DEF EndCycle, ContinueAsNew, TypeOK, PC, activityVars, dbVars
  <2>2. CASE ~ContinueAsNew(a, handles[a], FALSE)
    BY <1>4, <2>2 DEF EndCycle, LoopTop, TypeOK, PC, activityVars, dbVars
  <2> QED BY <2>1, <2>2
<1>5. ASSUME NEW a \in Agents, NEW c \in Agents, RetireChild(a, c) PROVE TypeOK'
  BY <1>5 DEF RetireChild, TypeOK, PC, Closed, activityVars, dbVars, Jobs, NoJob
<1>6. ASSUME NEW a \in Agents, NEW c \in Agents, NEW tools \in Grants, ReplaceChild(a, c, tools)
      PROVE  TypeOK'
  BY <1>6 DEF ReplaceChild, TypeOK, PC, Closed, activityVars, dbVars, Jobs, NoJob
<1>7. ASSUME NEW a \in Agents, TellChild(a) PROVE TypeOK'
  BY <1>7 DEF TellChild, TypeOK, PC, Closed, activityVars, dbVars
<1>8. ASSUME NEW a \in Agents, DropHandle(a) PROVE TypeOK'
  <2>1. handles[a] \ {job[a].target} \in SUBSET Agents
    BY <1>8 DEF TypeOK, DropHandle
  <2>2. CASE job[a].spawns
    BY <1>8, <2>1, <2>2 DEF DropHandle, TypeOK, PC, dbVars
  <2>3. CASE ~job[a].spawns
    BY <1>8, <2>1, <2>3, ObserveTypes DEF DropHandle, TypeOK, dbVars
  <2> QED BY <2>2, <2>3 DEF TypeOK, Jobs
<1>9. ASSUME NEW a \in Agents, NEW tools \in Grants, SpawnChild(a, tools) PROVE TypeOK'
  BY <1>9 DEF SpawnChild, TypeOK, PC, Closed, activityVars, dbVars, Jobs, NoJob
<1>10. ASSUME NEW a \in Agents, RejectGrant(a) PROVE TypeOK'
  BY <1>10, ObserveTypes DEF RejectGrant, TypeOK, activityVars, dbVars
<1>11. ASSUME NEW a \in Agents, AttemptAddsAgent(a) PROVE TypeOK'
  BY <1>11
  DEF AttemptAddsAgent, TypeOK, PC, Closed, activityVars, dbVars, AddAgent, Minted,
      Attempts
<1>12. ASSUME NEW a \in Agents, AttemptAddsEdge(a) PROVE TypeOK'
  BY <1>12
  DEF AttemptAddsEdge, TypeOK, PC, Closed, activityVars, dbVars, AddEdge, Attempts
<1>13. ASSUME NEW a \in Agents, AttemptFails(a) PROVE TypeOK'
  BY <1>13 DEF AttemptFails, TypeOK, PC, Closed, activityVars, dbVars, Retry
<1>14. ASSUME NEW a \in Agents, AttemptTimesOut(a) PROVE TypeOK'
  BY <1>14
  DEF AttemptTimesOut, TypeOK, PC, Closed, activityVars, dbVars, Retry, Strays, Attempts
<1>15. ASSUME NEW a \in Agents, Registered(a) PROVE TypeOK'
  <2>1. attempt[a].child \in Agents
    BY <1>15 DEF Registered, TypeOK, Attempts
  <2>2. job' \in [Agents -> Jobs]
    BY <1>15, <2>1 DEF Registered, TypeOK, Jobs
  <2>3. attempt' \in [Agents -> Attempts] /\ pc' \in [Agents -> PC]
    BY <1>15 DEF Registered, TypeOK, PC
  <2> QED BY <1>15, <2>2, <2>3 DEF Registered, TypeOK, dbVars
<1>16. ASSUME NEW a \in Agents, StartChild(a) PROVE TypeOK'
  BY <1>16
  DEF StartChild, TypeOK, PC, Closed, activityVars, dbVars, BuildChildInput, Inputs, Jobs
<1>17. ASSUME NEW a \in Agents, StartFails(a) PROVE TypeOK'
  BY <1>17 DEF StartFails, TypeOK, PC, Closed, activityVars, dbVars
<1>18. ASSUME NEW a \in Agents, PushHandle(a) PROVE TypeOK'
  <2>1. handles[a] \cup {job[a].child} \in SUBSET Agents
    BY <1>18 DEF TypeOK, PushHandle, StartedIsOwn, Started
  <2> QED BY <1>18, <2>1, ObserveTypes DEF PushHandle, TypeOK, activityVars, dbVars
<1>19. ASSUME NEW a \in Agents, AskRetire(a) PROVE TypeOK'
  BY <1>19 DEF AskRetire, TypeOK, PC, Closed, activityVars, dbVars
<1>20. ASSUME NEW a \in Agents, PersistRetirement(a) PROVE TypeOK'
  BY <1>20 DEF PersistRetirement, TypeOK, PC, Closed, activityVars, dbVars
<1>21. ASSUME NEW a \in Agents, ReportRetirement(a) PROVE TypeOK'
  BY <1>21 DEF ReportRetirement, TypeOK, PC, Closed, activityVars, dbVars
<1>22. ASSUME NEW a \in Agents, ActivityFails(a) PROVE TypeOK'
  BY <1>22 DEF ActivityFails, TypeOK, PC, Closed, activityVars, dbVars
<1>23. ASSUME NEW st \in strays, StrayAddsAgent(st) PROVE TypeOK'
  BY <1>23 DEF StrayAddsAgent, AddAgent, Minted, Strays, TypeOK
<1>24. ASSUME NEW st \in strays, StrayAddsEdge(st) PROVE TypeOK'
  BY <1>24 DEF StrayAddsEdge, AddEdge, Strays, TypeOK
<1>25. CASE UNCHANGED vars
  BY <1>25 DEF vars, dbVars, activityVars, TypeOK
<1> QED BY <1>1, <1>2, <1>3, <1>4, <1>5, <1>6, <1>7, <1>8, <1>9, <1>10, <1>11, <1>12,
           <1>13, <1>14, <1>15, <1>16, <1>17, <1>18, <1>19, <1>20, <1>21, <1>22, <1>23,
           <1>24, <1>25
  DEF Next, Progress, Choice

-----------------------------------------------------------------------------
(* The invariant.                                                          *)

\* A run that nothing was carried to.
LEMMA NoCarryIsEmpty == NoCarry.handles = {} /\ NoCarry.asked = FALSE
BY DEF NoCarry

\* What an observation changes: nobody else's run, nobody's status, and of its own
\* run the await and the handles.
LEMMA ObserveFacts ==
    ASSUME TypeOK, TypeOK', CarryBetweenRuns,
           NEW a \in Agents, NEW h \in SUBSET Agents, Observe(a, h),
           pc[a] \in {"cycle", "drop", "register", "started"}
    PROVE  /\ \A x \in Agents \ {a} : /\ pc'[x] = pc[x] /\ handles'[x] = handles[x]
                                      /\ asked'[x] = asked[x] /\ carry'[x] = carry[x]
           /\ pc'[a] \in {"cycle", "suspended"}
           /\ HandlesOf(a)' = h
           /\ \A x \in Agents : Status(x)' = Status(x)
           /\ \A x \in Agents \ {a} : HandlesOf(x)' = HandlesOf(x)
           /\ CarryBetweenRuns'
<1>1. carry[a] = NoCarry
  BY DEF CarryBetweenRuns
<1>2. /\ \A x \in Agents \ {a} : /\ pc'[x] = pc[x] /\ handles'[x] = handles[x]
                                 /\ asked'[x] = asked[x] /\ carry'[x] = carry[x]
      /\ pc'[a] \in {"cycle", "suspended"}
  <2>1. CASE ContinueAsNew(a, h, TRUE)
    BY <2>1, ObserveIsOwn DEF ContinueAsNew, TypeOK
  <2>2. CASE ~ContinueAsNew(a, h, TRUE)
    BY <2>2, ObserveIsOwn DEF Observe, TypeOK
  <2> QED BY <2>1, <2>2
<1>3. HandlesOf(a)' = h /\ Status(a)' = Status(a) /\ (pc'[a] = "suspended" => handles'[a] = {})
      /\ (pc'[a] = "cycle" => carry'[a] = NoCarry)
  <2>1. CASE ContinueAsNew(a, h, TRUE)
    BY <1>1, <2>1, NoCarryIsEmpty
    DEF ContinueAsNew, EncodeCarryover, HandlesOf, Status, Closed, TypeOK
  <2>2. CASE ~ContinueAsNew(a, h, TRUE)
    <3>1. pc'[a] = "cycle" /\ handles'[a] = h /\ asked' = asked /\ carry' = carry
      BY <2>2 DEF Observe, TypeOK
    <3> QED BY <1>1, <3>1, NoCarryIsEmpty DEF HandlesOf, Status, Closed
  <2> QED BY <2>1, <2>2
<1>4. \A x \in Agents \ {a} : Status(x)' = Status(x) /\ HandlesOf(x)' = HandlesOf(x)
  BY <1>2 DEF Status, HandlesOf
<1>5. CarryBetweenRuns'
  BY <1>2, <1>3 DEF CarryBetweenRuns
<1> QED BY <1>2, <1>3, <1>4, <1>5

\* The initial state.
LEMMA InitTree == Init => TreeInv
BY Ids
DEF Init, TreeInv, PendingIsFresh, AttemptIsAwaited, CarryBetweenRuns, AbsentIsBlank,
    RowsOfStarted, StartedIsOwn, TargetIsAgent, HandlesAreOwn, StartedIsRegistered,
    ToldBeforeDropped, IsSpawning, Added, Started, HandlesOf, NoAttempt, NoCarry

\* An observation keeps the invariant if no spawn is left behind it and the handles
\* it leaves are of the agent's own children.
LEMMA ObserveKeepsTree ==
    ASSUME TypeOK, TypeOK', TreeInv,
           NEW a \in Agents, NEW h \in SUBSET Agents, Observe(a, h),
           pc[a] \in {"cycle", "drop", "register", "started"},
           \A c \in h : c \in Started /\ input[c].parent = a,
           UNCHANGED <<rows, edges, input>>,
           attempt'[a].at = "idle",
           \A x \in Agents \ {a} : attempt'[x] = attempt[x] /\ job'[x] = job[x]
    PROVE  TreeInv'
<1>1. /\ \A x \in Agents : Status(x)' = Status(x)
      /\ \A x \in Agents \ {a} : pc'[x] = pc[x] /\ HandlesOf(x)' = HandlesOf(x)
      /\ \A x \in Agents \ {a} : handles'[x] = handles[x] /\ asked'[x] = asked[x]
      /\ pc'[a] \in {"cycle", "suspended"} /\ HandlesOf(a)' = h
      /\ CarryBetweenRuns'
  BY ObserveFacts DEF TreeInv
<1>2. ToldBeforeDropped'
  BY <1>1 DEF TypeOK, TreeInv, ToldBeforeDropped, TargetIsAgent
<1>3. HandlesAreOwn'
  BY <1>1 DEF TypeOK, TreeInv, HandlesAreOwn, Started
<1>4. PendingIsFresh' /\ AttemptIsAwaited'
  BY <1>1
  DEF TypeOK, TreeInv, PendingIsFresh, AttemptIsAwaited, IsSpawning, Pending, Added
<1>5. /\ AbsentIsBlank' /\ RowsOfStarted' /\ StartedIsOwn' /\ TargetIsAgent'
      /\ StartedIsRegistered'
  BY <1>1
  DEF TypeOK, TreeInv, AbsentIsBlank, RowsOfStarted, StartedIsOwn, TargetIsAgent,
      StartedIsRegistered, Started
<1> QED BY <1>1, <1>2, <1>3, <1>4, <1>5 DEF TreeInv

\* Every step keeps the invariant.
LEMMA TreeStep ==
    ASSUME TypeOK, TypeOK', TreeInv, [Next]_vars
    PROVE  TreeInv'
<1>1. ASSUME NEW a \in Agents, HydrateRun(a) PROVE TreeInv'
  <2>1. CarryBetweenRuns'
    BY <1>1 DEF HydrateRun, LoopTop, TreeInv, CarryBetweenRuns, TypeOK
  <2>2. \A x \in Agents : HandlesOf(x)' = HandlesOf(x)
    BY <1>1, NoCarryIsEmpty DEF HydrateRun, TreeInv, CarryBetweenRuns, TypeOK, HandlesOf
  <2>3. \A x \in Agents : Status(x)' = "open" => Status(x) = "open"
    BY <1>1, NoCarryIsEmpty DEF HydrateRun, LoopTop, TypeOK, Status, Closed
  <2> QED BY <1>1, <2>1, <2>2, <2>3
    DEF HydrateRun, LoopTop, TypeOK, TreeInv, PendingIsFresh, AttemptIsAwaited,
        AbsentIsBlank, RowsOfStarted, StartedIsOwn, TargetIsAgent, HandlesAreOwn,
        StartedIsRegistered, ToldBeforeDropped, IsSpawning, Pending, Added, Started,
        Closed, dbVars, activityVars
<1>2. ASSUME NEW a \in Agents, Wake(a) PROVE TreeInv'
  <2>1. PendingIsFresh' /\ AttemptIsAwaited'
    BY <1>2
    DEF Wake, TypeOK, TreeInv, PendingIsFresh, AttemptIsAwaited, IsSpawning,
        Pending, Added, NoAttempt, dbVars, activityVars
  <2>2. HandlesAreOwn' /\ ToldBeforeDropped' /\ TargetIsAgent'
    BY <1>2
    DEF Wake, TypeOK, TreeInv, HandlesAreOwn, ToldBeforeDropped, TargetIsAgent,
        HandlesOf, Status, Closed, Started, CarryBetweenRuns, NoCarry, dbVars, activityVars
  <2>3. /\ CarryBetweenRuns' /\ AbsentIsBlank' /\ RowsOfStarted'
        /\ StartedIsOwn' /\ StartedIsRegistered'
    BY <1>2
    DEF Wake, TypeOK, TreeInv, CarryBetweenRuns, AbsentIsBlank, RowsOfStarted,
        StartedIsOwn, StartedIsRegistered, Started, dbVars, activityVars
  <2> QED BY <2>1, <2>2, <2>3 DEF TreeInv
<1>3. ASSUME NEW a \in Agents, OtherStep(a) PROVE TreeInv'
  <2>1. handles[a] \in SUBSET Agents /\ \A c \in handles[a] : c \in Started /\ input[c].parent = a
    BY DEF TypeOK, TreeInv, HandlesAreOwn, HandlesOf
  <2>2. attempt[a].at = "idle"
    BY <1>3 DEF OtherStep, TreeInv, AttemptIsAwaited
  <2> QED BY <1>3, <2>1, <2>2, ObserveKeepsTree DEF OtherStep, dbVars, activityVars
<1>4. ASSUME NEW a \in Agents, EndCycle(a) PROVE TreeInv'
  <2>1. handles[a] \in SUBSET Agents /\ carry[a] = NoCarry /\ attempt[a].at = "idle"
    BY <1>4 DEF EndCycle, TypeOK, TreeInv, CarryBetweenRuns, AttemptIsAwaited
  <2>2. /\ \A x \in Agents : Status(x)' = "open" => Status(x) = "open"
        /\ \A x \in Agents : HandlesOf(x)' = HandlesOf(x)
        /\ CarryBetweenRuns'
    <3>1. CASE ContinueAsNew(a, handles[a], FALSE)
      BY <1>4, <2>1, <3>1, NoCarryIsEmpty
      DEF EndCycle, ContinueAsNew, EncodeCarryover, Status, HandlesOf, CarryBetweenRuns,
          Closed, TypeOK, TreeInv
    <3>2. CASE ~ContinueAsNew(a, handles[a], FALSE)
      BY <1>4, <2>1, <3>2, NoCarryIsEmpty
      DEF EndCycle, LoopTop, Status, HandlesOf, CarryBetweenRuns, Closed, TypeOK, TreeInv
    <3> QED BY <3>1, <3>2
  <2>3. /\ pc'[a] \in {"gate", "persist", "suspended"}
        /\ \A x \in Agents \ {a} : pc'[x] = pc[x] /\ handles'[x] = handles[x] /\ asked'[x] = asked[x]
        /\ UNCHANGED <<rows, edges, attempt, input, job>>
    <3>1. CASE ContinueAsNew(a, handles[a], FALSE)
      BY <1>4, <3>1 DEF EndCycle, ContinueAsNew, TypeOK, dbVars, activityVars
    <3>2. CASE ~ContinueAsNew(a, handles[a], FALSE)
      BY <1>4, <3>2 DEF EndCycle, LoopTop, TypeOK, dbVars, activityVars
    <3> QED BY <3>1, <3>2
  <2>4. ToldBeforeDropped' /\ TargetIsAgent'
    BY <2>2, <2>3 DEF TypeOK, TreeInv, ToldBeforeDropped, TargetIsAgent
  <2>5. /\ HandlesAreOwn' /\ AbsentIsBlank' /\ RowsOfStarted'
        /\ StartedIsOwn' /\ StartedIsRegistered'
    BY <1>4, <2>2, <2>3
    DEF EndCycle, TypeOK, TreeInv, HandlesAreOwn, AbsentIsBlank, RowsOfStarted,
        StartedIsOwn, StartedIsRegistered, Started
  <2>6. PendingIsFresh' /\ AttemptIsAwaited'
    BY <1>4, <2>1, <2>3
    DEF EndCycle, TypeOK, TreeInv, PendingIsFresh, AttemptIsAwaited, IsSpawning, Pending,
        Added
  <2> QED BY <2>2, <2>4, <2>5, <2>6 DEF TreeInv
<1>5. ASSUME NEW a \in Agents, NEW c \in Agents, RetireChild(a, c) PROVE TreeInv'
  <2>1. PendingIsFresh' /\ AttemptIsAwaited'
    BY <1>5
    DEF RetireChild, NoJob, TypeOK, TreeInv, PendingIsFresh, AttemptIsAwaited, IsSpawning,
        Pending, Added, NoAttempt, dbVars, activityVars
  <2>2. HandlesAreOwn' /\ ToldBeforeDropped' /\ TargetIsAgent'
    BY <1>5
    DEF RetireChild, NoJob, TypeOK, TreeInv, HandlesAreOwn, ToldBeforeDropped, TargetIsAgent,
        HandlesOf, Status, Closed, Started, CarryBetweenRuns, NoCarry, dbVars, activityVars
  <2>3. /\ CarryBetweenRuns' /\ AbsentIsBlank' /\ RowsOfStarted'
        /\ StartedIsOwn' /\ StartedIsRegistered'
    BY <1>5
    DEF RetireChild, NoJob, TypeOK, TreeInv, CarryBetweenRuns, AbsentIsBlank, RowsOfStarted,
        StartedIsOwn, StartedIsRegistered, Started, dbVars, activityVars
  <2> QED BY <2>1, <2>2, <2>3 DEF TreeInv
<1>6. ASSUME NEW a \in Agents, NEW c \in Agents, NEW tools \in Grants, ReplaceChild(a, c, tools)
      PROVE  TreeInv'
  <2>1. PendingIsFresh' /\ AttemptIsAwaited'
    BY <1>6
    DEF ReplaceChild, NoJob, TypeOK, TreeInv, PendingIsFresh, AttemptIsAwaited, IsSpawning,
        Pending, Added, NoAttempt, dbVars, activityVars
  <2>2. HandlesAreOwn' /\ ToldBeforeDropped' /\ TargetIsAgent'
    BY <1>6
    DEF ReplaceChild, NoJob, TypeOK, TreeInv, HandlesAreOwn, ToldBeforeDropped, TargetIsAgent,
        HandlesOf, Status, Closed, Started, CarryBetweenRuns, NoCarry, dbVars, activityVars
  <2>3. /\ CarryBetweenRuns' /\ AbsentIsBlank' /\ RowsOfStarted'
        /\ StartedIsOwn' /\ StartedIsRegistered'
    BY <1>6
    DEF ReplaceChild, NoJob, TypeOK, TreeInv, CarryBetweenRuns, AbsentIsBlank, RowsOfStarted,
        StartedIsOwn, StartedIsRegistered, Started, dbVars, activityVars
  <2> QED BY <2>1, <2>2, <2>3 DEF TreeInv
<1>7. ASSUME NEW a \in Agents, TellChild(a) PROVE TreeInv'
  <2> DEFINE c == job[a].target
  <2>1. c \in Agents
    BY <1>7 DEF TellChild, TreeInv, TargetIsAgent
  <2>2. Status(c)' # "open"
    BY <1>7, <2>1
    DEF TellChild, TreeInv, CarryBetweenRuns, Status, Running, Closed, TypeOK
  <2>3. \A x \in Agents : Status(x)' = "open" => Status(x) = "open"
    BY <1>7, <2>1 DEF TellChild, Status, Closed, TypeOK
  <2>4. \A x \in Agents : HandlesOf(x)' = HandlesOf(x)
    BY <1>7 DEF TellChild, HandlesOf
  <2>5. ToldBeforeDropped' /\ TargetIsAgent'
    BY <1>7, <2>1, <2>2, <2>3, <2>4
    DEF TellChild, TypeOK, TreeInv, ToldBeforeDropped, TargetIsAgent
  <2>6. /\ HandlesAreOwn' /\ AbsentIsBlank' /\ RowsOfStarted'
        /\ StartedIsOwn' /\ StartedIsRegistered'
        /\ CarryBetweenRuns'
    BY <1>7, <2>1, <2>4
    DEF TellChild, TypeOK, TreeInv, HandlesAreOwn, AbsentIsBlank, RowsOfStarted,
        StartedIsOwn, StartedIsRegistered, Started, CarryBetweenRuns, Running, dbVars
  <2>7. PendingIsFresh' /\ AttemptIsAwaited'
    BY <1>7
    DEF TellChild, TypeOK, TreeInv, PendingIsFresh, AttemptIsAwaited, IsSpawning, Pending,
        Added, dbVars, activityVars
  <2> QED BY <2>5, <2>6, <2>7 DEF TreeInv
<1>8. ASSUME NEW a \in Agents, DropHandle(a) PROVE TreeInv'
  <2> DEFINE h == handles[a] \ {job[a].target}
  <2>1. h \in SUBSET Agents /\ \A c \in h : c \in Started /\ input[c].parent = a
    BY DEF TypeOK, TreeInv, HandlesAreOwn, HandlesOf
  <2>2. CASE job[a].spawns
    <3>1. /\ handles' = [handles EXCEPT ![a] = h] /\ pc' = [pc EXCEPT ![a] = "register"]
          /\ attempt' = [attempt EXCEPT ![a] = [NoAttempt EXCEPT !.at = "grant"]]
          /\ UNCHANGED <<job, asked, carry, rows, edges, input>>
      BY <1>8, <2>2 DEF DropHandle, dbVars
    <3>2. [NoAttempt EXCEPT !.at = "grant"].at = "grant"
      BY DEF NoAttempt
    <3>3. pc[a] = "drop" /\ carry[a] = NoCarry
      BY <1>8 DEF DropHandle, TreeInv, CarryBetweenRuns
    <3>4. \A x \in Agents : Status(x)' = Status(x)
      BY <3>1, <3>3 DEF Status, Closed, TypeOK
    <3>5. HandlesOf(a)' = h /\ \A x \in Agents \ {a} : HandlesOf(x)' = HandlesOf(x)
      BY <3>1, <3>3, NoCarryIsEmpty DEF HandlesOf, TypeOK
    <3>6. PendingIsFresh' /\ AttemptIsAwaited'
      BY <3>1, <3>2, <3>3
      DEF TypeOK, TreeInv, PendingIsFresh, AttemptIsAwaited, IsSpawning, Pending, Added
    <3>7. ToldBeforeDropped' /\ TargetIsAgent' /\ HandlesAreOwn'
      BY <2>1, <3>1, <3>3, <3>4, <3>5
      DEF TypeOK, TreeInv, ToldBeforeDropped, TargetIsAgent, HandlesAreOwn, Started
    <3>8. /\ AbsentIsBlank' /\ RowsOfStarted' /\ StartedIsOwn'
          /\ StartedIsRegistered' /\ CarryBetweenRuns'
      BY <3>1, <3>3
      DEF TypeOK, TreeInv, AbsentIsBlank, RowsOfStarted, StartedIsOwn,
          StartedIsRegistered, Started, CarryBetweenRuns
    <3> QED BY <3>6, <3>7, <3>8 DEF TreeInv
  <2>3. CASE ~job[a].spawns
    <3>1. /\ attempt'[a].at = "idle" /\ UNCHANGED <<rows, edges, input>> /\ Observe(a, h)
          /\ \A x \in Agents \ {a} : attempt'[x] = attempt[x] /\ job'[x] = job[x]
      BY <1>8, <2>3 DEF DropHandle, TreeInv, AttemptIsAwaited, dbVars, TypeOK
    <3> QED BY <1>8, <2>1, <3>1, ObserveKeepsTree DEF DropHandle
  <2> QED BY <2>2, <2>3 DEF TypeOK, Jobs
<1>9. ASSUME NEW a \in Agents, NEW tools \in Grants, SpawnChild(a, tools) PROVE TreeInv'
  <2>1. PendingIsFresh' /\ AttemptIsAwaited'
    BY <1>9
    DEF SpawnChild, NoJob, TypeOK, TreeInv, PendingIsFresh, AttemptIsAwaited, IsSpawning,
        Pending, Added, NoAttempt, dbVars, activityVars
  <2>2. HandlesAreOwn' /\ ToldBeforeDropped' /\ TargetIsAgent'
    BY <1>9
    DEF SpawnChild, NoJob, TypeOK, TreeInv, HandlesAreOwn, ToldBeforeDropped, TargetIsAgent,
        HandlesOf, Status, Closed, Started, CarryBetweenRuns, NoCarry, dbVars, activityVars
  <2>3. /\ CarryBetweenRuns' /\ AbsentIsBlank' /\ RowsOfStarted'
        /\ StartedIsOwn' /\ StartedIsRegistered'
    BY <1>9
    DEF SpawnChild, NoJob, TypeOK, TreeInv, CarryBetweenRuns, AbsentIsBlank, RowsOfStarted,
        StartedIsOwn, StartedIsRegistered, Started, dbVars, activityVars
  <2> QED BY <2>1, <2>2, <2>3 DEF TreeInv
<1>10. ASSUME NEW a \in Agents, RejectGrant(a) PROVE TreeInv'
  <2>1. handles[a] \in SUBSET Agents /\ \A c \in handles[a] : c \in Started /\ input[c].parent = a
    BY DEF TypeOK, TreeInv, HandlesAreOwn, HandlesOf
  <2>2. /\ attempt'[a].at = "idle" /\ UNCHANGED <<rows, edges, input>>
        /\ \A x \in Agents \ {a} : attempt'[x] = attempt[x] /\ job'[x] = job[x]
    BY <1>10 DEF RejectGrant, NoAttempt, dbVars, TypeOK
  <2> QED BY <1>10, <2>1, <2>2, ObserveKeepsTree DEF RejectGrant
<1>11. ASSUME NEW a \in Agents, AttemptAddsAgent(a) PROVE TreeInv'
  <2>1. PICK c \in Agents : /\ c \notin rows /\ rows' = rows \cup {c}
                            /\ attempt' = [attempt EXCEPT ![a] = [at |-> "edge", child |-> c]]
    BY <1>11 DEF AttemptAddsAgent, Minted, AddAgent
  <2>2. pc[a] = "register" /\ job[a].grant \subseteq GraphTools /\ pc[c] = "none"
        /\ UNCHANGED <<edges, pc, job, input, handles, asked, carry>>
    BY <1>11, <2>1
    DEF AttemptAddsAgent, AddAgent, Granted, TreeInv, AttemptIsAwaited, RowsOfStarted,
        Started
  <2>3. \A b \in Agents : IsSpawning(b) => Pending(b) # c
    BY <2>1 DEF TreeInv, PendingIsFresh
  <2>4. IsSpawning(a)' /\ Pending(a)' = c /\ attempt'[a].at = "edge"
    BY <2>1 DEF TypeOK, IsSpawning, Pending, Added
  <2>5. \A b \in Agents \ {a} : /\ IsSpawning(b)' <=> IsSpawning(b)
                                /\ Pending(b)' = Pending(b) /\ attempt'[b] = attempt[b]
    BY <2>1, <2>2 DEF TypeOK, IsSpawning, Pending, Added
  <2>6. PendingIsFresh'
    BY <2>1, <2>2, <2>3, <2>4, <2>5 DEF TypeOK, TreeInv, PendingIsFresh
  <2>7. AttemptIsAwaited' /\ RowsOfStarted' /\ StartedIsRegistered'
    BY <2>1, <2>2, <2>5
    DEF TypeOK, TreeInv, AttemptIsAwaited, RowsOfStarted, StartedIsRegistered, Started
  <2>8. /\ CarryBetweenRuns' /\ AbsentIsBlank' /\ StartedIsOwn'
        /\ TargetIsAgent' /\ HandlesAreOwn' /\ ToldBeforeDropped'
    BY <2>2
    DEF TreeInv, CarryBetweenRuns, AbsentIsBlank, StartedIsOwn, TargetIsAgent,
        HandlesAreOwn, ToldBeforeDropped, HandlesOf, Status, Started
  <2> QED BY <2>6, <2>7, <2>8 DEF TreeInv
<1>12. ASSUME NEW a \in Agents, AttemptAddsEdge(a) PROVE TreeInv'
  <2>1. PendingIsFresh' /\ AttemptIsAwaited'
    BY <1>12
    DEF AttemptAddsEdge, AddEdge, TypeOK, TreeInv, PendingIsFresh, AttemptIsAwaited, IsSpawning,
        Pending, Added, NoAttempt, dbVars, activityVars
  <2>2. HandlesAreOwn' /\ ToldBeforeDropped' /\ TargetIsAgent'
    BY <1>12
    DEF AttemptAddsEdge, AddEdge, TypeOK, TreeInv, HandlesAreOwn, ToldBeforeDropped, TargetIsAgent,
        HandlesOf, Status, Closed, Started, CarryBetweenRuns, NoCarry, dbVars, activityVars
  <2>3. /\ CarryBetweenRuns' /\ AbsentIsBlank' /\ RowsOfStarted'
        /\ StartedIsOwn' /\ StartedIsRegistered'
    BY <1>12
    DEF AttemptAddsEdge, AddEdge, TypeOK, TreeInv, CarryBetweenRuns, AbsentIsBlank, RowsOfStarted,
        StartedIsOwn, StartedIsRegistered, Started, dbVars, activityVars
  <2> QED BY <2>1, <2>2, <2>3 DEF TreeInv
<1>13. ASSUME NEW a \in Agents, AttemptFails(a) PROVE TreeInv'
  <2>1. PendingIsFresh' /\ AttemptIsAwaited'
    BY <1>13
    DEF AttemptFails, Retry, TypeOK, TreeInv, PendingIsFresh, AttemptIsAwaited, IsSpawning,
        Pending, Added, NoAttempt, dbVars, activityVars
  <2>2. HandlesAreOwn' /\ ToldBeforeDropped' /\ TargetIsAgent'
    BY <1>13
    DEF AttemptFails, Retry, TypeOK, TreeInv, HandlesAreOwn, ToldBeforeDropped, TargetIsAgent,
        HandlesOf, Status, Closed, Started, CarryBetweenRuns, NoCarry, dbVars, activityVars
  <2>3. /\ CarryBetweenRuns' /\ AbsentIsBlank' /\ RowsOfStarted'
        /\ StartedIsOwn' /\ StartedIsRegistered'
    BY <1>13
    DEF AttemptFails, Retry, TypeOK, TreeInv, CarryBetweenRuns, AbsentIsBlank, RowsOfStarted,
        StartedIsOwn, StartedIsRegistered, Started, dbVars, activityVars
  <2> QED BY <2>1, <2>2, <2>3 DEF TreeInv
<1>14. ASSUME NEW a \in Agents, AttemptTimesOut(a) PROVE TreeInv'
  <2>1. PendingIsFresh' /\ AttemptIsAwaited'
    BY <1>14
    DEF AttemptTimesOut, Retry, TypeOK, TreeInv, PendingIsFresh, AttemptIsAwaited, IsSpawning,
        Pending, Added, NoAttempt, dbVars, activityVars
  <2>2. HandlesAreOwn' /\ ToldBeforeDropped' /\ TargetIsAgent'
    BY <1>14
    DEF AttemptTimesOut, Retry, TypeOK, TreeInv, HandlesAreOwn, ToldBeforeDropped, TargetIsAgent,
        HandlesOf, Status, Closed, Started, CarryBetweenRuns, NoCarry, dbVars, activityVars
  <2>3. /\ CarryBetweenRuns' /\ AbsentIsBlank' /\ RowsOfStarted'
        /\ StartedIsOwn' /\ StartedIsRegistered'
    BY <1>14
    DEF AttemptTimesOut, Retry, TypeOK, TreeInv, CarryBetweenRuns, AbsentIsBlank, RowsOfStarted,
        StartedIsOwn, StartedIsRegistered, Started, dbVars, activityVars
  <2> QED BY <2>1, <2>2, <2>3 DEF TreeInv
<1>15. ASSUME NEW a \in Agents, Registered(a) PROVE TreeInv'
  <2>1. PendingIsFresh' /\ AttemptIsAwaited'
    BY <1>15
    DEF Registered, TypeOK, TreeInv, PendingIsFresh, AttemptIsAwaited, IsSpawning,
        Pending, Added, NoAttempt, dbVars, activityVars
  <2>2. HandlesAreOwn' /\ ToldBeforeDropped' /\ TargetIsAgent'
    BY <1>15
    DEF Registered, TypeOK, TreeInv, HandlesAreOwn, ToldBeforeDropped, TargetIsAgent,
        HandlesOf, Status, Closed, Started, CarryBetweenRuns, NoCarry, dbVars, activityVars
  <2>3. /\ CarryBetweenRuns' /\ AbsentIsBlank' /\ RowsOfStarted'
        /\ StartedIsOwn' /\ StartedIsRegistered'
    BY <1>15
    DEF Registered, TypeOK, TreeInv, CarryBetweenRuns, AbsentIsBlank, RowsOfStarted,
        StartedIsOwn, StartedIsRegistered, Started, dbVars, activityVars
  <2> QED BY <2>1, <2>2, <2>3 DEF TreeInv
<1>16. ASSUME NEW a \in Agents, StartChild(a) PROVE TreeInv'
  <2> DEFINE c == job[a].child
  <2>1. pc[a] = "start" /\ attempt[a].at = "idle" /\ carry[a] = NoCarry
    BY <1>16 DEF StartChild, TreeInv, AttemptIsAwaited, CarryBetweenRuns
  <2>2. c \in rows /\ c \in Agents /\ c # a /\ pc[c] = "none" /\ job[a].grant \subseteq GraphTools
        /\ <<a, c>> \in edges /\ \A b \in Agents \ {a} : IsSpawning(b) => Pending(b) # c
    BY <2>1 DEF TreeInv, PendingIsFresh, IsSpawning, Pending, Added, TypeOK
  <2>3. handles[c] = {} /\ asked[c] = FALSE /\ carry[c] = NoCarry
    BY <2>2 DEF TreeInv, AbsentIsBlank, CarryBetweenRuns, TypeOK
  <2>4. /\ pc'[a] = "started" /\ pc'[c] = "gate" /\ \A x \in Agents \ {a, c} : pc'[x] = pc[x]
        /\ input'[c] = [parent |-> a, tools |-> job[a].grant]
        /\ \A x \in Agents \ {c} : input'[x] = input[x]
        /\ UNCHANGED <<rows, edges, attempt, job, handles, asked, carry>>
    BY <1>16, <2>2 DEF StartChild, BuildChildInput, dbVars, activityVars, TypeOK
  <2>5. input'[c].parent = a /\ input'[c].tools = job[a].grant
    BY <2>4
  <2>6. \A x \in Agents : HandlesOf(x)' = HandlesOf(x)
    BY <2>4 DEF HandlesOf
  <2>7. \A x \in Agents : c \notin HandlesOf(x)
    BY <2>2 DEF TreeInv, HandlesAreOwn, Started
  <2>8. \A x \in Agents \ {c} : Status(x)' = Status(x)
    BY <2>1, <2>4 DEF Status, Closed
  <2>9. Started' = Started \cup {c} /\ c \notin Started
    BY <2>1, <2>2, <2>4 DEF Started
  <2>10. CarryBetweenRuns' /\ AbsentIsBlank' /\ TargetIsAgent' /\ AttemptIsAwaited'
    BY <2>1, <2>2, <2>3, <2>4
    DEF TreeInv, CarryBetweenRuns, AbsentIsBlank, TargetIsAgent, AttemptIsAwaited
  <2>11. RowsOfStarted'
    BY <2>2, <2>4, <2>9 DEF TreeInv, RowsOfStarted
  <2>12. StartedIsOwn'
    BY <2>1, <2>2, <2>4, <2>5, <2>9 DEF TreeInv, StartedIsOwn, Started
  <2>13. HandlesAreOwn'
    BY <2>4, <2>6, <2>7, <2>9 DEF TreeInv, HandlesAreOwn, Started, TypeOK
  <2>14. StartedIsRegistered'
    <3>1. a \in Started
      BY <2>1 DEF Started
    <3>2. Started \subseteq Agents
      BY DEF Started
    <3> QED BY <2>2, <2>4, <2>5, <2>9, <3>1, <3>2 DEF TreeInv, StartedIsRegistered
  <2>15. ToldBeforeDropped'
    BY <2>1, <2>4, <2>6, <2>7, <2>8 DEF TreeInv, ToldBeforeDropped, TargetIsAgent
  <2>16. PendingIsFresh'
    <3>1. ~IsSpawning(a)' /\ ~IsSpawning(c)' 
      BY <2>1, <2>2, <2>4 DEF IsSpawning, Added, TreeInv, AttemptIsAwaited
    <3>2. \A b \in Agents \ {a, c} : (IsSpawning(b)' <=> IsSpawning(b)) /\ Pending(b)' = Pending(b)
      BY <2>4 DEF IsSpawning, Pending, Added
    <3>3. ASSUME NEW b \in Agents, IsSpawning(b)
          PROVE  b # a => Pending(b) \in Agents /\ Pending(b) # a /\ Pending(b) # c
      BY <2>1, <2>2, <3>3 DEF TreeInv, PendingIsFresh, TypeOK
    <3> QED BY <2>4, <3>1, <3>2, <3>3 DEF TreeInv, PendingIsFresh
  <2> QED BY <2>10, <2>11, <2>12, <2>13, <2>14, <2>15, <2>16 DEF TreeInv
<1>17. ASSUME NEW a \in Agents, StartFails(a) PROVE TreeInv'
  BY <1>17
  DEF StartFails, TypeOK, TreeInv, PendingIsFresh, AttemptIsAwaited, CarryBetweenRuns,
      AbsentIsBlank, RowsOfStarted, StartedIsOwn, TargetIsAgent, HandlesAreOwn,
      StartedIsRegistered, ToldBeforeDropped, IsSpawning, Pending, Added, Started,
      HandlesOf, Status, NoAttempt, NoCarry, Closed, dbVars, activityVars
<1>18. ASSUME NEW a \in Agents, PushHandle(a) PROVE TreeInv'
  <2>1. handles[a] \in SUBSET Agents /\ \A c \in handles[a] : c \in Started /\ input[c].parent = a
    BY DEF TypeOK, TreeInv, HandlesAreOwn, HandlesOf
  <2>2. job[a].child \in Started /\ input[job[a].child].parent = a
    BY <1>18 DEF PushHandle, TreeInv, StartedIsOwn
  <2>3. /\ attempt'[a].at = "idle" /\ UNCHANGED <<rows, edges, input>>
        /\ \A x \in Agents \ {a} : attempt'[x] = attempt[x] /\ job'[x] = job[x]
    BY <1>18 DEF PushHandle, TreeInv, AttemptIsAwaited, dbVars, activityVars, TypeOK
  <2> QED BY <1>18, <2>1, <2>2, <2>3, ObserveKeepsTree DEF PushHandle, Started
<1>19. ASSUME NEW a \in Agents, AskRetire(a) PROVE TreeInv'
  BY <1>19
  DEF AskRetire, Running, TypeOK, TreeInv, PendingIsFresh, AttemptIsAwaited,
      CarryBetweenRuns, AbsentIsBlank, RowsOfStarted, StartedIsOwn, TargetIsAgent,
      HandlesAreOwn, StartedIsRegistered, ToldBeforeDropped, IsSpawning, Pending, Added,
      Started, HandlesOf, Status, NoAttempt, NoCarry, Closed, dbVars, activityVars
<1>20. ASSUME NEW a \in Agents, PersistRetirement(a) PROVE TreeInv'
  BY <1>20
  DEF PersistRetirement, TypeOK, TreeInv, PendingIsFresh, AttemptIsAwaited,
      CarryBetweenRuns, AbsentIsBlank, RowsOfStarted, StartedIsOwn, TargetIsAgent,
      HandlesAreOwn, StartedIsRegistered, ToldBeforeDropped, IsSpawning, Pending, Added,
      Started, HandlesOf, Status, NoAttempt, NoCarry, Closed, dbVars, activityVars
<1>21. ASSUME NEW a \in Agents, ReportRetirement(a) PROVE TreeInv'
  BY <1>21
  DEF ReportRetirement, Running, TypeOK, TreeInv, PendingIsFresh, AttemptIsAwaited,
      CarryBetweenRuns, AbsentIsBlank, RowsOfStarted, StartedIsOwn, TargetIsAgent,
      HandlesAreOwn, StartedIsRegistered, ToldBeforeDropped, IsSpawning, Pending, Added,
      Started, HandlesOf, Status, NoAttempt, NoCarry, Closed, dbVars, activityVars
<1>22. ASSUME NEW a \in Agents, ActivityFails(a) PROVE TreeInv'
  BY <1>22
  DEF ActivityFails, TypeOK, TreeInv, PendingIsFresh, AttemptIsAwaited, CarryBetweenRuns,
      AbsentIsBlank, RowsOfStarted, StartedIsOwn, TargetIsAgent, HandlesAreOwn,
      StartedIsRegistered, ToldBeforeDropped, IsSpawning, Pending, Added, Started,
      HandlesOf, Status, NoAttempt, NoCarry, Closed, dbVars, activityVars
<1>23. ASSUME NEW st \in strays, StrayAddsAgent(st) PROVE TreeInv'
  BY <1>23
  DEF StrayAddsAgent, AddAgent, Minted, TypeOK, TreeInv, PendingIsFresh, AttemptIsAwaited,
      CarryBetweenRuns, AbsentIsBlank, RowsOfStarted, StartedIsOwn, TargetIsAgent,
      HandlesAreOwn, StartedIsRegistered, ToldBeforeDropped, IsSpawning, Pending, Added,
      Started, HandlesOf, Status, NoAttempt, NoCarry, Closed
<1>24. ASSUME NEW st \in strays, StrayAddsEdge(st) PROVE TreeInv'
  BY <1>24
  DEF StrayAddsEdge, AddEdge, TypeOK, TreeInv, PendingIsFresh, AttemptIsAwaited,
      CarryBetweenRuns, AbsentIsBlank, RowsOfStarted, StartedIsOwn, TargetIsAgent,
      HandlesAreOwn, StartedIsRegistered, ToldBeforeDropped, IsSpawning, Pending, Added,
      Started, HandlesOf, Status, NoAttempt, NoCarry, Closed
<1>25. CASE UNCHANGED vars
  BY <1>25
  DEF vars, TreeInv, PendingIsFresh, AttemptIsAwaited, CarryBetweenRuns, AbsentIsBlank,
      RowsOfStarted, StartedIsOwn, TargetIsAgent, HandlesAreOwn, StartedIsRegistered,
      ToldBeforeDropped, IsSpawning, Pending, Added, Started, HandlesOf, Status, Closed,
      dbVars, activityVars
<1> QED BY <1>1, <1>2, <1>3, <1>4, <1>5, <1>6, <1>7, <1>8, <1>9, <1>10, <1>11, <1>12,
           <1>13, <1>14, <1>15, <1>16, <1>17, <1>18, <1>19, <1>20, <1>21, <1>22, <1>23,
           <1>24, <1>25
  DEF Next, Progress, Choice

\* TypeOK and TreeInv together are inductive.
LEMMA Invariants == Spec => [](TypeOK /\ TreeInv)
<1>1. Init => TypeOK /\ TreeInv
  BY InitTypeOK, InitTree
<1>2. TypeOK /\ TreeInv /\ [Next]_vars => (TypeOK /\ TreeInv)'
  <2>1. TypeOK /\ TreeInv /\ [Next]_vars => TypeOK'
    BY TypeStep DEF TreeInv
  <2> QED BY <2>1, TreeStep
<1> QED BY <1>1, <1>2, PTL DEF Spec

-----------------------------------------------------------------------------
(* The refinement.                                                         *)

\* What the abstract forest sees of a step that changes no status, parent or handle.
LEMMA StutterSeen ==
    ASSUME \A x \in Agents : Status(x)' = Status(x),
           \A x \in Agents : Known(x)' = Known(x),
           UNCHANGED input
    PROVE  UNCHANGED Forest!vars
BY DEF Forest!vars, statusOf, parentOf, knownOf

\* A step after which one agent is on its way out, and that the forest sees nothing
\* else of.
LEMMA AskSeen ==
    ASSUME NEW a \in Agents,
           Status(a) = "open", Status(a)' = "leaving",
           \A x \in Agents \ {a} : Status(x)' = Status(x),
           \A x \in Agents : Known(x)' = Known(x),
           UNCHANGED input
    PROVE  Forest!Next
<1>1. Forest!AskToLeave(a)
  BY DEF Forest!AskToLeave, statusOf, parentOf, knownOf
<1> QED BY <1>1 DEF Forest!Next

\* The two together: at most one agent, if it was open, is asked to leave.
LEMMA SoftStep ==
    ASSUME NEW a \in Agents,
           Status(a)' = Status(a) \/ (Status(a) = "open" /\ Status(a)' = "leaving"),
           \A x \in Agents \ {a} : Status(x)' = Status(x),
           \A x \in Agents : Known(x)' = Known(x),
           UNCHANGED input
    PROVE  [Forest!Next]_Forest!vars
<1>1. CASE Status(a)' = Status(a)
  BY <1>1, StutterSeen
<1>2. CASE Status(a) = "open" /\ Status(a)' = "leaving"
  BY <1>2, AskSeen
<1> QED BY <1>1, <1>2

\* A run that ends.
LEMMA EndSeen ==
    ASSUME NEW a \in Agents,
           Status(a) \in {"open", "leaving"}, Status(a)' = "gone",
           \A x \in Agents \ {a} : Status(x)' = Status(x),
           \A x \in Agents : Known(x)' = Known(x),
           UNCHANGED input
    PROVE  Forest!Next
<1>1. Forest!Leave(a)
  BY DEF Forest!Leave, Forest!Alive, statusOf, parentOf, knownOf
<1> QED BY <1>1 DEF Forest!Next

\* The initial states are the abstract ones.
LEMMA InitRefines == Init => Forest!Init
BY Ids, NoCarryIsEmpty
DEF Init, Forest!Init, statusOf, parentOf, knownOf, Status, Known, HandlesOf, Closed,
   NoInput, Root, NoAgent

\* Every step is one of the forest's, or one it does not see.
LEMMA StepRefines ==
    ASSUME TypeOK, TypeOK', TreeInv, [Next]_vars
    PROVE  [Forest!Next]_Forest!vars
<1>1. ASSUME NEW a \in Agents, HydrateRun(a) PROVE [Forest!Next]_Forest!vars
  <2>1. /\ Status(a)' = Status(a) \/ (Status(a) = "open" /\ Status(a)' = "leaving")
        /\ \A x \in Agents \ {a} : Status(x)' = Status(x)
        /\ UNCHANGED input
    BY <1>1, NoCarryIsEmpty
    DEF HydrateRun, LoopTop, Status, Closed, TypeOK, TreeInv, CarryBetweenRuns
  <2>2. \A x \in Agents : Known(x)' = Known(x)
    BY <1>1, NoCarryIsEmpty
    DEF HydrateRun, LoopTop, Known, HandlesOf, TypeOK, TreeInv, CarryBetweenRuns
  <2> QED BY <2>1, <2>2, SoftStep
<1>2. ASSUME NEW a \in Agents, Wake(a) PROVE [Forest!Next]_Forest!vars
  <2>1. /\ Status(a)' = Status(a) \/ (Status(a) = "open" /\ Status(a)' = "leaving")
        /\ \A x \in Agents \ {a} : Status(x)' = Status(x)
        /\ UNCHANGED input
    BY <1>2, NoCarryIsEmpty DEF Wake, Status, Closed, TypeOK, TreeInv, CarryBetweenRuns
  <2>2. \A x \in Agents : Known(x)' = Known(x)
    BY <1>2, NoCarryIsEmpty DEF Wake, Known, HandlesOf, TypeOK, TreeInv, CarryBetweenRuns
  <2> QED BY <2>1, <2>2, SoftStep
<1>3. ASSUME NEW a \in Agents, OtherStep(a) PROVE [Forest!Next]_Forest!vars
  <2>1. handles[a] \in SUBSET Agents /\ Observe(a, handles[a]) /\ UNCHANGED input
    BY <1>3 DEF OtherStep, TypeOK
  <2>2. pc[a] \in {"cycle", "register"} /\ carry[a] = NoCarry
    BY <1>3 DEF OtherStep, TreeInv, CarryBetweenRuns
  <2>3. \A x \in Agents : Status(x)' = Status(x)
    BY <2>1, <2>2, ObserveFacts DEF TreeInv
  <2>4. \A x \in Agents : Known(x)' = Known(x)
    <3>1. HandlesOf(a) = handles[a]
      BY <2>2, NoCarryIsEmpty DEF HandlesOf, TypeOK
    <3>2. /\ \A x \in Agents : HandlesOf(x)' = HandlesOf(x)
          /\ pc[a] # "started" /\ pc'[a] # "started"
          /\ \A x \in Agents \ {a} : pc'[x] = pc[x] /\ job'[x] = job[x]
      BY <1>3, <2>1, <2>2, <3>1, ObserveFacts DEF OtherStep, TreeInv, TypeOK
    <3> QED BY <3>2 DEF Known
  <2> QED BY <2>1, <2>3, <2>4, StutterSeen
<1>4. ASSUME NEW a \in Agents, EndCycle(a) PROVE [Forest!Next]_Forest!vars
  <2>1. /\ Status(a)' = Status(a) \/ (Status(a) = "open" /\ Status(a)' = "leaving")
        /\ \A x \in Agents \ {a} : Status(x)' = Status(x)
        /\ UNCHANGED input
    BY <1>4, NoCarryIsEmpty
    DEF EndCycle, LoopTop, ContinueAsNew, EncodeCarryover, Status, Closed, TypeOK,
        TreeInv, CarryBetweenRuns
  <2>2. \A x \in Agents : Known(x)' = Known(x)
    BY <1>4, NoCarryIsEmpty
    DEF EndCycle, LoopTop, ContinueAsNew, EncodeCarryover, Known, HandlesOf, TypeOK,
        TreeInv, CarryBetweenRuns
  <2> QED BY <2>1, <2>2, SoftStep
<1>5. ASSUME NEW a \in Agents, NEW c \in Agents, RetireChild(a, c)
      PROVE  [Forest!Next]_Forest!vars
  <2>1. /\ Status(a)' = Status(a) \/ (Status(a) = "open" /\ Status(a)' = "leaving")
        /\ \A x \in Agents \ {a} : Status(x)' = Status(x)
        /\ UNCHANGED input
    BY <1>5, NoCarryIsEmpty DEF RetireChild, Status, Closed, TypeOK
  <2>2. \A x \in Agents : Known(x)' = Known(x)
    BY <1>5, NoCarryIsEmpty DEF RetireChild, Known, HandlesOf, TypeOK
  <2> QED BY <2>1, <2>2, SoftStep
<1>6. ASSUME NEW a \in Agents, NEW c \in Agents, NEW tools \in Grants, ReplaceChild(a, c, tools)
      PROVE  [Forest!Next]_Forest!vars
  <2>1. /\ Status(a)' = Status(a) \/ (Status(a) = "open" /\ Status(a)' = "leaving")
        /\ \A x \in Agents \ {a} : Status(x)' = Status(x)
        /\ UNCHANGED input
    BY <1>6, NoCarryIsEmpty DEF ReplaceChild, Status, Closed, TypeOK
  <2>2. \A x \in Agents : Known(x)' = Known(x)
    BY <1>6, NoCarryIsEmpty DEF ReplaceChild, Known, HandlesOf, TypeOK
  <2> QED BY <2>1, <2>2, SoftStep
<1>7. ASSUME NEW a \in Agents, TellChild(a) PROVE [Forest!Next]_Forest!vars
  <2>1. PICK c \in Agents : c = job[a].target /\ UNCHANGED input
    BY <1>7 DEF TellChild, TreeInv, TargetIsAgent
  <2>2. /\ Status(c)' = Status(c) \/ (Status(c) = "open" /\ Status(c)' = "leaving")
        /\ \A x \in Agents \ {c} : Status(x)' = Status(x)
    BY <1>7, <2>1 DEF TellChild, Running, Status, Closed, TypeOK
  <2>3. \A x \in Agents : Known(x)' = Known(x)
    BY <1>7 DEF TellChild, Known, HandlesOf, TypeOK
  <2> QED BY <2>1, <2>2, <2>3, SoftStep
<1>8. ASSUME NEW a \in Agents, DropHandle(a) PROVE [Forest!Next]_Forest!vars
  <2> DEFINE c == job[a].target
              h == handles[a] \ {c}
  <2>1. /\ c \in Agents /\ h \in SUBSET Agents /\ UNCHANGED input
        /\ pc[a] = "drop" /\ carry[a] = NoCarry
    BY <1>8 DEF DropHandle, TreeInv, TargetIsAgent, CarryBetweenRuns, TypeOK
  <2>2. /\ \A x \in Agents : Status(x)' = Status(x)
        /\ \A x \in Agents \ {a} : HandlesOf(x)' = HandlesOf(x) /\ pc'[x] = pc[x] /\ job'[x] = job[x]
        /\ HandlesOf(a)' = h /\ pc'[a] # "started"
    <3>1. CASE job[a].spawns
      BY <1>8, <2>1, <3>1, NoCarryIsEmpty
      DEF DropHandle, Status, HandlesOf, Closed, TypeOK
    <3>2. CASE ~job[a].spawns
      <4>1. Observe(a, h) /\ \A x \in Agents \ {a} : job'[x] = job[x]
        BY <1>8, <3>2 DEF DropHandle, TypeOK
      <4> QED BY <2>1, <4>1, ObserveFacts DEF TreeInv
    <3> QED BY <3>1, <3>2 DEF TypeOK, Jobs
  <2>3. HandlesOf(a) = handles[a]
    BY <2>1, NoCarryIsEmpty DEF HandlesOf, TypeOK
  <2>4. Known(a)' = Known(a) \ {c} /\ \A x \in Agents \ {a} : Known(x)' = Known(x)
    BY <2>1, <2>2, <2>3 DEF Known
  <2>5. CASE c \in handles[a]
    <3>1. Status(c) # "open" /\ Status(a) \in {"open", "leaving"}
      BY <2>1, <2>3, <2>5, <1>8 DEF TreeInv, ToldBeforeDropped, Status, Closed
    <3>2. Forest!Dismiss(a, c)
      BY <2>1, <2>2, <2>4, <3>1
      DEF Forest!Dismiss, Forest!Alive, statusOf, parentOf, knownOf
    <3> QED BY <2>1, <3>2 DEF Forest!Next
  <2>6. CASE c \notin handles[a]
    <3>1. Known(a)' = Known(a)
      BY <2>1, <2>3, <2>4, <2>6 DEF Known
    <3> QED BY <2>1, <2>2, <2>4, <3>1, StutterSeen
  <2> QED BY <2>5, <2>6
<1>9. ASSUME NEW a \in Agents, NEW tools \in Grants, SpawnChild(a, tools)
      PROVE  [Forest!Next]_Forest!vars
  <2>1. /\ Status(a)' = Status(a) \/ (Status(a) = "open" /\ Status(a)' = "leaving")
        /\ \A x \in Agents \ {a} : Status(x)' = Status(x)
        /\ UNCHANGED input
    BY <1>9, NoCarryIsEmpty DEF SpawnChild, Status, Closed, TypeOK
  <2>2. \A x \in Agents : Known(x)' = Known(x)
    BY <1>9, NoCarryIsEmpty DEF SpawnChild, Known, HandlesOf, TypeOK
  <2> QED BY <2>1, <2>2, SoftStep
<1>10. ASSUME NEW a \in Agents, RejectGrant(a) PROVE [Forest!Next]_Forest!vars
  <2>1. handles[a] \in SUBSET Agents /\ Observe(a, handles[a]) /\ UNCHANGED input
    BY <1>10 DEF RejectGrant, TypeOK
  <2>2. pc[a] \in {"cycle", "register"} /\ carry[a] = NoCarry
    BY <1>10 DEF RejectGrant, TreeInv, CarryBetweenRuns
  <2>3. \A x \in Agents : Status(x)' = Status(x)
    BY <2>1, <2>2, ObserveFacts DEF TreeInv
  <2>4. \A x \in Agents : Known(x)' = Known(x)
    <3>1. HandlesOf(a) = handles[a]
      BY <2>2, NoCarryIsEmpty DEF HandlesOf, TypeOK
    <3>2. /\ \A x \in Agents : HandlesOf(x)' = HandlesOf(x)
          /\ pc[a] # "started" /\ pc'[a] # "started"
          /\ \A x \in Agents \ {a} : pc'[x] = pc[x] /\ job'[x] = job[x]
      BY <1>10, <2>1, <2>2, <3>1, ObserveFacts DEF RejectGrant, TreeInv, TypeOK
    <3> QED BY <3>2 DEF Known
  <2> QED BY <2>1, <2>3, <2>4, StutterSeen
<1>11. ASSUME NEW a \in Agents, AttemptAddsAgent(a) PROVE [Forest!Next]_Forest!vars
  <2>1. /\ Status(a)' = Status(a) \/ (Status(a) = "open" /\ Status(a)' = "leaving")
        /\ \A x \in Agents \ {a} : Status(x)' = Status(x)
        /\ UNCHANGED input
    BY <1>11, NoCarryIsEmpty DEF AttemptAddsAgent, Status, Closed, TypeOK
  <2>2. \A x \in Agents : Known(x)' = Known(x)
    BY <1>11, NoCarryIsEmpty DEF AttemptAddsAgent, Known, HandlesOf, TypeOK
  <2> QED BY <2>1, <2>2, SoftStep
<1>12. ASSUME NEW a \in Agents, AttemptAddsEdge(a) PROVE [Forest!Next]_Forest!vars
  <2>1. /\ Status(a)' = Status(a) \/ (Status(a) = "open" /\ Status(a)' = "leaving")
        /\ \A x \in Agents \ {a} : Status(x)' = Status(x)
        /\ UNCHANGED input
    BY <1>12, NoCarryIsEmpty DEF AttemptAddsEdge, Status, Closed, TypeOK
  <2>2. \A x \in Agents : Known(x)' = Known(x)
    BY <1>12, NoCarryIsEmpty DEF AttemptAddsEdge, Known, HandlesOf, TypeOK
  <2> QED BY <2>1, <2>2, SoftStep
<1>13. ASSUME NEW a \in Agents, AttemptFails(a) PROVE [Forest!Next]_Forest!vars
  <2>1. /\ Status(a)' = Status(a) \/ (Status(a) = "open" /\ Status(a)' = "leaving")
        /\ \A x \in Agents \ {a} : Status(x)' = Status(x)
        /\ UNCHANGED input
    BY <1>13, NoCarryIsEmpty DEF AttemptFails, Retry, Status, Closed, TypeOK
  <2>2. \A x \in Agents : Known(x)' = Known(x)
    BY <1>13, NoCarryIsEmpty DEF AttemptFails, Retry, Known, HandlesOf, TypeOK
  <2> QED BY <2>1, <2>2, SoftStep
<1>14. ASSUME NEW a \in Agents, AttemptTimesOut(a) PROVE [Forest!Next]_Forest!vars
  <2>1. /\ Status(a)' = Status(a) \/ (Status(a) = "open" /\ Status(a)' = "leaving")
        /\ \A x \in Agents \ {a} : Status(x)' = Status(x)
        /\ UNCHANGED input
    BY <1>14, NoCarryIsEmpty DEF AttemptTimesOut, Retry, Status, Closed, TypeOK
  <2>2. \A x \in Agents : Known(x)' = Known(x)
    BY <1>14, NoCarryIsEmpty DEF AttemptTimesOut, Retry, Known, HandlesOf, TypeOK
  <2> QED BY <2>1, <2>2, SoftStep
<1>15. ASSUME NEW a \in Agents, Registered(a) PROVE [Forest!Next]_Forest!vars
  <2>1. /\ Status(a)' = Status(a) \/ (Status(a) = "open" /\ Status(a)' = "leaving")
        /\ \A x \in Agents \ {a} : Status(x)' = Status(x)
        /\ UNCHANGED input
    BY <1>15, NoCarryIsEmpty DEF Registered, Status, Closed, TypeOK
  <2>2. \A x \in Agents : Known(x)' = Known(x)
    BY <1>15, NoCarryIsEmpty DEF Registered, Known, HandlesOf, TypeOK
  <2> QED BY <2>1, <2>2, SoftStep
<1>16. ASSUME NEW a \in Agents, StartChild(a) PROVE [Forest!Next]_Forest!vars
  <2>1. pc[a] = "start" /\ attempt[a].at = "idle" /\ carry[a] = NoCarry
    BY <1>16 DEF StartChild, TreeInv, AttemptIsAwaited, CarryBetweenRuns
  <2>2. PICK c \in Agents : c = job[a].child /\ c # a /\ pc[c] = "none"
    BY <2>1 DEF TreeInv, PendingIsFresh, IsSpawning, Pending, Added, TypeOK
  <2>3. handles[c] = {} /\ asked[c] = FALSE /\ carry[c] = NoCarry
    BY <2>2 DEF TreeInv, AbsentIsBlank, CarryBetweenRuns, TypeOK
  <2>4. /\ pc'[a] = "started" /\ pc'[c] = "gate" /\ \A x \in Agents \ {a, c} : pc'[x] = pc[x]
        /\ input' = [input EXCEPT ![c] = [parent |-> a, tools |-> job[a].grant]]
        /\ UNCHANGED <<job, handles, asked, carry>>
    BY <1>16, <2>2 DEF StartChild, BuildChildInput, TypeOK
  <2>5. /\ Status(a) \in {"open", "leaving"} /\ Status(c) = "absent" /\ Status(c)' = "open"
        /\ \A x \in Agents \ {c} : Status(x)' = Status(x)
    BY <2>1, <2>2, <2>3, <2>4, NoCarryIsEmpty DEF Status, Closed
  <2>6. Known(a)' = Known(a) \cup {c} /\ \A x \in Agents \ {a} : Known(x)' = Known(x)
    BY <2>1, <2>2, <2>4 DEF Known, HandlesOf
  <2>7. statusOf' = [statusOf EXCEPT ![c] = "open"] /\ knownOf' = [knownOf EXCEPT ![a] = @ \cup {c}]
    <3>1. statusOf' = [statusOf EXCEPT ![c] = "open"]
      BY <2>2, <2>5 DEF statusOf
    <3>2. knownOf' = [knownOf EXCEPT ![a] = @ \cup {c}]
      BY <2>6 DEF knownOf
    <3> QED BY <3>1, <3>2
  <2>8. parentOf' = [parentOf EXCEPT ![c] = a]
    BY <2>2, <2>4 DEF parentOf, TypeOK
  <2>9. Forest!Spawn(a, c)
    BY <2>2, <2>5, <2>7, <2>8 DEF Forest!Spawn, Forest!Alive, statusOf
  <2> QED BY <2>2, <2>9 DEF Forest!Next
<1>17. ASSUME NEW a \in Agents, StartFails(a) PROVE [Forest!Next]_Forest!vars
  <2>1. /\ Status(a) \in {"open", "leaving"} /\ Status(a)' = "gone"
        /\ \A x \in Agents \ {a} : Status(x)' = Status(x)
        /\ UNCHANGED input
    BY <1>17 DEF StartFails, Status, Closed, TypeOK
  <2>2. \A x \in Agents : Known(x)' = Known(x)
    BY <1>17 DEF StartFails, Known, HandlesOf, TypeOK
  <2> QED BY <2>1, <2>2, EndSeen
<1>18. ASSUME NEW a \in Agents, PushHandle(a) PROVE [Forest!Next]_Forest!vars
  <2> DEFINE h == handles[a] \cup {job[a].child}
  <2>1. h \in SUBSET Agents /\ Observe(a, h) /\ UNCHANGED input
    BY <1>18 DEF PushHandle, TypeOK, TreeInv, StartedIsOwn, Started
  <2>2. pc[a] = "started" /\ carry[a] = NoCarry
    BY <1>18 DEF PushHandle, TreeInv, CarryBetweenRuns
  <2>3. \A x \in Agents : Status(x)' = Status(x)
    BY <2>1, <2>2, ObserveFacts DEF TreeInv
  <2>4. \A x \in Agents : Known(x)' = Known(x)
    <3>1. Known(a) = h
      BY <2>2, NoCarryIsEmpty DEF Known, HandlesOf, TypeOK
    <3>2. /\ HandlesOf(a)' = h /\ pc'[a] # "started"
          /\ \A x \in Agents \ {a} : HandlesOf(x)' = HandlesOf(x) /\ pc'[x] = pc[x] /\ job'[x] = job[x]
      BY <1>18, <2>1, <2>2, ObserveFacts DEF PushHandle, TreeInv, TypeOK
    <3> QED BY <3>1, <3>2 DEF Known
  <2> QED BY <2>1, <2>3, <2>4, StutterSeen
<1>19. ASSUME NEW a \in Agents, AskRetire(a) PROVE [Forest!Next]_Forest!vars
  <2>1. /\ Status(a)' = Status(a) \/ (Status(a) = "open" /\ Status(a)' = "leaving")
        /\ \A x \in Agents \ {a} : Status(x)' = Status(x)
        /\ UNCHANGED input
    BY <1>19, NoCarryIsEmpty
    DEF AskRetire, Running, Status, Closed, TypeOK, TreeInv, CarryBetweenRuns
  <2>2. \A x \in Agents : Known(x)' = Known(x)
    BY <1>19, NoCarryIsEmpty
    DEF AskRetire, Running, Known, HandlesOf, TypeOK, TreeInv, CarryBetweenRuns
  <2> QED BY <2>1, <2>2, SoftStep
<1>20. ASSUME NEW a \in Agents, PersistRetirement(a) PROVE [Forest!Next]_Forest!vars
  <2>1. /\ Status(a) = "leaving" /\ Status(a)' \in {"leaving", "gone"}
        /\ \A x \in Agents \ {a} : Status(x)' = Status(x)
        /\ UNCHANGED input
    BY <1>20 DEF PersistRetirement, Status, Closed, TypeOK
  <2>2. \A x \in Agents : Known(x)' = Known(x)
    BY <1>20 DEF PersistRetirement, Known, HandlesOf, TypeOK
  <2> QED BY <2>1, <2>2, SoftStep, EndSeen
<1>21. ASSUME NEW a \in Agents, ReportRetirement(a) PROVE [Forest!Next]_Forest!vars
  <2>1. /\ Status(a) \in {"open", "leaving"} /\ Status(a)' = "gone"
        /\ \A x \in Agents \ {a} : Status(x)' = Status(x)
        /\ UNCHANGED input
    BY <1>21 DEF ReportRetirement, Status, Closed, TypeOK
  <2>2. \A x \in Agents : Known(x)' = Known(x)
    BY <1>21 DEF ReportRetirement, Known, HandlesOf, TypeOK
  <2> QED BY <2>1, <2>2, EndSeen
<1>22. ASSUME NEW a \in Agents, ActivityFails(a) PROVE [Forest!Next]_Forest!vars
  <2>1. /\ Status(a) \in {"open", "leaving"} /\ Status(a)' = "gone"
        /\ \A x \in Agents \ {a} : Status(x)' = Status(x)
        /\ UNCHANGED input
    BY <1>22 DEF ActivityFails, Status, Closed, TypeOK
  <2>2. \A x \in Agents : Known(x)' = Known(x)
    BY <1>22 DEF ActivityFails, Known, HandlesOf, TypeOK
  <2> QED BY <2>1, <2>2, EndSeen
<1>23. ASSUME NEW st \in strays, StrayAddsAgent(st) PROVE [Forest!Next]_Forest!vars
  BY <1>23, StutterSeen DEF StrayAddsAgent, Status, Known, HandlesOf, Closed, TypeOK
<1>24. ASSUME NEW st \in strays, StrayAddsEdge(st) PROVE [Forest!Next]_Forest!vars
  BY <1>24, StutterSeen DEF StrayAddsEdge, Status, Known, HandlesOf, Closed, TypeOK
<1>25. CASE UNCHANGED vars
  BY <1>25, StutterSeen DEF vars, Status, Known, HandlesOf, Closed, TypeOK
<1> QED BY <1>1, <1>2, <1>3, <1>4, <1>5, <1>6, <1>7, <1>8, <1>9, <1>10, <1>11, <1>12,
           <1>13, <1>14, <1>15, <1>16, <1>17, <1>18, <1>19, <1>20, <1>21, <1>22, <1>23,
           <1>24, <1>25
  DEF Next, Progress, Choice

-----------------------------------------------------------------------------
(* Counting the duplicates.                                                *)

\* c is the child of a's spawn under way, or of the one a failed in the middle of.
Claims(a, c) ==
    \/ IsSpawning(a) /\ c = Pending(a)
    \/ a \in FailedSpawning /\ c = job[a].child

\* Rows that no spawn answers for, and the timed-out attempts that are yet to add one.
Lost == {c \in rows \ Started : \A a \in Agents : ~Claims(a, c)}
ToMint == {st \in strays : st.at = "grant"}

\* Each is of one failed or timed-out attempt.
LostHaveFaults ==
    /\ IsFiniteSet(strays)
    /\ Cardinality(Lost) + Cardinality(ToMint) <= faults

LEMMA AgentsFinite == IsFiniteSet(Agents)
BY BoundAssumption, FS_Interval DEF Agents

LEMMA CountTypes ==
    ASSUME TypeOK, IsFiniteSet(strays)
    PROVE  /\ IsFiniteSet(Lost) /\ Cardinality(Lost) \in Nat
           /\ IsFiniteSet(ToMint) /\ Cardinality(ToMint) \in Nat
<1>1. Lost \in SUBSET Agents /\ ToMint \in SUBSET strays
  BY DEF Lost, ToMint, TypeOK
<1>2. IsFiniteSet(Lost) /\ IsFiniteSet(ToMint)
  BY <1>1, AgentsFinite, FS_Subset
<1> QED BY <1>2, FS_CardinalityType

\* A set that gains at most one element.
LEMMA GainsOne ==
    ASSUME NEW S, NEW T, NEW x, IsFiniteSet(S), T \subseteq S \cup {x}
    PROVE  /\ IsFiniteSet(T) /\ Cardinality(S) \in Nat /\ Cardinality(T) \in Nat
           /\ Cardinality(T) <= Cardinality(S) + 1
<1>1. IsFiniteSet(S \cup {x}) /\ Cardinality(S \cup {x}) <= Cardinality(S) + 1
      /\ Cardinality(S) \in Nat
  BY FS_AddElement, FS_CardinalityType
<1>2. IsFiniteSet(T) /\ Cardinality(T) <= Cardinality(S \cup {x})
  BY <1>1, FS_Subset
<1>3. Cardinality(T) \in Nat /\ Cardinality(S \cup {x}) \in Nat
  BY <1>1, <1>2, FS_CardinalityType
<1> QED BY <1>1, <1>2, <1>3

\* A set that loses one element, and gains none.
LEMMA LosesOne ==
    ASSUME NEW S, NEW T, NEW x \in S, IsFiniteSet(S), T \subseteq S \ {x}
    PROVE  Cardinality(T) <= Cardinality(S) - 1
<1>1. IsFiniteSet(S \ {x}) /\ Cardinality(S \ {x}) = Cardinality(S) - 1
  BY FS_RemoveElement
<1> QED BY <1>1, FS_Subset

\* A step that loses no row keeps the count.
LEMMA KeepsCount ==
    ASSUME TypeOK, LostHaveFaults, Lost' \subseteq Lost, strays' \subseteq strays,
           faults' = faults
    PROVE  LostHaveFaults'
<1>1. Lost' \in SUBSET Lost /\ ToMint' \in SUBSET ToMint
  BY DEF ToMint
<1>2. Cardinality(Lost') <= Cardinality(Lost) /\ Cardinality(ToMint') <= Cardinality(ToMint)
      /\ IsFiniteSet(strays')
      /\ IsFiniteSet(Lost') /\ IsFiniteSet(ToMint')
  BY <1>1, CountTypes, FS_Subset DEF LostHaveFaults
<1>3. Cardinality(Lost)' = Cardinality(Lost') /\ Cardinality(ToMint)' = Cardinality(ToMint')
  OBVIOUS
<1>4. Cardinality(Lost') \in Nat /\ Cardinality(ToMint') \in Nat
  BY <1>2, FS_CardinalityType
<1> QED BY <1>2, <1>3, <1>4, CountTypes DEF LostHaveFaults, TypeOK

\* A step that adds no row, ends no workflow's existence and drops no claim.
LEMMA KeepsClaims ==
    ASSUME rows' = rows, Started \subseteq Started',
           \A a, c \in Agents : Claims(a, c) => Claims(a, c)' \/ c \in Started',
           TypeOK
    PROVE  Lost' \subseteq Lost
BY DEF Lost, TypeOK

\* A step of one agent's run that is not in the middle of a spawn, before or after.
LEMMA RunKeepsClaims ==
    ASSUME TypeOK, TreeInv, NEW a \in Agents, rows' = rows,
           pc[a] \notin {"none", "start", "failed"}, ~Added(a), pc'[a] # "none",
           \A x \in Agents \ {a} : /\ pc'[x] = pc[x] /\ attempt'[x] = attempt[x]
                                   /\ job'[x] = job[x]
    PROVE  Lost' \subseteq Lost
<1>1. Started \subseteq Started'
  BY DEF Started
<1>2. \A c \in Agents : ~Claims(a, c)
  BY DEF Claims, IsSpawning, FailedSpawning
<1>3. \A x \in Agents \ {a}, c \in Agents : Claims(x, c) => Claims(x, c)'
  BY DEF Claims, IsSpawning, Pending, Added, FailedSpawning
<1> QED BY <1>1, <1>2, <1>3, KeepsClaims

LEMMA CountStep ==
    ASSUME TypeOK, TypeOK', TreeInv, LostHaveFaults, [Next]_vars
    PROVE  LostHaveFaults'
<1> USE DEF dbVars, activityVars
<1>1. ASSUME NEW a \in Agents,
             \/ HydrateRun(a) \/ Wake(a) \/ OtherStep(a) \/ EndCycle(a) \/ TellChild(a)
             \/ DropHandle(a) \/ RejectGrant(a) \/ PushHandle(a) \/ PersistRetirement(a)
             \/ ReportRetirement(a) \/ ActivityFails(a)
             \/ \E tools \in Grants : SpawnChild(a, tools)
             \/ \E c \in Agents : RetireChild(a, c)
             \/ \E c \in Agents, tools \in Grants : ReplaceChild(a, c, tools)
      PROVE  LostHaveFaults'
  <2>1. /\ pc[a] \notin {"none", "start", "failed"} /\ attempt[a].at \in {"idle", "grant"}
    BY <1>1
    DEF HydrateRun, Wake, OtherStep, EndCycle, TellChild, DropHandle, RejectGrant,
        PushHandle, PersistRetirement, ReportRetirement, ActivityFails, SpawnChild,
        RetireChild, ReplaceChild, TreeInv, AttemptIsAwaited
  <2>2. /\ UNCHANGED <<rows, strays, faults>> /\ pc'[a] # "none"
        /\ \A x \in Agents \ {a} : /\ pc'[x] = pc[x] /\ attempt'[x] = attempt[x]
                                   /\ job'[x] = job[x]
    <3> DEFINE Alone == /\ UNCHANGED <<rows, strays, faults>> /\ pc'[a] # "none"
                        /\ \A x \in Agents \ {a} : /\ pc'[x] = pc[x] /\ attempt'[x] = attempt[x]
                                                   /\ job'[x] = job[x]
    <3>1. CASE HydrateRun(a)
      BY <3>1 DEF HydrateRun, LoopTop, TypeOK
    <3>2. CASE Wake(a) \/ TellChild(a)
      BY <3>2 DEF Wake, TellChild, TypeOK
    <3>3. CASE EndCycle(a)
      <4>1. \E p \in {"gate", "persist", "suspended"} : pc' = [pc EXCEPT ![a] = p]
        BY <3>3 DEF EndCycle, ContinueAsNew, LoopTop
      <4> QED BY <3>3, <4>1 DEF EndCycle, TypeOK
    <3>4. CASE OtherStep(a)
      BY <3>4, ObserveIsOwn DEF OtherStep
    <3>5. CASE RejectGrant(a)
      BY <3>5, ObserveIsOwn DEF RejectGrant, TypeOK
    <3>6. CASE PushHandle(a)
      BY <3>6, ObserveIsOwn DEF PushHandle, TypeOK
    <3>7. CASE DropHandle(a)
      <4>1. CASE job[a].spawns
        BY <3>7, <4>1 DEF DropHandle, TypeOK
      <4>2. CASE ~job[a].spawns
        BY <3>7, <4>2, ObserveIsOwn DEF DropHandle, TypeOK
      <4> QED BY <4>1, <4>2
    <3>8. CASE PersistRetirement(a)
      BY <3>8 DEF PersistRetirement, TypeOK
    <3>9. CASE ReportRetirement(a) \/ ActivityFails(a)
      BY <3>9 DEF ReportRetirement, ActivityFails, TypeOK
    <3>10. ASSUME NEW tools \in Grants, SpawnChild(a, tools) PROVE Alone
      BY <3>10 DEF SpawnChild, TypeOK
    <3>11. ASSUME NEW c \in Agents, RetireChild(a, c) PROVE Alone
      BY <3>11 DEF RetireChild, TypeOK
    <3>12. ASSUME NEW c \in Agents, NEW tools \in Grants, ReplaceChild(a, c, tools) PROVE Alone
      BY <3>12 DEF ReplaceChild, TypeOK
    <3> QED BY <1>1, <3>1, <3>2, <3>3, <3>4, <3>5, <3>6, <3>7, <3>8, <3>9, <3>10, <3>11,
               <3>12
  <2>3. Lost' \subseteq Lost
    BY <2>1, <2>2, RunKeepsClaims DEF Added
  <2> QED BY <2>2, <2>3, KeepsCount
<1>2. ASSUME NEW a \in Agents,
             AttemptAddsEdge(a) \/ Registered(a) \/ StartFails(a) \/ AskRetire(a)
      PROVE  LostHaveFaults'
  <2>1. UNCHANGED <<rows, strays, faults>> /\ Started \subseteq Started'
    BY <1>2
    DEF AttemptAddsEdge, AddEdge, Registered, StartFails, AskRetire, Started, TypeOK
  <2>2. ASSUME NEW x \in Agents, NEW c \in Agents, Claims(x, c) PROVE Claims(x, c)'
    <3>1. CASE AttemptAddsEdge(a)
      BY <2>2, <3>1
      DEF AttemptAddsEdge, Claims, IsSpawning, Pending, Added, FailedSpawning, TypeOK, Attempts
    <3>2. CASE Registered(a)
      BY <2>2, <3>2
      DEF Registered, Claims, IsSpawning, Pending, Added, FailedSpawning, NoAttempt, TypeOK, Jobs
    <3>3. CASE StartFails(a)
      <4>1. attempt[a].at = "idle" /\ NoAgent \notin Agents
        BY <3>3, Ids DEF StartFails, TreeInv, AttemptIsAwaited
      <4> QED BY <2>2, <3>3, <4>1
      DEF StartFails, Claims, IsSpawning, Pending, Added, FailedSpawning, TypeOK
    <3>4. CASE AskRetire(a)
      BY <2>2, <3>4 DEF AskRetire, Claims, IsSpawning, Pending, Added, FailedSpawning
    <3> QED BY <1>2, <3>1, <3>2, <3>3, <3>4
  <2>3. Lost' \subseteq Lost
    BY <2>1, <2>2, KeepsClaims
  <2> QED BY <2>1, <2>3, KeepsCount
<1>3. ASSUME NEW a \in Agents, StartChild(a) PROVE LostHaveFaults'
  <2> DEFINE c == job[a].child
  <2>1. /\ UNCHANGED <<rows, strays, faults, attempt, job>>
        /\ pc[a] = "start" /\ attempt[a].at = "idle"
    BY <1>3 DEF StartChild, TreeInv, AttemptIsAwaited
  <2>2. c \in Agents /\ c # a /\ pc[c] = "none" /\ attempt[c].at = "idle"
    BY <2>1 DEF TreeInv, PendingIsFresh, AttemptIsAwaited, IsSpawning, Pending, Added, TypeOK
  <2>3. /\ pc'[a] = "started" /\ pc'[c] = "gate" /\ \A x \in Agents \ {a, c} : pc'[x] = pc[x]
    BY <1>3, <2>2 DEF StartChild, TypeOK
  <2>4. Started \subseteq Started' /\ c \in Started'
    BY <2>2, <2>3 DEF Started
  <2>5. \A x \in Agents \ {a}, d \in Agents : Claims(x, d) => Claims(x, d)'
    BY <2>1, <2>2, <2>3 DEF Claims, IsSpawning, Pending, Added, FailedSpawning
  <2>6. \A d \in Agents : Claims(a, d) => d = c
    BY <2>1 DEF Claims, IsSpawning, Pending, Added
  <2>7. Lost' \subseteq Lost
    BY <2>1, <2>4, <2>5, <2>6, KeepsClaims
  <2> QED BY <2>1, <2>7, KeepsCount
<1>4. ASSUME NEW a \in Agents, AttemptAddsAgent(a) PROVE LostHaveFaults'
  <2>1. PICK c \in Agents : /\ rows' = rows \cup {c}
                            /\ attempt' = [attempt EXCEPT ![a] = [at |-> "edge", child |-> c]]
    BY <1>4 DEF AttemptAddsAgent, AddAgent
  <2>2. /\ attempt[a].at = "grant" /\ pc[a] = "register"
        /\ UNCHANGED <<pc, job, strays, faults>>
    BY <1>4 DEF AttemptAddsAgent, TreeInv, AttemptIsAwaited
  <2>3. Claims(a, c)'
    BY <2>1 DEF Claims, IsSpawning, Pending, Added, TypeOK
  <2>4. \A x, d \in Agents : Claims(x, d) => Claims(x, d)'
    BY <2>1, <2>2 DEF Claims, IsSpawning, Pending, Added, FailedSpawning, TypeOK
  <2>5. Started' = Started
    BY <2>2 DEF Started
  <2>6. Lost' \subseteq Lost
    BY <2>1, <2>3, <2>4, <2>5 DEF Lost, TypeOK
  <2> QED BY <2>2, <2>6, KeepsCount
<1>5. ASSUME NEW a \in Agents, AttemptFails(a) \/ AttemptTimesOut(a) PROVE LostHaveFaults'
  <2> DEFINE c == attempt[a].child
             late == [no |-> faults, parent |-> a, at |-> attempt[a].at, child |-> c]
  <2>1. /\ UNCHANGED <<rows, pc, job>> /\ faults' = faults + 1 /\ pc[a] = "register"
        /\ attempt'[a].at = "grant" /\ \A x \in Agents \ {a} : attempt'[x] = attempt[x]
        /\ attempt[a].at # "idle"
    BY <1>5
    DEF AttemptFails, AttemptTimesOut, Retry, TreeInv, AttemptIsAwaited, NoAttempt, TypeOK
  <2>2. Started' = Started /\ \A x \in Agents \ {a}, d \in Agents : Claims(x, d) => Claims(x, d)'
    BY <2>1 DEF Started, Claims, IsSpawning, Pending, Added, FailedSpawning
  <2>3. \A d \in Agents : Claims(a, d) => Added(a) /\ d = c
    BY <2>1 DEF Claims, IsSpawning, Pending, FailedSpawning
  <2>4. Lost' \subseteq Lost \cup {c} /\ (~Added(a) => Lost' \subseteq Lost)
    BY <2>1, <2>2, <2>3 DEF Lost, TypeOK
  <2>5. strays' \subseteq strays \cup {late} /\ (Added(a) => ToMint' \subseteq ToMint)
    BY <1>5 DEF AttemptFails, AttemptTimesOut, ToMint, Added
  <2>6. ToMint' \subseteq ToMint \cup {late}
    BY <2>5 DEF ToMint
  <2>7. IsFiniteSet(strays')
    BY <2>5, GainsOne DEF LostHaveFaults
  <2>8. /\ Cardinality(Lost') <= Cardinality(Lost) + 1
        /\ ~Added(a) => Cardinality(Lost') <= Cardinality(Lost)
        /\ Cardinality(Lost') \in Nat
    BY <2>4, CountTypes, GainsOne, FS_Subset DEF LostHaveFaults
  <2>9. /\ Cardinality(ToMint') <= Cardinality(ToMint) + 1
        /\ Added(a) => Cardinality(ToMint') <= Cardinality(ToMint)
        /\ Cardinality(ToMint') \in Nat
    <3>1. ToMint \subseteq strays /\ IsFiniteSet(ToMint)
      BY CountTypes, FS_Subset DEF LostHaveFaults, ToMint
    <3>2. Cardinality(ToMint') <= Cardinality(ToMint) + 1 /\ Cardinality(ToMint') \in Nat
      BY <2>6, <3>1, GainsOne
    <3>3. CASE Added(a)
      BY <2>5, <3>1, <3>2, <3>3, FS_Subset
    <3> QED BY <3>2, <3>3
  <2> QED BY <2>1, <2>7, <2>8, <2>9, CountTypes DEF LostHaveFaults, TypeOK
<1>6. ASSUME NEW st \in strays, StrayAddsAgent(st) PROVE LostHaveFaults'
  <2>1. PICK c \in Agents : /\ rows' = rows \cup {c} /\ st.at = "grant"
                            /\ strays' = (strays \ {st}) \cup {[st EXCEPT !.at = "edge", !.child = c]}
    BY <1>6 DEF StrayAddsAgent, AddAgent
  <2>2. UNCHANGED <<pc, job, attempt, faults>>
    BY <1>6 DEF StrayAddsAgent
  <2>3. Lost' \subseteq Lost \cup {c}
    BY <2>1, <2>2 DEF Lost, Started, Claims, IsSpawning, Pending, Added, FailedSpawning
  <2>4. st \in ToMint /\ ToMint' \subseteq ToMint \ {st}
    <3>1. [st EXCEPT !.at = "edge", !.child = c].at = "edge"
      BY <2>1 DEF TypeOK, Strays
    <3> QED BY <2>1, <3>1 DEF ToMint
  <2>5. IsFiniteSet(strays')
    BY <2>1, FS_RemoveElement, FS_AddElement DEF LostHaveFaults
  <2>6. Cardinality(Lost') <= Cardinality(Lost) + 1 /\ Cardinality(Lost') \in Nat
    BY <2>3, CountTypes, GainsOne DEF LostHaveFaults
  <2>7. Cardinality(ToMint') <= Cardinality(ToMint) - 1 /\ Cardinality(ToMint') \in Nat
    <3>1. ToMint' \in SUBSET ToMint
      BY <2>4
    <3>2. IsFiniteSet(ToMint')
      BY <3>1, CountTypes, FS_Subset DEF LostHaveFaults
    <3> QED BY <2>4, <3>2, CountTypes, LosesOne, FS_CardinalityType DEF LostHaveFaults
  <2> QED BY <2>2, <2>5, <2>6, <2>7, CountTypes DEF LostHaveFaults, TypeOK
<1>7. ASSUME NEW st \in strays, StrayAddsEdge(st) PROVE LostHaveFaults'
  <2>1. UNCHANGED <<rows, pc, job, attempt, faults>> /\ strays' \subseteq strays
    BY <1>7 DEF StrayAddsEdge, AddEdge
  <2>2. Lost' \subseteq Lost
    BY <2>1 DEF Lost, Started, Claims, IsSpawning, Pending, Added, FailedSpawning
  <2> QED BY <2>1, <2>2, KeepsCount
<1>8. CASE UNCHANGED vars
  <2>1. Lost' \subseteq Lost
    BY <1>8 DEF vars, Lost, Started, Claims, IsSpawning, Pending, Added, FailedSpawning
  <2> QED BY <1>8, <2>1, KeepsCount DEF vars
<1> QED BY <1>1, <1>2, <1>3, <1>4, <1>5, <1>6, <1>7, <1>8 DEF Next, Progress, Choice

LEMMA InitCount == Init => LostHaveFaults
<1> SUFFICES ASSUME Init PROVE LostHaveFaults
  OBVIOUS
<1>1. Lost = {} /\ ToMint = {} /\ strays = {} /\ faults = 0
  BY Ids DEF Init, Lost, ToMint, Started
<1> QED BY <1>1, FS_EmptySet DEF LostHaveFaults

\* As many agents as the rows they answer for: what a set of agents maps to is no
\* larger than the set, and neither is a part of it.
LEMMA ImageBound ==
    ASSUME NEW S, IsFiniteSet(S), NEW f, f = [x \in S |-> f[x]],
           NEW T, \A y \in T : \E x \in S : f[x] = y
    PROVE  IsFiniteSet(T) /\ Cardinality(T) <= Cardinality(S)
<1> DEFINE R == {x \in S : f[x] \in T}
           g == [x \in R |-> f[x]]
<1>1. R \in SUBSET S
  OBVIOUS
<1>2. IsFiniteSet(R) /\ Cardinality(R) <= Cardinality(S)
  BY <1>1, FS_Subset
<1>3. g \in Surjection(R, T)
  BY DEF Surjection
<1>4. IsFiniteSet(T) /\ Cardinality(T) <= Cardinality(R)
  BY <1>2, <1>3, FS_Surjection
<1>5. Cardinality(T) \in Nat /\ Cardinality(R) \in Nat /\ Cardinality(S) \in Nat
  BY <1>2, <1>4, FS_CardinalityType
<1> QED BY <1>2, <1>4, <1>5

\* The union of two sets has at most the elements of both.
LEMMA UnionBound ==
    ASSUME NEW S, NEW T, IsFiniteSet(S), IsFiniteSet(T)
    PROVE  IsFiniteSet(S \cup T) /\ Cardinality(S \cup T) <= Cardinality(S) + Cardinality(T)
<1>1. IsFiniteSet(S \cup T)
      /\ Cardinality(S \cup T) = Cardinality(S) + Cardinality(T) - Cardinality(S \cap T)
  BY FS_Union
<1>2. S \cap T \in SUBSET S
  OBVIOUS
<1>3. IsFiniteSet(S \cap T)
  BY <1>2, FS_Subset
<1> QED BY <1>1, <1>3, FS_CardinalityType

LEMMA CountBounds ==
    ASSUME TypeOK, TreeInv, LostHaveFaults
    PROVE  DuplicatesHaveACause
<1> DEFINE f == [a \in Spawning |-> Pending(a)]
           g == [a \in FailedSpawning |-> job[a].child]
           P == {c \in rows : \E a \in Spawning : f[a] = c}
           Q == {c \in rows : \E a \in FailedSpawning : g[a] = c}
           U == (Lost \cup P) \cup Q
<1>1. IsFiniteSet(Spawning) /\ IsFiniteSet(FailedSpawning)
  <2>1. Spawning \in SUBSET Agents /\ FailedSpawning \in SUBSET Agents
    BY DEF Spawning, FailedSpawning
  <2> QED BY <2>1, AgentsFinite, FS_Subset
<1>2. IsFiniteSet(P) /\ Cardinality(P) <= Cardinality(Spawning)
  BY <1>1, ImageBound
<1>3. IsFiniteSet(Q) /\ Cardinality(Q) <= Cardinality(FailedSpawning)
  BY <1>1, ImageBound
<1>4. rows \ Started \in SUBSET U
  <2>1. \A a \in Agents : IsSpawning(a) => a \in Spawning
    BY DEF IsSpawning, Added, Spawning, TreeInv, AttemptIsAwaited
  <2>2. \A a \in Agents, c \in rows : Claims(a, c) => c \in P \cup Q
    BY <2>1 DEF Claims
  <2> QED BY <2>2 DEF Lost
<1>5. IsFiniteSet(Lost) /\ Cardinality(Lost) \in Nat
  BY CountTypes DEF LostHaveFaults
<1> HIDE DEF P, Q
<1>6. /\ IsFiniteSet(Lost \cup P) /\ IsFiniteSet(U)
      /\ Cardinality(Lost \cup P) <= Cardinality(Lost) + Cardinality(P)
      /\ Cardinality(U) <= Cardinality(Lost \cup P) + Cardinality(Q)
  BY <1>2, <1>3, <1>5, UnionBound
<1>7. IsFiniteSet(rows \ Started) /\ Cardinality(rows \ Started) <= Cardinality(U)
  BY <1>4, <1>6, FS_Subset
<1>8. /\ Cardinality(rows \ Started) \in Nat /\ Cardinality(U) \in Nat
      /\ Cardinality(Lost \cup P) \in Nat /\ Cardinality(P) \in Nat /\ Cardinality(Q) \in Nat
      /\ Cardinality(Spawning) \in Nat /\ Cardinality(FailedSpawning) \in Nat
  BY <1>1, <1>2, <1>3, <1>6, <1>7, FS_CardinalityType
<1>9. Cardinality(Lost) <= faults
  BY CountTypes DEF LostHaveFaults, TypeOK
<1> QED BY <1>2, <1>3, <1>5, <1>6, <1>7, <1>8, <1>9 DEF DuplicatesHaveACause, TypeOK

-----------------------------------------------------------------------------
(* The theorems.                                                           *)

\* Nothing runs that the structural DB does not show where it is, with the edge from
\* the agent it reports to and tools the graph defines (spawn_child registers a
\* child, and the grant is checked, before its workflow is started).
THEOREM NothingRunsUnregistered == Spec => []StartedIsRegistered
<1>1. TreeInv => StartedIsRegistered
  BY DEF TreeInv
<1> QED BY <1>1, Invariants, PTL

\* What an agent holds a handle to is a child of its own that was started, whatever
\* attempts of its registration were retried.
THEOREM HandlesOwn == Spec => []HandlesAreOwn
<1>1. TreeInv => HandlesAreOwn
  BY DEF TreeInv
<1> QED BY <1>1, Invariants, PTL

\* With its rows, its retried and late attempts, its carryovers and its signals, the
\* tree is a forest whose agents are spawned in one step and dismissed only once told.
THEOREM TreeIsForest == Spec => ImplementsForest
<1>1. Init => Forest!Init
  BY InitRefines
<1>2. TypeOK /\ TypeOK' /\ TreeInv /\ [Next]_vars => [Forest!Next]_Forest!vars
  BY StepRefines
<1> QED BY <1>1, <1>2, Invariants, PTL DEF Spec, ImplementsForest, Forest!Spec

\* The initial forest is the root alone.
LEMMA ForestInit == Forest!Init => Forest!ForestInv
BY DEF Forest!Init, Forest!ForestInv, Forest!TypeOK, Forest!ParentsCameFirst, Forest!NoStrayChild

\* Spawning, asking, dismissing and leaving keep every child of a living parent known.
LEMMA ForestStep ==
    ASSUME Forest!ForestInv, [Forest!Next]_Forest!vars
    PROVE  Forest!ForestInv'
<1> USE DEF Forest!ForestInv, Forest!TypeOK, Forest!ParentsCameFirst, Forest!NoStrayChild,
            Forest!Alive
<1>1. ASSUME NEW p \in Agents, NEW c \in Agents, Forest!Spawn(p, c) PROVE Forest!ForestInv'
  BY <1>1 DEF Forest!Spawn
<1>2. ASSUME NEW p \in Agents, NEW c \in Agents, Forest!Dismiss(p, c) PROVE Forest!ForestInv'
  BY <1>2 DEF Forest!Dismiss
<1>3. ASSUME NEW c \in Agents, Forest!AskToLeave(c) PROVE Forest!ForestInv'
  BY <1>3 DEF Forest!AskToLeave
<1>4. ASSUME NEW c \in Agents, Forest!Leave(c) PROVE Forest!ForestInv'
  BY <1>4 DEF Forest!Leave
<1>5. CASE UNCHANGED Forest!vars
  BY <1>5 DEF Forest!vars
<1> QED BY <1>1, <1>2, <1>3, <1>4, <1>5 DEF Forest!Next

\* No forest strays: a living parent knows every child nobody has asked to leave.
THEOREM NoForestStrays == Forest!Spec => []Forest!NoStrayChild
<1>1. Forest!ForestInv => Forest!NoStrayChild
  BY DEF Forest!ForestInv
<1> QED BY <1>1, ForestInit, ForestStep, PTL DEF Forest!Spec

\* A living agent accounts for every child of its own that nobody has asked to leave.
THEOREM NoChildStrays == Spec => []NoStrayChild
BY NoForestStrays, TreeIsForest, PTL DEF ImplementsForest, NoStrayChild

\* Registration is not idempotent ("a retried activity invocation ... would create a
\* duplicate child row"), and that is all that is wrong with it: however attempts fail,
\* time out and go on, each row with no workflow is of a spawn under way, of a parent
\* that failed in the middle of it, or of one failed or timed-out attempt.
THEOREM DuplicatesCounted == Spec => []DuplicatesHaveACause
<1>1. Init => LostHaveFaults
  BY InitCount
<1>2. TypeOK /\ TypeOK' /\ TreeInv /\ LostHaveFaults /\ [Next]_vars => LostHaveFaults'
  BY CountStep
<1>3. TypeOK /\ TreeInv /\ LostHaveFaults => DuplicatesHaveACause
  BY CountBounds
<1> QED BY <1>1, <1>2, <1>3, Invariants, PTL DEF Spec
=============================================================================
