----------------------------- MODULE CoralApply -----------------------------
(***************************************************************************)
(* coral-apply (crates/coral_graph/src/bin/coral_apply.rs): it validates a *)
(* graph.yaml, creates the graph's rows in one transaction, writes and     *)
(* commits every agent's file system, starts the workflows and signals the *)
(* seed triggers.  Four stores are written one after the other and nothing *)
(* spans them; an invocation may fail or die between any two steps.        *)
(*                                                                         *)
(* Several invocations run beside each other.  Postgres, the Temporal      *)
(* server and the workers that run the workflows are the environment.  A   *)
(* UUID is fresh each time: invocation i creates graph i, whose agents are *)
(* <<i, n>> for the nodes n of its document.                               *)
(***************************************************************************)
EXTENDS GraphYaml

CONSTANTS
    Apply,      \* invocations of coral-apply
    Docs,       \* the documents an invocation may be given
    MaxFaults   \* bound on failing steps and deaths

ASSUME DocAssumption ==
    /\ \A g \in Docs : IsGraphYaml(g)
    /\ \A i \in Apply, g \in Docs : \A n \in Nodes(g) : Absent # <<i, n>>
ASSUME FaultAssumption == MaxFaults \in Nat

VARIABLES
    doc,        \* the file each invocation reads
    validity,   \* parse_and_validate of it, which nothing but the file decides
    stage,      \* where run() is
    applied,    \* the AppliedGraph it got, a Seq([operator_id, agent, parent])
    starts,     \* its WorkflowStarts
    triggers,   \* its ResolvedSeedTriggers
    finished,   \* how many entries of the current loop it has finished
    faults,
    \* Postgres
    rows,       \* committed: [graphs, agents, edges, tools]
    tx,         \* the rows of each invocation's open transaction
    \* the shared FS root
    mandate,    \* agent -> the text of its mandate.md
    commits,    \* agent -> its repository, a Seq([mandate, by])
    \* Temporal
    workflow,   \* workflow -> [input, state, queue, first], first what its first tick drained
    \* history
    dropped     \* graphs the operator has dropped

derived == <<applied, starts, triggers>>
input == <<doc, validity>>
client == <<input, stage, derived, finished>>
db == <<rows, tx>>
fs == <<mandate, commits>>
applyVars == <<client, faults, db, fs, workflow, dropped>>

NoRows == [graphs |-> {}, agents |-> {}, edges |-> {}, tools |-> {}]
Agent == UNION {{<<i, n>> : n \in Nodes(doc[i])} : i \in Apply}
Ended == {"done", "refused", "invalid", "failed", "panicked"}

ApplyInit ==
    /\ doc \in [Apply -> Docs]
    /\ validity = [i \in Apply |-> ParseAndValidate(doc[i])]
    /\ stage = [i \in Apply |-> "load"] /\ applied = [i \in Apply |-> <<>>]
    /\ starts = applied /\ triggers = applied /\ finished = [i \in Apply |-> 0] /\ faults = 0
    /\ rows = NoRows /\ tx = [i \in Apply |-> NoRows]
    /\ mandate = [a \in Agent |-> Absent] /\ commits = [a \in Agent |-> <<>>]
    /\ workflow = [w \in {} |-> Absent]
    /\ dropped = {}

Go(i, to) == stage' = [stage EXCEPT ![i] = to]

\* The end of one entry of a loop over n entries: the next, or on to `to`.
Step(i, n, to) ==
    IF finished[i] + 1 = n THEN Go(i, to) /\ finished' = [finished EXCEPT ![i] = 0]
    ELSE finished' = [finished EXCEPT ![i] = @ + 1] /\ UNCHANGED stage

-----------------------------------------------------------------------------
\* load_graph
LoadGraph(i) ==
    /\ stage[i] = "load"
    /\ Go(i, IF validity[i] = "Ok" THEN "select" ELSE "invalid")
    /\ UNCHANGED <<input, derived, finished, faults, db, fs, workflow, dropped>>

\* create_from_yaml: the transaction begins and looks for the name.
SelectGraph(i) ==
    /\ stage[i] = "select"
    /\ IF \E g \in rows.graphs : g.name = doc[i].name
       THEN Go(i, "refused") ELSE Go(i, "insert")
    /\ UNCHANGED <<input, derived, finished, faults, db, fs, workflow, dropped>>

GraphRow(i) == [id |-> i, name |-> doc[i].name]

\* The INSERT under graphs_name_unique waits for another transaction's row of
\* that name, and fails with 23505 once one is committed.
NameIsPending(i) ==
    \E j \in Apply \ {i} : \E g \in tx[j].graphs : g.name = doc[i].name

InsertGraph(i) ==
    /\ stage[i] = "insert"
    /\ ~ NameIsPending(i)
    /\ IF \E g \in rows.graphs : g.name = doc[i].name
       THEN Go(i, "refused") /\ UNCHANGED tx
       ELSE Go(i, "walk") /\ tx' = [tx EXCEPT ![i] = [NoRows EXCEPT !.graphs = {GraphRow(i)}]]
    /\ UNCHANGED <<input, derived, finished, faults, rows, fs, workflow, dropped>>

\* walk_agent_tree
Walk(i) ==
    LET order == Preorder(doc[i])
    IN  [j \in DOMAIN order |->
            [operator_id |-> doc[i].id[order[j]], agent |-> <<i, order[j]>>,
             parent |-> IF ParentOf(order[j]) = Absent THEN Absent
                        ELSE <<i, ParentOf(order[j])>>]]

\* The rows of the graph, its tools, agents and edges.
RowsOf(i) ==
    LET walked == Range(Walk(i))
    IN  [graphs |-> {GraphRow(i)},
         tools  |-> {[graph |-> i, def |-> d] : d \in Registered(doc[i])},
         agents |-> {[id |-> r.agent, graph |-> i, name |-> r.operator_id] : r \in walked},
         edges  |-> {<<r.parent, r.agent>> : r \in {q \in walked : q.parent # Absent}}]

\* No other session sees them yet.
InsertRows(i) ==
    /\ stage[i] = "walk"
    /\ applied' = [applied EXCEPT ![i] = Walk(i)]
    /\ tx' = [tx EXCEPT ![i] = RowsOf(i)]
    /\ Go(i, "commit")
    /\ UNCHANGED <<input, starts, triggers, finished, faults, rows, fs, workflow, dropped>>

CommitRows(i) ==
    /\ stage[i] = "commit"
    /\ rows' = [graphs |-> rows.graphs \cup tx[i].graphs, tools |-> rows.tools \cup tx[i].tools,
                agents |-> rows.agents \cup tx[i].agents, edges |-> rows.edges \cup tx[i].edges]
    /\ tx' = [tx EXCEPT ![i] = NoRows]
    /\ Go(i, "build")
    /\ UNCHANGED <<input, derived, finished, faults, fs, workflow, dropped>>

\* build_workflow_starts panics over a cadence that does not resolve;
\* yaml_seed_triggers returns an error for an id that is not in the map.
BuildStarts(i) ==
    /\ stage[i] = "build"
    /\ IF \E n \in Nodes(doc[i]) : ~ ResolvesMandate(doc[i], n)
       THEN Go(i, "panicked") /\ UNCHANGED <<starts, triggers>>
       ELSE IF \E t \in Range(doc[i].triggers) : t.agent \notin Range(doc[i].id)
       THEN Go(i, "failed") /\ UNCHANGED <<starts, triggers>>
       ELSE /\ starts' = [starts EXCEPT ![i] = BuildWorkflowStarts(doc[i], applied[i])]
            /\ triggers' = [triggers EXCEPT ![i] = YamlSeedTriggers(doc[i], applied[i])]
            /\ Go(i, "materialize")
    /\ UNCHANGED <<input, applied, finished, faults, db, fs, workflow, dropped>>

-----------------------------------------------------------------------------
\* AgentFs::new_with_storage writes mandate.md when there is none.
OpenFs(a, text) ==
    mandate' = [mandate EXCEPT ![a] = IF @ = Absent THEN text ELSE @]

\* VersionedStorage::commit: a tree identical to HEAD's is not committed.
CommitTree(a, tree) ==
    commits' = [commits EXCEPT
        ![a] = IF @ # <<>> /\ Last(@) = tree THEN @ ELSE Append(@, tree)]

\* materialize_agent_fs
Materialize(i) ==
    /\ stage[i] = "materialize"
    /\ LET start == starts[i][finished[i] + 1]
       IN  OpenFs(start.agent, start.mandate.text)
    /\ Step(i, Len(starts[i]), "seed")
    /\ UNCHANGED <<input, derived, faults, db, commits, workflow, dropped>>

CommitSeed(i) ==
    /\ stage[i] = "seed"
    /\ LET a == starts[i][finished[i] + 1].agent
       IN  CommitTree(a, [mandate |-> mandate[a], ticked |-> FALSE])
    /\ Step(i, Len(starts[i]), "connect")
    /\ UNCHANGED <<input, derived, faults, db, mandate, workflow, dropped>>

BuildTemporalClient(i) ==
    /\ stage[i] = "connect"
    /\ Go(i, "start")
    /\ UNCHANGED <<input, derived, finished, faults, db, fs, workflow, dropped>>

\* The server refuses an id that is in use, and the invocation ends.
StartWorkflow(i) ==
    /\ stage[i] = "start"
    /\ LET start == starts[i][finished[i] + 1]
           w == start.workflow
       IN  IF w \in DOMAIN workflow
           THEN Go(i, "failed") /\ UNCHANGED <<finished, workflow>>
           ELSE /\ workflow' = [v \in DOMAIN workflow \cup {w} |->
                        IF v = w THEN [input |-> start, state |-> "started",
                                       queue |-> <<>>, first |-> <<>>]
                        ELSE workflow[v]]
                /\ Step(i, Len(starts[i]), "signal")
    /\ UNCHANGED <<input, derived, faults, db, fs, dropped>>

\* A signal to a workflow that has closed is an error, and the triggers after
\* it are never sent.
SignalSeed(i) ==
    /\ stage[i] = "signal"
    /\ LET seed == triggers[i][finished[i] + 1]
       IN  IF \A w \in DOMAIN workflow : w = seed.workflow => workflow[w].state = "closed"
           THEN Go(i, "failed") /\ UNCHANGED <<finished, workflow>>
           ELSE /\ workflow' = [workflow EXCEPT ![seed.workflow].queue = Append(@, seed.trigger)]
                /\ Step(i, Len(triggers[i]), "done")
    /\ UNCHANGED <<input, derived, faults, db, fs, dropped>>

Progress(i) ==
    \/ LoadGraph(i) \/ SelectGraph(i) \/ InsertGraph(i) \/ InsertRows(i) \/ CommitRows(i)
    \/ BuildStarts(i) \/ Materialize(i) \/ CommitSeed(i) \/ BuildTemporalClient(i)
    \/ StartWorkflow(i) \/ SignalSeed(i)

\* A step returns an error or the process dies: either way it is gone, and
\* what it did not finish stays as it is.
ApplyFails(i) ==
    /\ stage[i] \notin Ended /\ faults < MaxFaults
    /\ faults' = faults + 1
    /\ Go(i, "failed")
    /\ UNCHANGED <<input, derived, finished, db, fs, workflow, dropped>>

\* Fault: only the transaction of a refused apply is ended.
FaultNoRollback(i) ==
    /\ stage[i] = "refused" /\ tx[i] # NoRows
    /\ tx' = [tx EXCEPT ![i] = NoRows]
    /\ UNCHANGED <<client, faults, rows, fs, workflow, dropped>>

\* Postgres ends the transaction of a client that is gone.
Rollback(i) ==
    /\ stage[i] \in Ended /\ tx[i] # NoRows
    /\ tx' = [tx EXCEPT ![i] = NoRows]
    /\ UNCHANGED <<client, faults, rows, fs, workflow, dropped>>

\* "Drop the existing graph": the operator, over ON DELETE CASCADE.
DropGraph(i) ==
    /\ stage[i] = "failed" /\ \E g \in rows.graphs : g.id = i
    /\ rows' = [graphs |-> {g \in rows.graphs : g.id # i},
                agents |-> {a \in rows.agents : a.graph # i},
                edges  |-> {e \in rows.edges : e[2][1] # i},
                tools  |-> {t \in rows.tools : t.graph # i}]
    /\ dropped' = dropped \cup {i}
    /\ UNCHANGED <<client, faults, tx, fs, workflow>>

\* A worker runs the first tick: it drains the triggers that have arrived,
\* opens the file system and commits the tick.
FirstTick(w) ==
    /\ workflow[w].state = "started"
    /\ workflow' = [workflow EXCEPT ![w] =
            [input |-> @.input, state |-> "running", queue |-> <<>>, first |-> @.queue]]
    /\ LET own == workflow[w].input
       IN  /\ OpenFs(own.agent, own.mandate.text)
           /\ CommitTree(own.agent, [mandate |-> mandate'[own.agent], ticked |-> TRUE])
    /\ UNCHANGED <<client, faults, db, dropped>>

\* An agent may be retired once it has run.
Close(w) ==
    /\ workflow[w].state = "running"
    /\ workflow' = [workflow EXCEPT ![w].state = "closed"]
    /\ UNCHANGED <<client, faults, db, fs, dropped>>

ApplyNext ==
    \/ \E i \in Apply : Progress(i) \/ ApplyFails(i) \/ Rollback(i) \/ DropGraph(i)
    \/ \E w \in DOMAIN workflow : FirstTick(w) \/ Close(w)

\* An invocation that has not failed goes on, and Postgres notices that a
\* client is gone; nothing is assumed of the workers or the operator.
Fairness == \A i \in Apply : WF_applyVars(Progress(i)) /\ WF_applyVars(Rollback(i))

ApplySpec == ApplyInit /\ [][ApplyNext]_applyVars /\ Fairness

-----------------------------------------------------------------------------
AgentsOf(i) == {r.agent : r \in Range(applied[i])}
StartedOf(i) == {w \in DOMAIN workflow : workflow[w].input.agent \in AgentsOf(i)}
Received(w) == workflow[w].first \o workflow[w].queue
Baseline(a) == [mandate |-> a[2], ticked |-> FALSE]

\* What runs is what was written down before it.  A workflow belongs to an
\* agents row of its own, its parent_handle names the parent of that agent's
\* edge, which was started before it, and no other graph has its graph's name
\* ("coral apply is CREATE-only"), unless the operator dropped the graph.  And
\* every agent of its graph, started or not, has its own mandate.md as the first
\* commit of its repository: no half of a graph is dispatched.
StartedFromRows ==
    \A w \in DOMAIN workflow :
        LET own == workflow[w].input
        IN  /\ w = own.agent
            /\ own.parent # Absent => own.parent \in DOMAIN workflow
            /\ \A a \in AgentsOf(w[1]) : commits[a] # <<>> /\ commits[a][1] = Baseline(a)
            /\ \/ w[1] \in dropped
               \/ /\ \E r \in rows.agents : r.id = w
                  /\ {e \in rows.edges : e[2] = w} =
                        (IF own.parent = Absent THEN {} ELSE {<<own.parent, w>>})
                  /\ \A g \in rows.graphs : g.name = doc[w[1]].name => g.id = w[1]

\* Seed triggers arrive in the order of the file, none before the last
\* workflow of the graph is started, and none twice.
InOrder(seeds) == \A p, q \in DOMAIN seeds : p < q => seeds[p] < seeds[q]
SeedsInOrder ==
    \A i \in Apply : \E n \in 0 .. Len(doc[i].triggers) :
        /\ n > 0 => StartedOf(i) = AgentsOf(i)
        /\ \A w \in StartedOf(i) :
            /\ InOrder(Received(w))
            /\ Range(Received(w)) = {j \in 1 .. n : doc[i].triggers[j].agent = doc[i].id[w[2]]}

\* Every invocation ends, also when it waits for the row of another that died.
EveryApplyEnds == \A i \in Apply : <>(stage[i] \in Ended)
=============================================================================
