# Coral Engine in TLA+

A verification project for the Rust workspace under `src/` (crates `coral_node`,
`coral_temporal`, `coral_graph`, `coral_worker`): agents that run an LLM-driven
loop for as long as they live, on Temporal, with their memory on an agent file
system and the structure of their graph in a database.

Checking it:

    tlasany AgentWorkflow.tla
    tlc -workers 2 -config AgentWorkflow_agent.cfg MCAgentWorkflow.tla
    tlapm AgentWorkflow_proofs.tla

Every run of `PROJECT.json` is one `.cfg` with the `MC*` module it names.  A run
marked `violation` finds what its finding describes.

## 1. The system

### Components

| component | source | state | operations | what is hard | what makes it correct |
|---|---|---|---|---|---|
| agent workflow | `coral_temporal/src/workflow.rs` | signal queues, retirement request, `next_wake`, cumulative counters, cycle counter, the open session, `in_flight` and the carryover of a continue-as-new | signal handlers, wake gate, drain, decide / log / execute step, force-idle, mid-cycle and boundary continue-as-new, commit, retire | handlers interleave at every await; a run ends and another begins in the middle of a cycle; activities fail for good | each signal reaches one cycle, once and in order; each step is logged and executed once; each cycle is committed once; retirement is honoured first, and is final |
| wake timing | `coral_node/src/{scheduler,trigger}.rs` | none | `arm_self_wake`, trigger ordering | an agent of `never` cadence is woken by signals only | whatever must wake an agent does |
| quiescence GC | `coral_temporal/src/quiescence.rs`, `coral_worker/src/reaper.rs` | per graph: last digest, stable-since, retired set | list, describe and query each agent, debounce, signal `retire`, tombstone | samples are taken at different times, signals are in flight, agents come and go, calls fail, the worker restarts | only a graph at a fixpoint is retired; a tombstoned graph is on its way out; a finished graph is reaped in the end |
| activities | `coral_temporal/src/activities.rs` | none of their own | `build_seed`, `decide_step`, `execute_tool`, `append_decision_log`, `commit_tick`, `apply_fs_ops`, `persist_output`, `reconcile_children`, `register_child…`, `persist_retirement` | retried after partial completion, possibly beside an attempt that timed out | a retry converges; provenance is exact |
| agent tree | `workflow.rs` (spawn, retire, replace), `activities.rs` | `child_handles`, agents and edges rows | spawn = register then start; retire = signal then forget; replace = retire then spawn | three stores change one after the other; a child may be gone when it is signalled | a tree and the workflows of it agree; no agent is left with nobody to retire it |
| in-process host | `coral_node/src/{agent,agent_core}.rs` | trigger queue, tick, failure budgets, health | the select loop, one cycle, budget accounting | a timer and producers race; failures come in batches | a cycle ends `Unhealthy` exactly when its own budget is spent, or decide failed |
| trigger queue | `coral_node/src/trigger_queue.rs` | unbounded channel, staging buffer | send, push, wait, drain ordered | a wait that loses the race has staged a trigger | none is lost or repeated, order is kept within a class |
| health tracker | `coral_node/src/health.rs` | `health.json`, archive | open, begin tick, record failure, transition, archive | a crash between archive and live file | the state on disk is the state the loop resumes with |
| agent file system | `coral_node/src/fs.rs` | evidence, notes, outputs, decisions, the two tail objects | record evidence, apply ops, persist output, read recent | get-modify-put on the tails with parallel writers; open rebuilds them | the tail is exact below its capacity, and recent at it |
| storage backends | `coral_node/src/storage/*` | files, an in-memory map, one git repository per agent | get, put, put-if-absent, list, commit | a crash between two system calls; concurrent commits | put is atomic, put-if-absent is exclusive |
| structural DB | `coral_graph/src/store.rs` | graphs, agents, edges, tools, file_index, citations | single statements, one transaction per created graph | unique constraints under retry | idempotent writes are idempotent |
| graph.yaml | `coral_graph/src/yaml.rs` | none | parse, validate, order | one id may be used twice, by siblings and by cousins | only acyclic single-parent graphs pass, and what is derived from one is a tree |
| coral-apply | `coral_graph/src/bin/coral_apply.rs` | none of its own | DB transaction, materialize, seed commit, start parents-first, seed triggers | a crash or an error between any two | a graph is wholly applied or can be applied again |
| worker | `coral_temporal/src/worker.rs`, `coral_worker/src/bin/worker.rs` | install-once statics | boot, serve, interrupt, drain | interrupts and failures at any stage | success is earned; nothing keeps a process that is to end |
| tool registry and MCP | `coral_node/src/{tools.rs,mcp/*}`, `coral_worker/src/tool_provider.rs` | cached registry per graph | register, build, gate a call | first-wins names; a dead server stays cached | an agent calls only what it was granted |
| LLM decide | `coral_node/src/decide_llm/*` | per-tick statistics | prompt, call, parse, one corrective retry | statistics shared by the agents of a worker | a decision that leaves it is well-formed |
| model clients | `coral_node/src/model_client/*` | none | messages to the wire, responses from it | parallel calls, corrections | a request answers every call that was made |
| data types | `coral_node/src/{decision,mandate,trigger}.rs` …, `coral_temporal/src/types.rs` … | none | encode, decode | a later release reads what an earlier one wrote | what is missing is read as what is safe |
| command-line hosts | `coral_node/src/bin/*`, `coral_temporal/src/bin/*` | a directory per invocation | parse, boot, feed, exit | concurrent invocations, racing shutdowns | directories are never shared; success is earned |

### How they interact

`coral-apply` writes the graph to the DB and the file systems and starts one
workflow per agent.  A workflow calls activities and awaits each of them; activities
write the agent's file system and the DB.  A child signals `ChildOutput` and
`ChildRetired` to its parent, a parent signals `retire` to a child, an operator
signals overrides and mandate patches.  The reaper, one per worker, queries every
workflow on a timer and signals `retire` to a graph that has come to rest.  The
in-process host runs the same agent core with no Temporal, one task per agent.

## 2. The modules

| module | models | state |
|---|---|---|
| `AgentWorkflow`, `SignalHandOff` | the durable loop of `workflow.rs`; what an agent promises to whoever signals it | implements it; proved |
| `GraphReaper` | sweep, debounce, retirement, over a graph of small agents | proved, but for liveness |
| `OutputPropagation` | `persist_output`, `reconcile_children`, `ChildOutput` over two stores | proved |
| `InProcessAgent` | the in-process loop, its trigger queue, retry budget and health record, across crashes | proved, but for liveness |
| `AgentTree`, `AgentForest` | spawn, retire and replace over rows, workflows and handles; the same with neither retries nor messages | implements it; proved |
| `AgentPaths`, `AgentFiles`, `RecentNotes` | path rules, the steps that use the agent's files, notes with their sidecar | proved |
| `AgentStep` = `LlmDecide` + `ToolDispatch` (+ `ModelWire`, `DecisionSchema`) | the steps of a cycle, from the request to the observation | proved, but for liveness |
| `GraphYaml`, `CoralApply` | the document and the program that applies it | proved, but for liveness |
| `LocalStorage`, `AgentGit`, `KeyStore` | the disk, the repository over it, and what a storage promises | implements it; proved |
| `StructuralDb` | the statements of `store.rs` under retries and a drop | provenance and keys proved |
| `Payload`, `DurableTypes`, `DurablePayloads` | serde's rules, every type that outlives a process, release upgrades | proved |
| `CommandLine`, `NodeHost` | the node-run programs and one-shot tools | proved, but for liveness |
| `WorkerHost` | the worker daemon and temporal-smoke | proved, but for liveness |
| `*_proofs` | theorems about the module of that name; `Durable_proofs` about `LocalStorage`, `AgentGit`, `StructuralDb` and `DurablePayloads`, `Binaries_proofs` about the programs a person starts: `InProcessAgent`, `NodeHost`, `WorkerHost` and `CoralApply` with `GraphYaml` | |
| `MC*` | instances for TLC | |

`MCAgentFs`, `MCDurable` and `MCHosts` put components that do not touch each other
into one run, each moving while the others are at rest in a fixed state.  One state
space is shared, nothing is composed; a property of one part is checked over all
behaviours of that part.

### 2.1 AgentWorkflow

One action is the code between two awaits of `AgentWorkflow::run`, so that signal
handlers interleave exactly where the SDK lets them.  `pc` names the await the run
is at; `LoopTop` is the code every cycle starts with (hydration, step cap,
retirement peek) and is a helper of the actions that reach it, because nothing is
awaited in between.  `Wake` is the gate and the drain, `SeedBuilt`, `Decide`,
`LogDecision`, `Execute…`, `ForceIdle`, `CommitCycle` the steps of a cycle,
`MidCycleContinueAsNew` and `EncodeCarryover` the two ways a run hands over,
`PersistRetirement` and `NotifyParent` the retire path.  `ActivityFails` is the `?`
on an activity result.  A retried attempt of an idempotent activity is a stutter.

Temporal is external: it buffers signals between a continue-as-new and the new
run's first task, raises `continue_as_new_suggested` when it likes, and retries.
`HandlersFirst` leaves open whether the SDK dispatches the signals of a new run's
first activation before or after it polls `run()`: nothing under `src/` settles it.
If it dispatches them first, `hydrate_from_carryover` assigns the carried queues
over theirs and they are lost: with the constant TRUE, `HandOffProgress` fails and
`ExactlyOnceHandOff` is vacuous.  All that is said of hand-off is for the other order.

Two abstractions to know of: a drain that finds nothing stands for
`ScheduledWake`; `child_handles` and `last_output_id`, which are carried but guard
nothing here, are left to `AgentTree` and `OutputPropagation`.

| run | asks | answer |
|---|---|---|
| `workflow_agent` | is each signal handed over exactly once, in order, each step logged and executed once, wherever continue-as-new falls; is `SignalHandOff` implemented; does a retirement end a `never` agent, and does the hand-off make progress? | yes |
| `workflow_forceidle` | does a force-idled `never` agent resume promptly, as its comment says? | no: past the first tick nothing arms the timer |

Bounds.  `StepCap` 2 and `CycleRunawayFuse` 3 give cycles before, at and after each
limit, and a continue-as-new inside a cycle, at its boundary and after another.
Two signals in one bucket and one in each of the others suffice for loss,
repetition and reordering, since a signal is compared only with itself and its
successor; the theorems lift the bound for the safety part.  The agent has cadence
`never` and a parent, as nothing then wakes it but signals and its exit must tell
somebody.

Fairness.  Weak fairness of the run's own steps: Temporal keeps scheduling a
workflow task that can make progress and retries an activity.  It asks nothing of
signals or of the timer of an agent that has armed none.

### 2.2 GraphReaper

Agents are reduced to what `observe_graph` reads (`pending`, `observed`, first
cycle done, cycle open) and to what can wake them.  A sweep is `StartSweep` (list,
read `now`), one `SampleAgent` for each agent, `Observe` (digest, debounce,
verdict), `SignalRetire` for each, `FinishRetire` (tombstone).  Time is discrete
and kept as ages, so that no clock grows; `MaxDelay`, `SweepTime` and `WaveMargin`
relate the three times the debounce depends on.

`reaper_star` asks whether a verdict is sound and whoever is listed reaped in the
end, with a root and two children that are seeded or spawned meanwhile, delays, a
slow sweep and one fault.  Both hold when `WaveMargin > MaxDelay + SweepTime`, which the
run is at (3, 1, 1); at (2, 1, 1) TLC finds a graph retired with a wake still coming.
There are three exceptions.

- `RetiresOnlyFixpoints` excepts verdicts that miss an agent, because they can be
  wrong: an agent spawned after one sweep listed the rows may have closed before
  the next describes it.  It enters no digest, so no change of membership resets the
  clock, and its last signal wakes a parent that was already sampled (`reaper.rs` 179).
- `ListedAgentsAreReaped` excepts a row whose workflow was never started: no sweep
  can describe it, and so none retires the graph.
- It also excepts whoever a tombstone hides.  Of a root and two children, one child
  takes its retirement request first and its `ChildRetired` wakes the root, which
  spawns the other before its own request comes.  Every signal lands, so the graph is
  tombstoned and the newcomer, which nobody signalled, runs on until the worker
  restarts.  `listed` is the rows the tombstoning sweep knew, and the property
  promises the end of those: without `Hidden` TLC finds this run of three agents.

Bounds.  Three agents are a signal, its receiver and a bystander who may be spawned
at any time.  The agents take two steps in all if the root is alone at first, one if
a child is seeded too (`MaxSteps`, on top of which any cycle may end, fail or retire):
an output that wakes the root, a spawn, a retirement, or two of these in turn.
`list_agents_in_graph` lists rows by age, so that a seeded row is visited before a
spawned one and a parent before its spawned child (`Oldest`).  `MaxFaults` counts the failed calls of the reaper and
restarts of its worker.  A signal is asynchronous, while the sender awaits its
acceptance, which over-approximates.  Left out: operator signals (the reaper works
on graphs whose triggers are exhausted), several reapers, agents with a cadence.
One bucket stands for three.

Fairness.  Weak fairness of each agent, of delivery and of the reaper: Temporal
and a `tokio` interval.  Strong fairness of `TimePasses`, because time is held
back while a deadline is due.  `TimePasses` waits for a gate that can open, since
a wakeable workflow is dispatched at once compared with a wave margin.

### 2.3 OutputPropagation

The state is the two stores (`output`, `index`, `evidence`, `citations`), and one
activity at a time for each agent, as a list of writes that an attempt goes
through.  `AttemptFails` starts the next attempt and throws the old one
away or lets it run on beside, which is what a start-to-close timeout does to an
activity that watches no cancellation; `outlived` records that such an attempt was
still running when its activity had ended.  A body is its own blob sha and
`OutputId`; evidence of an agent's own tools and the id the parent named are left
out, as no guard reads them.

`output_pair` asks whether a citation pins what was read, the stores converge,
edges are complete, and the parent is told of the current Output.  Yes; the stores
and the parent as long as no attempt outlives its activity.

Bounds.  One child with two bodies and two Outputs lets it change, and change back,
between the parent's read, record and citation; two reconciliations make an old
and a new record; one failed attempt falls between any two writes.

"Both stores are idempotent, so a retried activity converges" (`activities.rs` 514)
needs that condition: drop `a \notin outlived` from `StoresConverge` and TLC finds an
attempt that timed out between its two writes, and whose `file_index` write lands
after the whole of the agent's next Output.

### 2.4 InProcessAgent

`pc` names where `Agent::run` is: `top` (the cap), `gate` (the biased select),
`elapsed` (the timer arm was taken, nothing pushed yet), `drain`, `decide` (the inner
loop), `recovering` (between `archive_current` and `write_healthy`), `retired`, and
`down` when there is no process.  Staging buffer and channel are one sequence,
`inbox`: a single task reads both, buffer first, and a `wait_nonempty` that is dropped
has either taken nothing or staged what it took.  A producer may send between the
elapsed deadline and the push, so a `ScheduledWake` can meet a queue with work.

A health state is the number of its incident.  `health.json` is `live`, `archive` is
indexed by the second in the file's name.  `atomic_write` is one step: its rename
is atomic, and a torn temporary is never read.  An error that `?` returns from
`run()` writes nothing more and is the same as `Crash`.  `begin_tick` is called for
every cycle; its doc comment, which says that corrections skip it, describes
synthetic-correction triggers the loop no longer has.

`inprocess_host` asks whether each trigger reaches a cycle, once and in the order of
the queue (`HandedInOrder`: one overtakes another, in its batch or over several, only
if its class goes first), the budget is that of the cycle and the kind, and health and
archive survive a crash anywhere.  Yes.  The stable sort of `drain_ordered` is
`SortByClass`, by the number of those that go first.

Bounds.  The agent has cadence `never`, so that its first wait races the timer and
its later ones have no timer to fall back on.  Two triggers of one class show order
within it, a third overtakes them.  Two cycles of two steps, budgets of one and
batches of two give failures below, at and past a budget, within one step and over
two, and in the next cycle.  Two incidents in two seconds are in the same second or
not; one crash falls anywhere, and the process after it has triggers of its own.

"Filenames are unique because a tracker can only have one Unhealthy incident at a
time" (`health.rs` 381): the name has seconds precision, so an incident that follows
the recovery of another within its second replaces it in the archive.
`RecoveredAreArchived`, which `ArchiveComplete` proves, states that exception.

Fairness.  Weak fairness of the process's own steps: it is scheduled,
its model and its tools answer, and its timer fires.  Nothing is asked of
producers, of the clock or of a restart.

### 2.5 AgentTree and AgentForest

Every agent runs the loop of `AgentWorkflow`, cut down to the awaits that concern
the tree: its gate, one `OtherStep` for what leaves the tree alone, and the steps of
`SpawnChild`, `RetireChild` and `ReplaceChild`.  `register_child_in_structural_db` is
four awaits of its own (check the agent, check the grant, add the row, add the
edge), in an `attempt` that may fail, or time out and go on as one of the `strays`; each
mints an id of its own.  A continue-as-new carries handles, the request to retire
and undrained notices.  The halves of an `AgentRef` (agent and workflow) are taken
to be of one agent.

`AgentForest` is what all this promises: a child appears alive and known to its
parent in one step, an agent is asked to leave before its parent forgets it, and
who leaves stays gone.  `ImplementsForest` is the refinement, seen through `Status`,
`parent` and `Known`.  `NoStrayChild`, that a living parent knows every child of its own
that nobody has asked to leave, follows from it (`NoChildStrays`) and needs no run.

`tree_grow` checks it with a root and two descendants, one fault, a tool and a grant
that is good or names a tool the graph lacks.  `DuplicatesHaveACause`: a row with
no workflow is of a spawn under way, a parent that failed in the middle of one, or
a failed attempt.  `NobodyLingers`: who is asked to leave does.

Bounds.  Three agents are the least in which one is child and parent, or two are
siblings, one replacing the other.  One fault makes a duplicate row or a stray.

Fairness.  Weak fairness of whatever a run waits for and of a gate that a signal
has opened; strong fairness of `EndCycle`, because a cycle may go through any number
of continue-as-news and the runaway fuse counts its steps over all of them.
Nothing makes an agent spawn, or retire of itself.

### 2.6 AgentStep

`LlmDecide` is `decide_step`: render the session, ask, parse, ask once more with a
correction.  `ModelWire` has the two vendors' translations, where a message is its
role and its blocks and text is left out: each says which message of the request a turn
becomes, by its place, rather than build the list.  `DecisionSchema` is `parse_decision` with
the required fields of every variant.  `ToolDispatch` is a batch of `execute_tool`
activities: the registry of the graph, built under a mutex by whichever call finds
the cache empty, the gate on granted definitions, the server, the evidence record
and its sidecar.  Slot `Stray` holds an attempt that timed out and goes on.

`AgentStep` joins them: seed, decide, dispatch, observe, decide again.  What a
decision does other than call tools is one action, `ExecuteOther`; of the session
the last observation is kept, on which alone the next request's shape depends.

`step_cycle` asks whether requests answer every tool call of the conversation,
whether only a cause fails the workflow, whether only tools of granted definitions
run, how much of the evidence sidecar parallel calls can lose, and whether the
workflow always comes to its next decision.

The sidecar is where the answer is not a plain yes.  Each call gets it, adds its entry
and puts it back, beside the others of its batch ("single-writer-per-agent is the
engine-wide contract", `fs.rs` 1128), so that entries are lost.  `OldRecordsStayListed`
says which: those of the batch itself.  `before` is the evidence at the dispatch, and all
of it is listed from the moment a call has opened the file system, which compares the
sidecar with a LIST and rebuilds it.  What an earlier batch lost comes back so, and no
put of this one takes it away again, although a rebuild may write a listing older than
the puts between.  An attempt of an earlier batch that timed out and runs on (`late`)
may, since it puts back what it read before.

Bounds.  Two servers that advertise one name, with the agent granted the second, and
three boots (the default of two vendors, a vendor that is not there, a worker with
one client); responses of up to
two calls, well-formed or not; two tries, one fault.

Fairness.  Temporal runs what is scheduled; vendor, storage and handshake answer in
the end.  A hung call of an MCP server is not among the faults: rmcp waits for it
for ever, and `execute_tool` with it until its timeout, again and again.

### 2.7 AgentPaths, AgentFiles and RecentNotes

A path of the model is a sequence of components as `std::path` yields them, and
`AgentPaths` has the rules each operation takes it by.  `AgentFiles` walks through
steps of an agent over directories as `LocalStorage` has them: a step answers with an
observation, or fails and is attempted again.  `by` says who wrote a file.

`RecentNotes` looks closer at notes and `notes/_tail.json`.  A batch of
`rewrite_fs` is a loop of `ChangeObject` and `ChangeTail`, and may fail before either:
the durable host then opens the file system, which reconciles the
sidecar, and replays the whole batch; the in-process host ends, and the next process
opens it and knows of no batch.  `BuildSeed` is the open, if there is one, the window
and the pinned status note.  A note is its rank among names, which is all the
rebuild looks at, and `Ascending` lists a set of them by rank; `overflowed` and `lapsed`
are history.

| run | asks | answer |
|---|---|---|
| `agent_fs` | does the model write notes only, do citations hold, does a refused batch leave nothing, is the seed's index of notes true under both hosts? | yes, the index with two exceptions |
| `agent_fs_wedge` | is every path of the model that cannot be followed folded into a correction? | no: on disk some are I/O errors, which are retried for ever |

Bounds.  Four steps let a record be made, cited and then attacked.  Paths are good
ones, ones with `.`, `..` or `/`, ones that end in a sidecar or look like a temporary
file, ones through a file and ones that name a directory.  Two claims share a slug.
Four notes, a sidecar of three and a window of two have the real order `Shown <
TAIL_K < notes`; batches of two and two failures hit one batch twice.

Two sentences of the code hold for the durable host only.  "Sub-capacity: the tail
is the complete set, so exact" (`fs.rs` 1043): in a process that overflowed the
sidecar and then deleted a listed note, the seed denies the notes that fell off,
until the next process.  "Stale tail entries pointing to deleted files are dropped
silently by the read path" (469): `recent_window` does not, and a process that died
between a delete and its entry leaves a name that every later seed shows.
`SeedIndexIsTrue` states both exceptions; without either, TLC finds these.

### 2.8 GraphYaml and CoralApply

A document's agents are nodes, so that two may carry one id; a node is its position, the
path from the list of roots, so that the recursion every traversal makes is an order of
positions (`Precedes`) and its output that order's list (`Preorder`).  `GraphYaml` gives a
document's errors, and what is derived from a valid one.  An invocation of `CoralApply` validates,
selects the name, inserts (and waits when another's open transaction holds it),
commits, writes and commits each file system, starts the workflows parents first
and signals the triggers.  `ApplyFails` is an error or a death between any two steps,
`Rollback` Postgres noticing that a client is gone, `DropGraph` the operator.

`apply_pair` runs two invocations beside each other, each with any of 17 documents
(two shapes of one graph, and one for every error), with two faults, while workers
tick and retire what was started.  Whatever runs has its rows, its parent and a
committed mandate; triggers arrive in order, once, after the last start; every
invocation ends.

Fairness.  An invocation that has not failed goes on, and Postgres ends the
transaction of a client that is gone.  Nothing is asked of workers or operator.

### 2.9 LocalStorage, AgentGit, StructuralDb and the payloads

`LocalStorage` is the on-disk backend, system call by system call: `put` writes a
temporary and renames, `put_if_absent` creates under the final name and then fills,
`list` pages.  `AgentGit` lays the per-agent repository over it, where a commit that
timed out overlaps its retry: both stage, write the index and move HEAD.  `KeyStore` is what
the in-memory backend does, with the one licence the disk needs: `put_if_absent` may
claim its key in one step and fill it in another.  `ImplementsKeyStore` is the
refinement.  Taken as given: the file system keeps what was `fsync`ed and the names
of renamed files (nothing syncs the directory after the rename, `local.rs` 109); a worker in
a container is always pid 1, so a temporary's name may recur.

`StructuralDb` has the statements that create, cascade and cite, each its own
transaction; a statement whose answer was lost is sent again with another id, and
an operator drops the graph beside.  `now()` is when a transaction began, not when
it was executed.

In `Payload` a type is what derive makes of it: its values, what each release writes
for a value, what is read from a payload, and what a missing field of it is.  Types are
put together of types by operators named for the attributes (`Struct`, `Tagged`, `Opt`,
`Default`, `Sparse`, `Later`), so that `DurableTypes` reads like the declarations it
models, of every type that outlives a process.  `DurablePayloads` writes a value by this
release or an older one, reads it, and lets the reader write it again.  `kept` is what a
type should leave of a value, stated beside `write` and `read` and not from them.
`Data` is whatever values and payloads may be: TLC takes anything, and the proof says
what it needs.

`durable` asks: does a tick hold what the keys resolved to; does the disk implement
`KeyStore`; is what was read what was written; is what an older release left out
read as what is safe; is no citation lost, moved or doubled?  Yes, but that durations
lose their microseconds, and what of them exceeds `u64::MAX` milliseconds, once.

Bounds.  Two keys, one per kind of write, two values, two callers and two overlapping
commits, four operations, one fault.  Two clients with two statements and a retry.  A value of every
type, with each field that a later release added present or missing, read twice; of
the durations, one that has microseconds and one that is saturated (`MaxMillis` is 4).  Values, tasks and commits are symmetric.

### 2.10 NodeHost, WorkerHost and the command lines

`CommandLine` is what each binary makes of its argv and of its fixtures.  A
`NodeHost` invocation parses, loads, takes its directory, opens, connects, feeds its
agent and exits; it is a process beside others on one disk and clock.  The agent is
reduced to its return.  `WorkerHost` has the worker daemon and temporal-smoke with
its driver: boot steps in order, handles that are installed once, an interrupt at
any point, and a driver, a worker and three workflows that end in any order.  Every call of
the driver may fail, `get_result` also while its workflow still runs (`GetResultFails`,
which no fairness demands).

`hosts` runs every command line of up to three chunks against the usage text, two
concurrent invocations of node-run-llm, and each daemon in every environment.
`OwnDirectory`: no two invocations share a directory, in one millisecond or with a
clock set back.  `SuccessIsEarned`: exit 0 means everything it should have done was
done.  `EveryHostEnds`: what is to end does; a worker daemon that nobody interrupts is
not to.

Fairness.  Steps of a process that is scheduled and whose calls answer.  Nothing
makes an agent retire, an operator interrupt or a command line be entered.

## 3. What is proved

Each proof is of the inductive invariant first, checked with TLC before it was
proved, then one step for each action.  The assumptions are the named `ASSUME`s of
each module: that constants are of their kinds and bounds natural numbers.

`AgentWorkflow_proofs` holds for every set of signals, cap and fuse.

- `TypeCorrect`.  `TypeOK` is not inductive: that the step counter stays under the
  fuse depends on what the carryover says at each `pc`.  `TypeInv` adds `ControlInv`,
  which relates `pc`, the session, the carryover and the retirement request.
- `CommitsExact`: the number of commits is the number of closed cycles, by a case
  on the actions that move either.
- `TrailIsExact`: `TrailInv` adds `LogLen`, what the log of the open cycle must be
  at each `pc`, across the carryover.
- `HandOffExact` and `CountersExact`: every step either receives one signal, drains
  the queues into a cycle, or moves queues between struct, carryover and buffer;
  the three classes are lemmas, and each preserves the concatenation of the
  closed cycles, the open one and the queues.  They need
  `~HandlersFirst`, without which hydration loses signals.
- `RetirementFinal`, `RetirementFirst`: action properties, from `TypeInv`.
- `HandOffRefinement`: the initial states and steps of `AgentWorkflow` are those of
  `SignalHandOff` under the mapping, or stutter; same assumption.

`OutputPropagation_proofs` holds for all children, bodies, Outputs,
reconciliations and failed or late attempts.

- `PinsExact`, `IndexNeverAhead`: `PinInv` adds to the properties what
  an attempt carries (`Sound`): a body its agent's file has held, citations of
  evidence that exists, records of what a child's file has held.  Files and evidence
  only grow in history (`Grows`), so a sound attempt stays sound however late it is.
- `StoresAgree`, `EdgesAreComplete`, `ParentIsCurrent`: `EndInv`, for each agent, says
  what has been written once the current attempt is at each stage (`OnItsWay`), and
  that no attempt, current or late, writes for another activity than the one its
  run waits for, as long as none has outlived its own (`InStep`).  A step of one
  agent is invisible to the others but for the citations (`StepIsLocal`).

`AgentTree_proofs` holds for every number of agents, fault bound, set of tools and
set of grants.

- `NothingRunsUnregistered`, `HandlesOwn`: `TreeInv` adds to the types that the row a spawn has
  added and not started belongs to it alone (`PendingIsFresh`), that an attempt is awaited by its own
  agent (`AttemptIsAwaited`), that a carryover exists only between two runs
  (`CarryBetweenRuns`), that an agent never started has told nothing (`AbsentIsBlank`),
  and that the target of a retirement is told before it is dropped (`ToldBeforeDropped`).
- `TreeIsForest`: under `TreeInv` every action is one step of `AgentForest` or a stutter
  (`StepRefines`).  It covers `Spec`, so `FairSpec` too.
- `NoChildStrays`: `AgentForest` proves `NoForestStrays` of itself, from the fact that a
  parent comes to be before its children do; `AgentTree` inherits it through the refinement.

- `DuplicatesCounted`: `LostHaveFaults` counts.  The rows nobody claims, and the late
  attempts that may still add one, are together no more than the faults so far; an
  attempt that fails moves what it has added from claimed to lost, and a late one that
  adds a row trades the one for the other.

`GraphReaper_proofs` holds for every tree of agents, seed, step and fault bound, and all
times with `WaveMargin > MaxDelay + SweepTime` (`MarginCoversWave`).

- `DigestsAreTrue`: `ReaperInv` says that a sample was true when taken; that the graph a
  digest was stamped on is `Intact`, whatever is on its way being no younger than the
  stamp less one sweep, or is `Disturbed`, which it stays; and that once a sweep starts
  a margin after the stamp, a disturbed graph has `Caught` it: each member that moved
  is still to be sampled or was sampled as moved.  `RetiresOnlyFixpoints` alone is
  not inductive, as it says nothing of what the digest knows.
- `VerdictsAreSafe`: at the verdict no member can be caught, so the graph is intact, and
  what is on its way would be older than `MaxDelay`.

`AgentStep_proofs` holds for all tool rows and grants, batches, tries, contents, answers
and faults.  `StepsAreSound` is the invariant, `StepInv`, in four parts.

- The registry: who holds the mutex builds, and names are attributed to the defs of the
  server that serves them (`RegistryIsTrue`).  `GrantsAreKept` and `ServersRunOnce` follow.
- The evidence: sidecar, attempts and observations know of records that are there
  (`EvidenceIsThere`), as none is removed: `EvidenceIsNeverInvented`.  `OldRecordsAreKept`
  is not inductive, since what an attempt will put is what it listed or read before:
  `BatchIsListed` adds that this has the records from before the batch as well.
- The decision: a conversation at its correction last heard what did not parse
  (`TalkIsTrue`).  `FailuresHaveACause` follows from it.
- The requests: a turn that calls tools is followed by the turn with their results
  (`Answered`).  The prompt is such a conversation, the corrective turns keep it one
  (`CorrectionIsAnswered`), and `AnthropicAnswers` and `CohereAnswers` say that the
  translation brings the results to where the vendor looks: `RequestsAreAnswered`, for
  contents of any length, with calls anywhere among the text.

`AgentFiles_proofs` holds for all requests whose paths are sequences of components.
`FilesInv` adds to the properties that a step has its request and no answer yet, that
until its first op is applied files are as they were before it (`UntouchedSoFar`), and what is
cited is a record.  That a path `NotesKey` accepts lies under `notes/` and is no sidecar
(`WritableIsNote`), and an accepted citation under `evidence/`, are lemmas about
`AgentPaths`: a path without `..` is its own key.

- `NotesAreTheModels`, `CitedRecordsStay`, `CorrectionsLeaveNothing`: from `FilesInv`.
- `RecordsAreWrittenOnce`: an action property, from the lemma of what a step may write.
- `SeedIndexHolds`: `SeedIndexIsTrue` of `RecentNotes`, for all notes, sidecar caps, windows,
  batches and failures.  `NotesInv` bounds how far sidecar and notes are apart.  In-process it is
  the note being changed.  Durable, entries of deleted notes survive a failed attempt and, when
  no note is missing, also the open before the retry; all of them are among what the attempt has
  still to delete (`ToDelete`), which is what replaying the batch from its start is good for.  An open
  leaves no note out, or a sidecar that is full (`OpenIs`), the case in which the seed's count
  is a lower bound.  `NotesInv` has been checked by TLC over the states of `agent_fs`.

`Durable_proofs` holds for all keys, values, callers, pages, commits, clients, statements
and faults, and for all values of the durable types.

- `DiskKeepsContract`: `LocalStorage` implements `KeyStore`.  `StorageInv` says that a call
  is at a step of its operation and that a temporary that was written holds its call's
  value, which is why the rename is the moment a `put` happens; `ListingInv`, that a key
  that was there all the time is in a page or still to come.  Temporaries are taken
  to have names that are nobody's key (`NameAssumption`).
- `TicksAreSnapshots`: `CommitInv` says what a quiet attempt has staged at each step, however
  many others overlap it; that the index holds keys alone, though a crash may leave
  any of them in it, is what makes the tree those of the directory.
- `SchemaIsKept`: every row hangs from one that is there, and keys are unique;
  `DbInv` adds that an id about to be written is nobody else's, in a row or under way.
- `CitationsAreKept`: citations only grow while their agents are there.
- `OlderIsReadConservatively`, `PayloadsAreCarried`: by composition, and with no induction
  over types, since a type is made of types that were proved about before.  `Carries` says
  that what any release writes of a type is read as a value of which everything is kept,
  and what this one writes as what is kept of it; `Exact`, that every release writes the
  type alike and nothing is lost; `Solid`, that nothing is written as null, without which
  an `Option` of it would be read as none.  Each operator of `Payload` keeps them
  (`StructCarries`, `TaggedCarries`, `OptCarries`, `VecCarries`, `PlainCarries`), and each
  durable type has them (`EveryTypeCarries`).  A field that was added later is read as it
  was or as its default (`FieldIsRead`), which for the flags of a snapshot is not
  quiescent, for tools is none, and for what a carryover has is only the cycle in flight.
  `PayloadInv` adds what is on its way: written by some release from what was held.
  The hypothesis of both, `DataClosed`, is that `Data` is closed under the sequences and records that
  serde makes.  There are such sets: the least one has numbers, truth values, strings and
  all functions from finitely many numbers and names to its members.

`Binaries_proofs` holds for all triggers, budgets, fuses, caps, batches, incidents and
crashes of the in-process agent, all invocations of node-run-llm, all environments of the
daemons, and all invocations of coral-apply on all documents of any size and depth.

- `BudgetExact`: `BudgetInv` equates, while a cycle is open, the slots spent and the
  failures of the cycle; `SpendCounts` is the arithmetic of a batch that runs over.
- `HealthRestartSafe`, `ArchiveComplete`, `ArchiveFirst`: `HealthInv` says that the live
  file holds the last incident until it was recovered from, and that between the two
  writes of a recovery the archive has it.
- `TriggersKeepOrder`: `MailInv` is about three sequences, what was sent, what waits and
  what was handed out.  What waits is in the order it was sent in, and may follow all
  that was handed out.  The places of the sort are a bijection, and what goes first has a
  lower one (`PlacesAre`), so a batch has the triggers that waited and keeps to the order
  (`SortIs`, `DrainKeepsMail`).
- `DirectoriesAreOwn`: `RootsAreTaken` adds that a taken root exists, and is named for its
  moment or for the moment and its invocation.
- `UsageIsAccepted`: a parser goes over argv once and its usage speaks of the line as a
  whole, so the proof is an induction over the tokens.  A reading (`Reads`) takes some
  tokens as flags that have the next token as their value; `Agrees` says what the loop
  has gathered by a token, given a reading: which flag waits, which options were given, how many
  positional arguments there are, and a refusal if an option was met twice or a value was bad.
  `StepAgrees` is the step.  Whatever divides a line as the usage says is a reading
  (`DivisionReads`), and a loop that ends without refusal has found one
  (`FindsReading`).  Nothing is used of the values but that some are refused.  The argv
  are taken to be sequences of strings (`ArgvAssumption`).  The library's induction
  theorems cannot be instantiated; this one is the least element of a set of numbers
  (`Least`, `Induction`), and the loop is a recursive function, which `GatheredIs` defines.
- `ExitsAreEarned`: `SmokeInv` says what the driver has seen at each of its steps, which is
  never ahead of the workflows it waited for; `BootInv` that the handles installed are
  exactly those of the boot steps done.  From the second also `ReadyToServe`, which no run
  states: neither daemon exits by a panic of a second install or of a missing handle, and a
  worker that serves has all five and a default provider with a key.
- `RunningIsWritten`, `SeedsArriveInOrder`, `ValidFilesAreBuilt`: `ApplyInv`, one part for each
  thing an invocation leaves behind.  `StagesInv` ties what has been derived to the stage;
  `RowsInv` says whose rows there are, committed or in a transaction, and that one name is
  held once; `FilesInv` that an agent's file and first commit are its own, whoever opened it
  first; `FlowsInv` that a workflow is of a graph whose rows and files are written, its
  parent's being there; `SeedsInv` that the first triggers, and no other, have arrived.  `FilesInv`
  is inductive only with `FlowsInv`: an agent that ticks commits too, and is known not to be
  first only because nothing starts before the last seed commit.
  The lemmas they rest on are about the document.  `Precedes` is a total order of positions and `Rank`
  numbers them, so that the walk visits every agent once and after its parent
  (`WalkOrder`).  What `validate` accepts has unique ids, cadences that resolve and triggers
  with an agent (`ValidIs`), so that both maps of what is derived, in which the last entry
  of an id wins, give each agent back itself (`Lookups`, `Derived`): without that check
  `coral-apply` would start a workflow under another's name.

Only model-checked is what is about liveness (`RetireHonoured`, `HandOffProgress`,
`ListedAgentsAreReaped`, `TriggersReachACycle`, `EveryApplyEnds`, `NobodyLingers`, `StepsEnd`,
`EveryHostEnds`), which the prover does not reach.

## 4. Divergences met

Two are kept as runs that find them (`workflow_forceidle`, `agent_fs_wedge`).  The
following were found by runs of the same modules and are stated as exceptions of
the properties, or are outside what they say.

- *A never-started agent keeps its graph.*  "A false negative … self-corrects on the
  next sweep" (`quiescence.rs` 12).  The row of an agent whose workflow never started
  (`workflow.rs` 1401) makes describe fail on every sweep.  Exception of
  `ListedAgentsAreReaped`.
- *A tombstoned graph may not be leaving.*  "Only tombstone the graph if every retire
  signal landed" (`reaper.rs` 125).  An agent signalled first sends `ChildRetired` to a
  parent that wakes before its own request and spawns a child nobody signalled; the
  tombstone hides the graph from every later sweep of this worker.  Exception of
  `ListedAgentsAreReaped`, found with three agents.
- *A refused reconciliation leaves its trail.*  "… so a single bad source doesn't leave
  a partial trail" (`activities.rs` 1076).  The conflict's alternatives are counted
  after the records are written (1172).
- *The evidence sidecar is not whole.*  Below its capacity it "is the authoritative list of
  every file ever written" (`fs.rs` 60), by a contract of one writer (1128) that the parallel
  calls of a batch do not keep.  `OldRecordsStayListed` says what may be lost.  Nothing
  under `src/` but tests reads the evidence by it (`list_recent_evidence`).
- *The seed of more than 64 notes is by name.*  "most-recent-first" (`fs.rs` 1004):
  `reconcile_tail` rebuilds the sidecar as the greatest names whenever a note is not in
  it (475), which past its capacity is at every open.
- *Two unparsable answers fail the workflow.*  "they become correction contexts in the
  next workflow tick" (`activities.rs` 1224): `decide_step(..).await?` (`workflow.rs` 585)
  stages none.  `FailsForCause` lists it among the causes.
- *Existed for a key with no value.*  "Existed when the key already had a value"
  (`storage/mod.rs` 122): `put_if_absent` creates under the final name and then fills
  (`local.rs` 143).  A record torn by a crash stays so, since its name is its hash.
  `KeyStore` allows it as `Claim` and `Fill`.

Read in the code, with no run of their own:

- `workflow.rs` documents the cumulative counters as counted since the last
  continue-as-new and carries them (283, 752); `reaper.rs` documents partially
  terminated graphs as skipped and assesses the survivors (18, 179), and measures the
  window between sweep starts, not samples (86); a retried reconciliation reads the
  children again and may leave two records of one fold (`activities.rs` 1002, 1119).
- The in-process host folds only three errors of an Output's citations
  (`agent_core.rs`), so that a citation with `..` ends the agent; the workflow host folds it.
  A note `x.tmp.y` is written and indexed, and never listed or committed.  The name of a
  record keeps 32 bits of its hash, which `AgentPaths` takes to tell contents apart.
- A cadence below a millisecond reaches the workflow as zero.  An older reader of a
  newer carryover would drop `in_flight`: rolling back a release is not modelled.
- `RegisterChild` is documented as one transaction's worth of writes and is two.
  The rows of one apply share `created_at`, so "result is stable across calls"
  (`store.rs`, `list_agents_in_graph`) does not follow, and tool order neither:
  `OnlyGrantedRun` is checked over all orders.  `updated_at` is when a transaction began;
  `recent_files` takes `_` and `%` of a prefix as wildcards.
- `-h` anywhere, also after `--`, prints the usage, though "Everything after a literal
  `--` is the spawn command" (`node_run_mcp.rs` 20).  The audit of
  `compute_evidence_id` looks for `call_tool`, and decisions say `call_tools`.  A trigger
  with a long delay holds `node-run`'s exit after the agent retired; a failed
  `print_tree` turns a good run into exit 1; an error path leaves the MCP server running.
  temporal-smoke waits for ever if its worker dies under the driver (476-478), which
  `DaemonsEnd` excepts.
- One `tick_stats` is shared by all decisions of a worker (a debug line reads it).  The
  registry of a graph is cached as long as the worker lives, a dead server with it.
  Tools run at least once.  A retired child's handle stays in its parent's list if the
  child left of itself.

## 5. Not modelled

- Wording: prompts, rendering, errors, logs, what hosts print.
- Syntax and transport: YAML, JSON, HTTP, the MCP SDK, git's object store, Postgres
  and the Temporal server, each reduced to what the code relies on.
- Claims in `fs.rs`, and most reads of `store.rs` (`get_agent`, `list_children`,
  `list_files_for_agent`, `recent_files`, `find_paths_by_blob_sha` …): their only callers are tests.
- Inline tests, a large share of the lines of most source files.
- Of `AgentStep`: scripted decisions of the tests' hosts and call statistics.  Of
  the wake cadence: its length; a timer is armed or not.  Of an unreadable
  `health.json`: it refuses to open.  Names, commands and metadata of rows.
- `child_handles` has no reader but the carryover and `RetireChild`'s removal, so its
  order is left out.

Components marked `partly` in `PROJECT.json` are those of the last three items.

## 6. The plan

1. `CoralApply`'s channel to the workflows composed with `SignalHandOff`, as the
   parent-child channel of `AgentTree` is with `AgentForest`: the seed trigger's signal is the
   first an agent receives.
2. `AgentTree` and `GraphReaper` composed: a sweep over a graph that is still spawning, with
   the tombstone that section 4 tells of.

What stays with TLC is listed at the end of section 3.
