---------------------------- MODULE ToolDispatch ----------------------------
(***************************************************************************)
(* A batch of tool calls: dispatch_call_tools of                           *)
(* crates/coral_temporal/src/workflow.rs and the activities execute_tool   *)
(* it starts, one per call and all at once; the registry of the graph's    *)
(* tools they share (crates/coral_worker/src/tool_provider.rs, tools.rs,   *)
(* mcp/mod.rs, mcp/tool.rs of coral_node); and the evidence they record    *)
(* (record_evidence and the sidecar of fs.rs).                             *)
(*                                                                         *)
(* A slot holds the attempt that runs for one call of the batch; Stray     *)
(* holds an attempt that has timed out, which nobody stops.  The evidence  *)
(* sidecar stays below its capacity here, so that its order does not       *)
(* matter: it is a set.  Module RecentNotes has one that overflows.        *)
(***************************************************************************)
EXTENDS Naturals, FiniteSets, Functions, SequencesExt

CONSTANTS
    ToolRows,       \* the graph's tool defs: [def, kind, command]
    Advertises,     \* server -> the names it advertises
    Granted,        \* mandate.tools of the agent
    MaxBatch,       \* bound on the calls of a batch
    MaxTries,       \* RetryPolicy::max_attempts
    Value           \* what a tool may return

Builtin == "builtin"
Stray == 0
Slot == 1 .. MaxBatch
ASSUME BatchAssumption == MaxBatch \in Nat
Job == Slot \cup {Stray}

VARIABLES
    \* the worker
    cache,      \* the registry built for the graph, or NoRegistry
    lock,       \* the attempt that holds the cache's mutex, or NoJob
    procs,      \* server -> its running processes
    \* the activities
    jobs,       \* job -> the attempt that runs there
    ran,        \* history: <<server, name>> of every call that was executed
    \* the agent's file system
    files,      \* evidence/
    tail        \* evidence/_tail.json
dispatch == <<cache, lock, procs, jobs, ran, files, tail>>

NoJob == MaxBatch + 1
NoRegistry == [built |-> FALSE]
Resting == [pc |-> "rest"]
Failure == [pc |-> "failure"]

-----------------------------------------------------------------------------
(* The registry: tools maps a name to the server that serves it, owners to *)
(* the defs a call of it is attributed to.                                 *)

\* mcp_specs_from_rows: defs with one server command share one server.
McpRows == {r \in ToolRows : r.kind = "mcp"}
Servers == {r.command : r \in McpRows}
DefIds(server) == {r.def : r \in {s \in McpRows : s.command = server}}
EchoDefIds == {r.def : r \in {s \in ToolRows : s.kind = "builtin" /\ s.command = "echo"}}

\* A server is known by its command, which the builtin has none of.
ASSUME ServerAssumption == IsFiniteSet(Servers) /\ Builtin \notin Servers

\* The rows come in the order of created_at, which is the same for all the defs
\* that one apply inserts: any order, and another one next time.
Orders == SetToSeqs(Servers)

EmptyRegistry == [built |-> TRUE, tools |-> <<>>, owners |-> <<>>]

\* Fault: every name a server advertises is attributed to its defs.
AttributeAll(registry, server, defs, names) ==
    LET new == names \ DOMAIN registry.tools
        had(n) == IF n \in DOMAIN registry.owners THEN registry.owners[n] ELSE {}
    IN [registry EXCEPT !.tools = @ @@ [n \in new |-> server],
                        !.owners = [n \in names |-> had(n) \cup defs] @@ @]

\* A table with one value for the new names.
Extended(f, new, value) ==
    [n \in DOMAIN f \cup new |-> IF n \in DOMAIN f THEN f[n] ELSE value]

\* The names that are not taken, each attributed to the defs of the server.
Register(registry, server, defs, names) ==
    LET new == names \ DOMAIN registry.tools
    IN [registry EXCEPT !.tools = Extended(@, new, server),
                        !.owners = Extended(@, new, defs)]

\* The builtin is a fallback for a name no server has.
WithEcho(registry) == Register(registry, Builtin, EchoDefIds, {"echo"})

IsCallAllowed(tool) ==
    tool \in DOMAIN cache.owners /\ cache.owners[tool] \cap Granted # {}

-----------------------------------------------------------------------------
DispatchInit ==
    /\ cache = NoRegistry /\ lock = NoJob
    /\ procs = [s \in Servers |-> 0]
    /\ jobs = [j \in Job |-> Resting] /\ ran = {}
    /\ files = {} /\ tail = {}

Attempt(call) == [pc |-> "registry", call |-> call]

Put(j, job) == jobs' = [jobs EXCEPT ![j] = job]
At(j, pc) == jobs[j].pc = pc

worker == <<cache, lock, procs>>
fs == <<files, tail>>

\* dispatch_call_tools: all the activities at once.
StartBatch(calls) ==
    /\ \A j \in Slot : jobs[j] = Resting
    /\ jobs' = [j \in Job |-> IF j \in Slot \cap DOMAIN calls
                            THEN Attempt(calls[j]) ELSE jobs[j]]
    /\ UNCHANGED <<worker, ran, fs>>

-----------------------------------------------------------------------------
(* registry_for_graph.                                                     *)

UseCached(j) ==
    /\ At(j, "registry") /\ lock = NoJob /\ cache # NoRegistry
    /\ Put(j, [jobs[j] EXCEPT !.pc = "allowed"])
    /\ UNCHANGED <<worker, ran, fs>>

StartBuild(j) ==
    /\ At(j, "registry") /\ lock = NoJob /\ cache = NoRegistry
    /\ lock' = j
    /\ \E o \in Orders :
          Put(j, [pc |-> "build", call |-> jobs[j].call, next |-> 1, order |-> o,
                  registry |-> EmptyRegistry])
    /\ UNCHANGED <<cache, procs, ran, fs>>

\* A server is spawned, answers the handshake and lists its tools.
ConnectServer(j) ==
    /\ At(j, "build") /\ jobs[j].next <= Len(jobs[j].order)
    /\ LET s == jobs[j].order[jobs[j].next]
       IN /\ procs' = [procs EXCEPT ![s] = @ + 1]
          /\ Put(j, [jobs[j] EXCEPT !.next = @ + 1,
                                    !.registry = Register(@, s, DefIds(s), Advertises[s])])
    /\ UNCHANGED <<cache, lock, ran, fs>>

\* One that does not fails the build; the clients that were connected are dropped,
\* and their processes with them.
Disconnected(connected) ==
    [s \in DOMAIN procs |->
        IF s \in ToSet(connected) /\ procs[s] > 0 THEN procs[s] - 1 ELSE procs[s]]

\* Fault: an error return that leaves the mutex locked.
FailLocked(j) ==
    /\ At(j, "build") /\ jobs[j].next <= Len(jobs[j].order)
    /\ procs' = Disconnected(SubSeq(jobs[j].order, 1, jobs[j].next - 1))
    /\ Put(j, Failure)
    /\ UNCHANGED <<cache, lock, ran, fs>>

BuildFails(j) ==
    /\ At(j, "build") /\ jobs[j].next <= Len(jobs[j].order)
    /\ procs' = Disconnected(SubSeq(jobs[j].order, 1, jobs[j].next - 1)) /\ lock' = NoJob
    /\ Put(j, Failure)
    /\ UNCHANGED <<cache, ran, fs>>

FinishBuild(j) ==
    /\ At(j, "build") /\ jobs[j].next > Len(jobs[j].order)
    /\ cache' = WithEcho(jobs[j].registry) /\ lock' = NoJob
    /\ Put(j, [pc |-> "allowed", call |-> jobs[j].call])
    /\ UNCHANGED <<procs, ran, fs>>

-----------------------------------------------------------------------------
(* is_call_allowed, ToolRegistry::call and the retry loop of McpTool.      *)

CheckAllowed(j) ==
    /\ At(j, "allowed")
    /\ Put(j, IF IsCallAllowed(jobs[j].call.tool)
              THEN [pc |-> "call", call |-> jobs[j].call, tries |-> 1]
              ELSE Failure)
    /\ UNCHANGED <<worker, ran, fs>>

Server(j) == cache.tools[jobs[j].call.tool]
Answering(j) == Server(j) \in {Builtin} \cup {s \in DOMAIN procs : procs[s] > 0}
Executed(j) == ran' = ran \cup {<<Server(j), jobs[j].call.tool>>}

\* EvidenceRecord::new: the id is a hash of (tool, args, result).
Evidence(call, value) == [tool |-> call.tool, args |-> call.args, result |-> value]
\* evidence_relpath: a slug of the claim, and the id.
Path(job) == [seed |-> job.call.claim_seed, id |-> job.record]

ToolReturns(j) ==
    /\ At(j, "call") /\ Answering(j) /\ Executed(j)
    /\ \E v \in Value :
          Put(j, [pc |-> "list", call |-> jobs[j].call, record |-> Evidence(jobs[j].call, v)])
    /\ UNCHANGED <<worker, fs>>

\* The error frame of a server is not retried.
ToolRefuses(j) ==
    /\ At(j, "call") /\ Answering(j) /\ Server(j) # Builtin /\ Executed(j)
    /\ Put(j, Failure)
    /\ UNCHANGED <<worker, fs>>

\* A call that meets a dead server, or loses it on the way, is: on the same
\* client, which does not come back.
ToolUnreachable(j) ==
    /\ At(j, "call") /\ ~Answering(j)
    /\ Put(j, IF jobs[j].tries < MaxTries THEN [jobs[j] EXCEPT !.tries = @ + 1] ELSE Failure)
    /\ UNCHANGED <<worker, ran, fs>>

-----------------------------------------------------------------------------
(* new_with_storage and record_evidence.                                   *)

\* reconcile_tail: LIST, GET, and the PUT of a rebuilt sidecar if it lags.
ListEvidence(j) ==
    /\ At(j, "list")
    /\ Put(j, [pc |-> "lags", call |-> jobs[j].call, record |-> jobs[j].record, seen |-> files])
    /\ UNCHANGED <<worker, ran, fs>>

\* Fault: the sidecar is trusted as it is, and not compared with the records.
TrustTail(j) ==
    /\ At(j, "lags")
    /\ Put(j, [jobs[j] EXCEPT !.pc = "record"])
    /\ UNCHANGED <<worker, ran, fs>>

CheckTail(j) ==
    /\ At(j, "lags")
    /\ Put(j, [jobs[j] EXCEPT !.pc = IF jobs[j].seen \subseteq tail
                                     THEN "record" ELSE "rebuild"])
    /\ UNCHANGED <<worker, ran, fs>>

RebuildTail(j) ==
    /\ At(j, "rebuild") /\ tail' = jobs[j].seen
    /\ Put(j, [jobs[j] EXCEPT !.pc = "record"])
    /\ UNCHANGED <<worker, ran, files>>

Success(j) == [pc |-> "success", path |-> Path(jobs[j])]

\* put_if_absent: a record that is there leaves the sidecar alone.
RecordEvidence(j) ==
    /\ At(j, "record")
    /\ files' = files \cup {Path(jobs[j])}
    /\ Put(j, IF Path(jobs[j]) \in files THEN Success(j) ELSE [jobs[j] EXCEPT !.pc = "get"])
    /\ UNCHANGED <<worker, ran, tail>>

\* append_to_tail: a GET and a PUT, with no more than hope between them.
GetTail(j) ==
    /\ At(j, "get")
    /\ Put(j, [jobs[j] EXCEPT !.pc = "put", !.seen = tail])
    /\ UNCHANGED <<worker, ran, fs>>

PutTail(j) ==
    /\ At(j, "put") /\ tail' = jobs[j].seen \cup {Path(jobs[j])}
    /\ Put(j, Success(j))
    /\ UNCHANGED <<worker, ran, files>>

-----------------------------------------------------------------------------
(* What goes wrong, and the end of the batch.                              *)

InFlight(j) == jobs[j].pc \notin {"rest", "success", "failure"}

\* The storage fails: an ActivityError, and Temporal's next attempt.
StorageFails(j) ==
    /\ jobs[j].pc \in {"list", "lags", "rebuild", "record", "get", "put"}
    /\ Put(j, IF j = Stray THEN Resting ELSE Attempt(jobs[j].call))
    /\ UNCHANGED <<worker, ran, fs>>

\* The attempt runs into the start-to-close timeout, and runs on.
TimeOut(j) ==
    /\ j # Stray /\ InFlight(j) /\ jobs[Stray] = Resting
    /\ jobs' = [jobs EXCEPT ![Stray] = jobs[j], ![j] = Attempt(jobs[j].call)]
    /\ lock' = IF lock = j THEN Stray ELSE lock
    /\ UNCHANGED <<cache, procs, ran, fs>>

\* The process of a server ends.
ServerDies(s) ==
    /\ procs[s] > 0 /\ procs' = [procs EXCEPT ![s] = @ - 1]
    /\ UNCHANGED <<cache, lock, jobs, ran, fs>>

\* The worker dies, its servers with it, and Temporal gives what it had to the
\* next one.
RestartWorker ==
    /\ cache' = NoRegistry /\ lock' = NoJob /\ procs' = [s \in DOMAIN procs |-> 0]
    /\ jobs' = [j \in Job |-> IF ~InFlight(j) THEN jobs[j]
                              ELSE IF j = Stray THEN Resting ELSE Attempt(jobs[j].call)]
    /\ UNCHANGED <<ran, fs>>

StrayEnds ==
    /\ jobs[Stray].pc \in {"success", "failure"} /\ Put(Stray, Resting)
    /\ UNCHANGED <<worker, ran, fs>>

\* join_all, and the observation that is made of the outcomes.
Joined == /\ \E j \in Slot : jobs[j] # Resting
          /\ \A j \in Slot : ~InFlight(j)
Batch == {j \in Slot : jobs[j] # Resting}
Observation ==
    IF \E j \in Batch : At(j, "failure")
    THEN [ok |-> FALSE, cited |-> {}]
    ELSE [ok |-> TRUE, cited |-> {jobs[j].path : j \in Batch}]
CollectBatch ==
    /\ Joined
    /\ jobs' = [j \in Job |-> IF j = Stray THEN jobs[j] ELSE Resting]
    /\ UNCHANGED <<worker, ran, fs>>

JobStep(j) ==
    \/ UseCached(j) \/ StartBuild(j) \/ ConnectServer(j) \/ FinishBuild(j)
    \/ CheckAllowed(j) \/ ToolReturns(j) \/ ToolUnreachable(j)
    \/ ListEvidence(j) \/ CheckTail(j) \/ RebuildTail(j) \/ RecordEvidence(j)
    \/ GetTail(j) \/ PutTail(j)
=============================================================================
