------------------------------ MODULE NodeHost ------------------------------
(***************************************************************************)
(* The command-line hosts of crates/coral_node/src/bin: node-run,          *)
(* node-run-mcp and node-run-llm, each of which boots one in-process agent *)
(* and feeds it a file of triggers, and the one-shot tools model-call and  *)
(* compute-evidence-id.  Invocations run beside each other and one after   *)
(* another, and share a disk and a clock.                                  *)
(*                                                                         *)
(* The agent is reduced to its return from run(): InProcessAgent has the   *)
(* rest.  What a host prints is left out.                                  *)
(***************************************************************************)
EXTENDS Naturals, Sequences, FiniteSets, CommandLine

CONSTANTS
    Invocation,     \* the processes an operator starts
    Programs,       \* the program and argv of each, one of these functions
    TriggerFiles,   \* what a <triggers.jsonl> may hold
    DecisionFiles,  \* what a decisions.jsonl may hold
    Features,       \* the cargo features of the build: "mcp" and the vendors
    MaxTime         \* bound on the milliseconds of the clock

ASSUME BuildAssumption == Features \subseteq {"mcp"} \cup Vendor /\ MaxTime \in Nat

\* std::env::args is a list of strings.
ASSUME ArgvAssumption ==
    \A lines \in Programs : \A i \in Invocation : lines[i].argv \in Seq(STRING)

\* What each program does, in the order of its run().
Script ==
    [node_run |-> <<"args", "load", "fs", "health", "launch", "run", "join", "tree">>,
     node_run_mcp |-> <<"args", "load", "fs", "health", "connect", "register", "launch",
                        "run", "join", "shutdown", "tree">>,
     node_run_llm |-> <<"args", "features", "load", "stamp", "root", "fs", "health", "connect",
                        "register", "client", "launch", "run", "join", "shutdown", "tree">>,
     model_call |-> <<"args", "prompt", "client", "complete">>,
     compute_evidence_id |-> <<"args", "compute">>]

VARIABLES
    \* a process
    program,    \* which binary
    argv,       \* its arguments
    vendor,     \* --vendor
    at,         \* the step of its script, "idle" before and "exited" after it
    code,       \* its exit code
    feed,       \* what feed_triggers has still to send
    stamp,      \* the `now` of node-run-llm
    root,       \* the root of its agent's file system
    server,     \* its MCP server: "none", "running", "stopped"
    \* the world
    dirs,       \* directories made under the parent, with who made them
    now         \* the clock

process == <<program, argv, vendor, at, code, feed, stamp, root, server>>
hostVars == <<process, dirs, now>>

HostInit ==
    /\ \E lines \in Programs :
          /\ program = [i \in Invocation |-> lines[i].program]
          /\ argv = [i \in Invocation |-> lines[i].argv]
    /\ vendor = [i \in Invocation |-> NoFlag]
    /\ at = [i \in Invocation |-> "idle"] /\ code = [i \in Invocation |-> 0]
    /\ feed = [i \in Invocation |-> <<>>]
    /\ stamp = [i \in Invocation |-> 0] /\ root = [i \in Invocation |-> <<>>]
    /\ server = [i \in Invocation |-> "none"]
    /\ dirs = {} /\ now = 0

Following(i) ==
    LET script == Script[program[i]]
        k == CHOOSE k \in DOMAIN script : script[k] = at[i]
    IN IF k < Len(script) THEN script[k + 1] ELSE "exited"

Advance(i) == at' = [at EXCEPT ![i] = Following(i)] /\ UNCHANGED code

\* The process ends, and its tasks with it.
ExitWith(i, c) ==
    /\ at' = [at EXCEPT ![i] = "exited"] /\ code' = [code EXCEPT ![i] = c]
    /\ feed' = [feed EXCEPT ![i] = <<>>]

Start(i) ==
    /\ at[i] = "idle" /\ program[i] \in DOMAIN Script
    /\ at' = [at EXCEPT ![i] = "args"]
    /\ UNCHANGED <<program, argv, vendor, code, feed, stamp, root, server, dirs, now>>

Parse(i) ==
    /\ at[i] = "args"
    /\ LET outcome == ParseArgs(program[i], argv[i])
       IN CASE outcome = "ok" ->
                 /\ vendor' = [vendor EXCEPT ![i] = VendorOf(program[i], argv[i])]
                 /\ Advance(i) /\ UNCHANGED feed
            [] outcome = "help" -> ExitWith(i, 0) /\ UNCHANGED vendor
            [] outcome = "usage" -> ExitWith(i, 2) /\ UNCHANGED vendor
            [] outcome = "error" -> ExitWith(i, 1) /\ UNCHANGED vendor
    /\ UNCHANGED <<program, argv, stamp, root, server, dirs, now>>

\* What `?` returns from main is exit code 1, with nothing undone: the directory is
\* left, and an MCP server is neither asked to stop nor waited for.
Fallible == {"load", "root", "fs", "health", "connect", "register", "run", "tree",
             "prompt", "complete", "compute"}
Abort(i) ==
    /\ at[i] \in Fallible
    /\ ExitWith(i, 1)
    /\ UNCHANGED <<program, argv, vendor, stamp, root, server, dirs, now>>

\* run_inner of a build without the features.
CheckFeatures(i) ==
    /\ at[i] = "features"
    /\ IF "mcp" \in Features /\ Vendor \cap Features # {}
       THEN Advance(i) /\ UNCHANGED feed
       ELSE ExitWith(i, 1)
    /\ UNCHANGED <<program, argv, vendor, stamp, root, server, dirs, now>>

\* load_mandate, load_decisions of the scripted hosts, load_triggers.
Load(i) ==
    /\ at[i] = "load"
    /\ \E decisions \in DecisionFiles, triggers \in TriggerFiles :
          IF /\ program[i] # "node_run_llm" => DecisionsLoad(decisions)
             /\ TriggersLoad(triggers)
          THEN feed' = [feed EXCEPT ![i] = Records(triggers)] /\ Advance(i)
          ELSE ExitWith(i, 1)
    /\ UNCHANGED <<program, argv, vendor, stamp, root, server, dirs, now>>

\* Utc::now of run_inner.
Stamp(i) ==
    /\ at[i] = "stamp"
    /\ stamp' = [stamp EXCEPT ![i] = now]
    /\ Advance(i)
    /\ UNCHANGED <<program, argv, vendor, feed, root, server, dirs, now>>

\* subdir_name, and the name with a ULID, which no other process draws.
Subdir(i) == <<stamp[i]>>
WithUlid(i) == <<stamp[i], i>>

\* Fault: create_dir_all takes a directory that exists.
TakeDir(i) == root' = [root EXCEPT ![i] = Subdir(i)] /\ dirs' = dirs \cup {Subdir(i)}

\* create_dir is atomic; after AlreadyExists it is tried once with a ULID.
MakeDir(i) ==
    LET name == IF Subdir(i) \in dirs THEN WithUlid(i) ELSE Subdir(i)
    IN root' = [root EXCEPT ![i] = name] /\ dirs' = dirs \cup {name}

ResolveFsRoot(i) ==
    /\ at[i] = "root"
    /\ MakeDir(i)
    /\ Advance(i)
    /\ UNCHANGED <<program, argv, vendor, feed, stamp, server, now>>

\* AgentFs::open and HealthTracker::open; node-run and node-run-mcp use the directory
\* they are given, as an earlier invocation left it.
Open(i) ==
    /\ at[i] \in {"fs", "health"}
    /\ Advance(i)
    /\ UNCHANGED <<program, argv, vendor, feed, stamp, root, server, dirs, now>>

\* McpClient::connect_stdio, which fails before or after the spawn.
Connect(i) ==
    /\ at[i] = "connect"
    /\ server' = [server EXCEPT ![i] = "running"]
    /\ Advance(i) \/ (at' = [at EXCEPT ![i] = "exited"] /\ code' = [code EXCEPT ![i] = 1])
    /\ UNCHANGED <<program, argv, vendor, feed, stamp, root, dirs, now>>

\* register_mcp_server_with_policy, and Agent::new.
Register(i) ==
    /\ at[i] \in {"register", "launch"}
    /\ Advance(i)
    /\ UNCHANGED <<program, argv, vendor, feed, stamp, root, server, dirs, now>>

\* build_anthropic_client, build_cohere_client.
BuildClient(i) ==
    /\ at[i] = "client"
    /\ IF vendor[i] \in Features THEN Advance(i) /\ UNCHANGED feed ELSE ExitWith(i, 1)
    /\ UNCHANGED <<program, argv, vendor, stamp, root, server, dirs, now>>

-----------------------------------------------------------------------------
(* The feeder beside the agent.                                            *)

\* feed_triggers is spawned before agent.run and ends with its list.
Feeding(i) == at[i] \in {"run", "join"} /\ feed[i] # <<>>

SleepEnds(i) ==
    /\ Feeding(i) /\ feed[i][1].delay > 0
    /\ feed' = [feed EXCEPT ![i][1].delay = 0]
    /\ UNCHANGED <<program, argv, vendor, at, code, stamp, root, server, dirs, now>>

\* Fault: a send to a queue that is gone is tried again.
RestAfterError(i) == feed[i]

\* sink.send: its error means the agent has retired, and ends the loop.
RestAfterGone(i) == <<>>

SendLine(i) ==
    /\ Feeding(i) /\ feed[i][1].delay = 0
    /\ feed' = [feed EXCEPT ![i] = IF at[i] = "run" THEN Tail(@) ELSE RestAfterGone(i)]
    /\ UNCHANGED <<program, argv, vendor, at, code, stamp, root, server, dirs, now>>

AgentRetires(i) ==
    /\ at[i] = "run"
    /\ Advance(i)
    /\ UNCHANGED <<program, argv, vendor, feed, stamp, root, server, dirs, now>>

\* The exit waits for the feeder: a delay outlasts the agent.
Join(i) ==
    /\ at[i] = "join" /\ feed[i] = <<>>
    /\ Advance(i)
    /\ UNCHANGED <<program, argv, vendor, feed, stamp, root, server, dirs, now>>

\* Arc::try_unwrap and shutdown; an outstanding Arc or an error is only logged.
Shutdown(i) ==
    /\ at[i] = "shutdown"
    /\ \E after \in {"stopped", "running"} : server' = [server EXCEPT ![i] = after]
    /\ Advance(i)
    /\ UNCHANGED <<program, argv, vendor, feed, stamp, root, dirs, now>>

PrintTree(i) ==
    /\ at[i] = "tree"
    /\ Advance(i)
    /\ UNCHANGED <<program, argv, vendor, feed, stamp, root, server, dirs, now>>

-----------------------------------------------------------------------------
(* The one-shot tools.                                                     *)

\* read_prompt and build_request.
ReadPrompt(i) ==
    /\ at[i] = "prompt"
    /\ Advance(i)
    /\ UNCHANGED <<program, argv, vendor, feed, stamp, root, server, dirs, now>>

\* dispatch.
Dispatch(i) ==
    /\ at[i] = "complete"
    /\ Advance(i)
    /\ UNCHANGED <<program, argv, vendor, feed, stamp, root, server, dirs, now>>

\* audit_file, or the hash of a triple.
Compute(i) ==
    /\ at[i] = "compute"
    /\ \E file \in DecisionFiles :
          IF Len(argv[i]) = 3 \/ AuditPasses(file)
          THEN Advance(i) /\ UNCHANGED feed
          ELSE ExitWith(i, 1)
    /\ UNCHANGED <<program, argv, vendor, stamp, root, server, dirs, now>>

MillisecondPasses ==
    /\ now < MaxTime
    /\ now' = now + 1
    /\ UNCHANGED <<process, dirs>>

\* What a process does after its command line, but wait for its agent.
HostStep(i) ==
    \/ Abort(i) \/ CheckFeatures(i) \/ Load(i) \/ Stamp(i) \/ ResolveFsRoot(i)
    \/ Open(i) \/ Connect(i) \/ Register(i) \/ BuildClient(i)
    \/ SleepEnds(i) \/ SendLine(i) \/ Join(i) \/ Shutdown(i) \/ PrintTree(i)
    \/ ReadPrompt(i) \/ Dispatch(i) \/ Compute(i)

HostNext ==
    \/ \E i \in Invocation : Start(i) \/ Parse(i) \/ HostStep(i) \/ AgentRetires(i)
    \/ MillisecondPasses

HostSpec == HostInit /\ [][HostNext]_hostVars

\* A process that is scheduled and whose reads, calls and sleeps return takes its next
\* step; its agent may never retire.
HostFairness == \A i \in Invocation : WF_hostVars(HostStep(i) /\ at[i] # "run")

HostFairSpec == HostSpec /\ HostFairness

-----------------------------------------------------------------------------
(* Properties.                                                             *)

\* CommandLine: each program runs on exactly the argv its USAGE describes, flags in
\* any order and each at most once, and answers a help flag before all else.
AcceptsItsUsage ==
    \A i \in Invocation : at[i] = "args" =>
        (ParseArgs(program[i], argv[i]) = "ok" <=>
            WellFormed(program[i], argv[i]) /\ Help \cap Range(argv[i]) = {})

\* node_run_llm.rs: "Two successive invocations accumulate; they do not clobber each
\* other", nor do two at once, in one millisecond or not.
OwnDirectory ==
    \A i, j \in Invocation : i # j /\ root[i] # <<>> => root[i] # root[j]

\* The runs of main: a process that is not running its agent comes to run it or exits,
\* whatever fails on the way and however the feeder's delays fall.
HostsEnd ==
    \A i \in Invocation : at[i] \notin {"idle", "args", "run", "exited"} ~> at[i] \in {"run", "exited"}
=============================================================================
