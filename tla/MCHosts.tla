------------------------------ MODULE MCHosts ------------------------------
(***************************************************************************)
(* An operator starts command-line hosts, or a daemon: two invocations of  *)
(* node-run-llm beside each other, one invocation of any program with any  *)
(* short command line, or the worker or the smoke in any environment.      *)
(***************************************************************************)
EXTENDS NodeHost, WorkerHost

CONSTANTS first, second

Invocations == {first, second}
Build == {"mcp", "cohere"}

Cmd(name, line) == [program |-> name, argv |-> line]

Paths == <<"config.json", "triggers.jsonl", "root">>
LlmLine == <<"--vendor", "cohere">> \o Paths \o <<"--", "npx">>

\* The chunks a command line is put together from.
Chunks ==
    {<<"--vendor", "cohere">>, <<"--vendor", "other">>, <<"--max-tokens", "0">>,
     <<"--max-tokens", "8">>, <<"--model", "--vendor">>, <<"--model">>,
     <<"--prompt", "hi">>, <<"--from-stdin">>, Paths, <<"anthropic">>}
SpawnChunks == {<<>>, <<"--">>, <<"--", "npx">>, <<"--", "npx", "-h">>}

UpTo(n, S) == UNION {[1 .. k -> S] : k \in 0 .. n}
Joined == {FlattenSeq(s) : s \in UpTo(3, Chunks)}

Commands ==
    {Cmd("node_run_llm", line \o <<"--", "npx">>) : line \in Joined}
    \cup {Cmd("model_call", line) : line \in Joined}
    \cup {Cmd(p, line \o spawn) :
             p \in {"node_run_mcp", "node_run_llm"}, spawn \in SpawnChunks,
             line \in {Paths, <<"--vendor", "anthropic">> \o Paths, Paths \o <<"more">>}}
    \cup {Cmd(p, line) : p \in {"node_run", "compute_evidence_id"},
                         line \in {Paths, <<"--from-file", "decisions.jsonl">>, <<"--help">>,
                                   <<"--from-file">>, <<>>}}

\* One invocation of anything beside one that never starts, or two of node-run-llm.
Never == Cmd("none", <<>>)
EveryProgram ==
    {[i \in Invocations |-> IF i = first THEN c ELSE Never] : c \in Commands}
    \cup {[i \in Invocations |-> Cmd("node_run_llm", LlmLine)]}

NoDelay == BareTrigger("human")
Later == Envelope("human", 5)
SomeTriggers == {<<>>, <<Skip, NoDelay, Later, NoDelay>>, <<NoDelay, Bad>>}
SomeDecisions == {<<Skip>>, <<Line("call_tools", "echo"), Line("idle", <<>>)>>, <<Bad>>,
                  <<Line("call_tool", "echo"), Line("write_output", <<"evidence">>)>>}

MCInit == HostInit /\ DaemonInit

\* The daemons are started beside one program, as one is enough.
Beside == argv[first] = LlmLine /\ argv[second] = LlmLine
MCNext ==
    \/ main = "off" /\ HostNext /\ UNCHANGED daemonVars
    \/ /\ \A i \in Invocation : at[i] = "idle"
       /\ now = 0 /\ Beside
       /\ DaemonNext /\ UNCHANGED hostVars

MCSpec == MCInit /\ [][MCNext]_<<hostVars, daemonVars>> /\ HostFairness /\ DaemonFairness

\* Whoever drives a host or a daemon sees it end, when it is to end.
EveryHostEnds == HostsEnd /\ DaemonsEnd
=============================================================================
