---------------------------- MODULE MCAgentStep ----------------------------
(* Small instances of AgentStep.                                           *)
EXTENDS AgentStep

CONSTANTS web, lib, defWeb, defLib, defCopy, defEcho, none, arg, claim

\* Two servers advertise `search`; two defs share the second server, and the
\* agent is granted the second of them.
Rows ==
    {[def |-> defWeb, kind |-> "mcp", command |-> web],
      [def |-> defLib, kind |-> "mcp", command |-> lib],
      [def |-> defCopy, kind |-> "mcp", command |-> lib],
      [def |-> defEcho, kind |-> "builtin", command |-> "echo"]}
BothSearch == [s \in {web, lib} |-> {"search"}]
SecondAndEcho == {defCopy, defEcho}
OneValue == {"v"}

Both == [single |-> FALSE, clients |-> {"anthropic", "cohere"}, default |-> "anthropic"]
OnlyCohere == [single |-> TRUE, clients |-> {"cohere"}, default |-> "cohere"]
Other == [provider |-> "other", model |-> "m"]
\* The default of two providers, a provider that is not there, and a worker with
\* one client, for which a name's provider does not matter.
ThreeBoots ==
    {[registry |-> Both, name |-> none, woken |-> TRUE],
     [registry |-> Both, name |-> Other, woken |-> FALSE],
     [registry |-> OnlyCohere, name |-> Other, woken |-> FALSE]}

Call(n) == ToolUse(0, "call_tool", [name |-> n, args |-> arg, claim_seed |-> claim])
Idles == ToolUse(0, "idle", [next_after |-> "soon"])
\* Silence, a text without a call, a batch, a batch that mixes, one with a field of
\* the wrong type, a terminal without its field, and an unknown tool.
SomeContents ==
    {<<>>, <<Text>>, <<Text, Call("search"), Call("echo")>>,
     <<Call("search"), Idles>>, <<Call("search"), Call(WrongType)>>,
     <<ToolUse(0, "read", <<>>)>>, <<ToolUse(0, "browse", NotAnObject)>>,
     <<Idles>>, <<ToolUse(0, "list", [path |-> "notes"])>>}
=============================================================================
