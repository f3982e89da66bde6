----------------------------- MODULE ModelWire -----------------------------
(***************************************************************************)
(* What goes to a model and what comes back: the messages of               *)
(* crates/coral_node/src/model_client/mod.rs, the two adapters             *)
(* (anthropic.rs, cohere.rs) that put them on the wire and take a response *)
(* off it, the registry that picks the adapter, and render of              *)
(* decide_llm/prompt.rs.                                                   *)
(*                                                                         *)
(* The text of a block is left out: a message is its role and its blocks,  *)
(* and a message on the wire is [role, text, uses, results]: whether it    *)
(* carries text, the ids of its tool calls and those of its tool results.  *)
(* A request has it at the place <<i, k>>, the k-th of what becomes of the *)
(* i-th turn; its messages are in the order of their places.               *)
(***************************************************************************)
EXTENDS Integers, SequencesExt

CONSTANTS NoName    \* a mandate without a model, and a model name without a provider

Message(role, content) == [role |-> role, content |-> content]
Text == [type |-> "text"]
ToolUse(id, name, arguments) ==
    [type |-> "tool_use", id |-> id, name |-> name, arguments |-> arguments]
ToolResult(id) == [type |-> "tool_result", id |-> id]

\* The elements of a sequence at the places of a set, in their order.
Nth(S, n) == CHOOSE i \in S : Cardinality({j \in S : j <= i}) = n
Picked(s, S) == [n \in 1 .. Cardinality(S) |-> s[Nth(S, n)]]

OfType(content, type) == Picked(content, {i \in DOMAIN content : content[i].type = type})
Ids(blocks) == [i \in DOMAIN blocks |-> blocks[i].id]

\* The flat projection: every call of the content, in order.
ToolCalls(content) ==
    LET uses == OfType(content, "tool_use")
    IN [i \in DOMAIN uses |->
           [id |-> uses[i].id, name |-> uses[i].name, arguments |-> uses[i].arguments]]

-----------------------------------------------------------------------------
(* The prompt.                                                             *)

\* The steps of a cycle are told in a user turn: no call of theirs is replayed.
Render(woken, steps) ==
    <<Message("system", <<Text>>)>>
    \o (IF woken THEN <<Message("user", <<Text>>)>> ELSE <<>>)
    \o <<Message("user", <<Text>>)>>
    \o (IF steps # <<>> THEN <<Message("user", <<Text>>)>> ELSE <<>>)

-----------------------------------------------------------------------------
(* The adapters.                                                           *)

OnWire(role, content) ==
    [role |-> role, text |-> OfType(content, "text") # <<>>,
     uses |-> Ids(OfType(content, "tool_use")),
     results |-> Ids(OfType(content, "tool_result"))]

\* Anthropic: system turns leave the conversation for a field of their own, and
\* a tool turn becomes a user turn with its results.
AnthropicBody(messages) ==
    LET Turn(i) == messages[i]
    IN [p \in {i \in DOMAIN messages : Turn(i).role # "system"} \X {1} |->
           OnWire(IF Turn(p[1]).role = "tool" THEN "user" ELSE Turn(p[1]).role,
                  Turn(p[1]).content)]

\* Cohere: one message per turn, except that every tool result is one.
CohereBody(messages) ==
    LET Results(i) == OfType(messages[i].content, "tool_result")
        tools == {i \in DOMAIN messages : messages[i].role = "tool"}
        results == UNION {{i} \X DOMAIN Results(i) : i \in tools}
    IN [p \in ((DOMAIN messages \ tools) \X {1}) \cup results |->
           IF p[1] \in tools
           THEN OnWire("tool", <<Results(p[1])[p[2]]>>)
           ELSE OnWire(messages[p[1]].role, messages[p[1]].content)]

Body(client, messages) ==
    IF client = "anthropic" THEN AnthropicBody(messages) ELSE CohereBody(messages)

\* parse_response and map_status_error: the content of a well-formed answer, or
\* the category of the error.
ErrorOf(answer) ==
    CASE answer.status = 0 -> "Transport"
      [] answer.status \in {401, 403} -> "Auth"
      [] answer.status = 429 -> "RateLimit"
      [] answer.status \in 500 .. 599 -> "Transport"
      [] answer.status = 200 -> "Parse"
      [] OTHER -> "Other"
IsResponse(answer) == answer.status = 200 /\ answer.legible

-----------------------------------------------------------------------------
(* The registry.  A model name is [provider, model]; the provider is NoName *)
(* in a name without a slash, and the name itself is NoName in a mandate    *)
(* without one.  A registry is [clients, default], or a single client.      *)

Qualified(name) == name # NoName /\ name.provider # NoName
Malformed(name) == Qualified(name) /\ (name.provider = "" \/ name.model = "")

ProviderOf(registry, name) ==
    CASE registry.single -> registry.default
      [] ~registry.single /\ Qualified(name) -> name.provider
      [] OTHER -> registry.default

Resolves(registry, name) ==
    ~Malformed(name) /\ ProviderOf(registry, name) \in registry.clients

\* The model the request asks for: NoName leaves the choice to the adapter.
BareModel(name) == IF name = NoName THEN NoName ELSE name.model
=============================================================================
