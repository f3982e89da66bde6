--------------------------- MODULE DecisionSchema ---------------------------
(***************************************************************************)
(* From a model's response to a Decision: parse_decision of                *)
(* crates/coral_node/src/decide_llm/schema.rs.                             *)
(*                                                                         *)
(* A tool call is [id, name, arguments].  `arguments` is NotAnObject, or a *)
(* function from the fields the model filled in to their values; a value   *)
(* is WrongType where the type of the field does not admit it.             *)
(***************************************************************************)
EXTENDS Sequences, TLC

CONSTANTS NotAnObject, WrongType

\* decision_tools, with the fields each requires: every tool but the first takes
\* the response for itself.
WorkTools ==
    [call_tool |-> {"name", "args", "claim_seed"},
     write_output |-> {"body", "citations"},
     rewrite_fs |-> {"ops"},
     read |-> {"path"}, list |-> {"path"}, search |-> {"query"},
     idle |-> {"next_after"}]
TopologyTools ==
    [spawn_child |-> {"agent_name", "mandate"},
     reconcile_children |-> {"sources"},
     retire_child |-> {"child_ref", "reason"},
     replace_child |-> {"child_ref", "new_mandate"}]
Required == WorkTools @@ TopologyTools
DecisionTool == DOMAIN Required

\* The fields whose type the parser looks at: `args` of a tool call is any JSON.
Typed(call) ==
    IF call.name = "call_tool" THEN {"name", "claim_seed"} ELSE DOMAIN call.arguments

WellFormed(call) ==
    /\ call.arguments # NotAnObject
    /\ Required[call.name] \subseteq DOMAIN call.arguments
    /\ \A f \in Typed(call) : call.arguments[f] # WrongType

\* One terminal decision, or any number of call_tool and nothing else.
Homogeneous(calls) ==
    \/ \A i \in DOMAIN calls : calls[i].name = "call_tool"
    \/ Len(calls) = 1

Parses(calls) ==
    /\ calls # <<>>
    /\ \A i \in DOMAIN calls : calls[i].name \in DecisionTool
    /\ Homogeneous(calls)
    /\ \A i \in DOMAIN calls : WellFormed(calls[i])

\* The decision of a response that parses.  A batch keeps the order of its
\* calls and the ids the model gave them.
Decision(calls) ==
    IF calls[1].name = "call_tool"
    THEN [type |-> "call_tools",
          calls |-> [i \in DOMAIN calls |->
                        [tool |-> calls[i].arguments.name, args |-> calls[i].arguments.args,
                         claim_seed |-> calls[i].arguments.claim_seed,
                         tool_use_id |-> calls[i].id]]]
    ELSE [type |-> calls[1].name, calls |-> <<>>]
=============================================================================
