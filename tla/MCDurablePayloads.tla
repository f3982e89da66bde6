------------------------- MODULE MCDurablePayloads -------------------------
(***************************************************************************)
(* Values with more than one field away from the first: an agent at its    *)
(* gate, one step short of it, and an agent that continues as new in the   *)
(* middle of a cycle with signals waiting.                                 *)
(***************************************************************************)
EXTENDS DurablePayloads

AtGate == [
    pending_triggers_count |-> 0, pending_human_ops_count |-> 0,
    pending_mandate_patches_count |-> 0, retirement_request |-> <<>>, recent_output_ids |-> <<>>,
    cumulative_triggers_observed |-> 1, cumulative_human_ops_observed |-> 1,
    cumulative_mandate_patches_observed |-> 1, parked |-> TRUE, is_never |-> TRUE, tick |-> 1,
    next_wake |-> <<2500>>]
Snapshots == {
    AtGate, [AtGate EXCEPT !.parked = FALSE], [AtGate EXCEPT !.is_never = FALSE],
    [AtGate EXCEPT !.tick = 0], [AtGate EXCEPT !.pending_triggers_count = 1]}

Full == [
    text |-> "some", idle_period |-> <<2000>>, step_cap |-> <<1>>,
    retry_policy |-> <<[max_attempts |-> 1, backoff |-> 2000]>>,
    context_policy |-> [recent_outputs |-> 2, recent_evidence |-> 32, open_claims_max |-> 8],
    model |-> <<"other">>, tools |-> <<"other", "some">>]
Ref == [workflow_id |-> "other", agent_id |-> "two"]
Woken == <<
    [variant |-> "external", fields |-> [kind |-> "other", payload |-> Null]],
    [variant |-> "child_output",
     fields |-> [child_ref |-> Ref, agent_name |-> "other", output_id |-> "two"]]>>
InCycle == [
    seed |-> [mandate |-> Full, triggers |-> Woken,
              index |-> [notes |-> <<"some", "other">>, outputs |-> <<"some">>,
                         notes_more |-> [variant |-> "at_least", number |-> 1],
                         outputs_more |-> [variant |-> "exactly", number |-> 2]]],
    steps |-> <<
        [action |-> [variant |-> "call_tools", fields |-> [calls |-> <<
             [name |-> "some", args |-> Null, claim_seed |-> "some", tool_use_id |-> <<"other">>],
             [name |-> "other", args |-> [atom |-> "json"], claim_seed |-> "other", tool_use_id |-> <<>>]>>]],
         observation |-> [ok |-> TRUE, content |-> "other"]],
        [action |-> [variant |-> "spawn_child", fields |-> [agent_name |-> "other", mandate |-> Full]],
         observation |-> [ok |-> FALSE, content |-> "some"]]>>]
MidCycle == [
    cfg |-> <<>>, fs_handle |-> [prefix |-> "other"],
    parent_handle |-> <<[workflow_id |-> "other", signal |-> "some"]>>,
    carryover |-> <<[
        pending_triggers |-> Woken, pending_human_ops |-> <<Null, [atom |-> "json"]>>,
        pending_mandate_patches |-> <<[atom |-> "json"]>>, retirement_request |-> <<"other">>,
        scheduler_cursor |-> [next_wake |-> <<2500>>], child_handles |-> <<Ref>>,
        last_output_id |-> <<"two">>, cumulative_triggers_observed |-> 1,
        cumulative_human_ops_observed |-> 1, cumulative_mandate_patches_observed |-> 1, tick |-> 1,
        in_flight |-> <<InCycle>>]>>,
    mandate |-> Full, graph_id |-> "two", agent_id |-> "one", agent_name |-> "other"]

Typical(n) ==
    CASE n = "AgentSnapshot" -> Snapshots
      [] n = "AgentInput" -> {MidCycle}
      [] n = "DecideStepInput" -> {[session |-> InCycle]}
      [] OTHER -> {}

TypicalInit ==
    /\ HeldOneOf([n \in DOMAIN Durable |-> Durable[n].tries \cup Typical(n)])
    /\ PInit
=============================================================================
