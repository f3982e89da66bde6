---------------------------- MODULE DurableTypes ----------------------------
(***************************************************************************)
(* The types whose values outlive the process that wrote them: what a      *)
(* workflow is started and continued as new with, what its activities are  *)
(* given and answer, what a query answers, and the files of an agent.      *)
(*                                                                         *)
(* A newtype is what it wraps (serde(transparent)).  Of texts two are      *)
(* tried, and of integers a few.                                           *)
(***************************************************************************)
EXTENDS Payload

Text == Atom(STRING, {"some", "other"})
Flag == Atom(BOOLEAN, BOOLEAN)
Count == Atom(Nat, {0, 1})
Stamp == Atom(STRING, {"earlier", "later"})
\* A Duration without duration_ms: seconds and nanoseconds, nothing is truncated.
Span == Atom(Nat, Durations)

-----------------------------------------------------------------------------
(* agent_ref.rs and trigger.rs.                                            *)

Id == Atom(STRING, {"one", "two"})
AgentId == Id
GraphId == Id
OutputId == Id
ConflictId == Id
EvidenceId == Id

AgentRef == Struct([workflow_id |-> Field(Text), agent_id |-> Field(AgentId)])

HumanOp == Json
MandatePatch == Json

Trigger == Tagged("type", [
    scheduled_wake |-> <<>>,
    external |-> [kind |-> Field(Text), payload |-> Field(Json)],
    human_override |-> [op |-> Field(HumanOp)],
    child_output |-> [child_ref |-> Field(AgentRef), agent_name |-> Field(Text),
                      output_id |-> Field(OutputId)],
    child_retired |-> [child_ref |-> Field(AgentRef), agent_name |-> Field(Text),
                       reason |-> Field(Text)]])

-----------------------------------------------------------------------------
(* mandate.rs.                                                             *)

RetryPolicy == Struct([max_attempts |-> Field(Count), backoff |-> Field(Millis)])

Knob == Atom(Nat, {2, 8, 32})
ContextPolicy == Struct([
    recent_outputs |-> Default(Knob, 8), recent_evidence |-> Default(Knob, 8),
    open_claims_max |-> Default(Knob, 32)])
DefaultPolicy == [recent_outputs |-> 8, recent_evidence |-> 8, open_claims_max |-> 32]

\* "Empty (the default) means no tools assigned."
AssignedTools == Later(Default(Vec(Text), <<>>))

Mandate == StructOnceWith([
    text |-> Field(Text), idle_period |-> With(Opt(Millis)),
    step_cap |-> Later(Default(Opt(Count), <<>>)),
    retry_policy |-> Later(Sparse(Opt(RetryPolicy))),
    context_policy |-> Later(Default(ContextPolicy, DefaultPolicy)),
    model |-> Later(Sparse(Opt(Text))),
    tools |-> AssignedTools], {"max_ticks", "persistent"})

-----------------------------------------------------------------------------
(* decision.rs.                                                            *)

ReconcileSource == Struct([child_ref |-> Field(AgentRef), output_id |-> Field(OutputId)])

ConflictAlternative == Struct([
    source_child |-> Field(AgentRef), source_output_id |-> Field(OutputId), claim |-> Field(Text)])
ConflictResolution == Struct([chosen_alternative_idx |-> Field(Count), reasoning |-> Field(Text)])
ConflictRecordIntent == Struct([
    alternatives |-> Field(Vec(ConflictAlternative)),
    resolution |-> Sparse(Opt(ConflictResolution))])

ToolCall == Struct([
    name |-> Field(Text), args |-> Field(Json), claim_seed |-> Field(Text),
    tool_use_id |-> Sparse(Opt(Text))])

FsOp == Tagged("op", [
    write_file |-> [path |-> Field(Text), content |-> Field(Text)],
    delete_file |-> [path |-> Field(Text)]])

Navigation == [
    read |-> [path |-> Field(Text)],
    list |-> [path |-> Field(Text)],
    search |-> [query |-> Field(Text), path |-> Sparse(Opt(Text))]]

Decision == Tagged("type", [
    call_tools |-> [calls |-> Field(Vec(ToolCall))],
    write_output |-> [body |-> Field(Text), citations |-> Field(Vec(Text))],
    rewrite_fs |-> [ops |-> Field(Vec(FsOp))],
    idle |-> [next_after |-> Field(Millis)],
    spawn_child |-> [agent_name |-> Field(Text), mandate |-> Field(Mandate)],
    reconcile_children |-> [sources |-> Field(Vec(ReconcileSource)),
                            conflict |-> Sparse(Opt(ConflictRecordIntent))],
    retire_child |-> [child_ref |-> Field(AgentRef), reason |-> Field(Text)],
    replace_child |-> [child_ref |-> Field(AgentRef), new_mandate |-> Field(Mandate)],
    read |-> Navigation.read, list |-> Navigation.list, search |-> Navigation.search])

Remainder == Plain({"none"}, {"exactly", "at_least"})
NothingMore == [variant |-> "none", number |-> 0]

FsIndex == Struct([
    notes |-> Default(Vec(Text), <<>>), outputs |-> Default(Vec(Text), <<>>),
    notes_more |-> Later(Default(Remainder, NothingMore)),
    outputs_more |-> Later(Default(Remainder, NothingMore))])

Seed == Struct([mandate |-> Field(Mandate), triggers |-> Field(Vec(Trigger)), index |-> Field(FsIndex)])
Observation == Struct([ok |-> Field(Flag), content |-> Field(Text)])
Step == Struct([action |-> Field(Decision), observation |-> Field(Observation)])
Session == Struct([seed |-> Field(Seed), steps |-> Field(Vec(Step))])

-----------------------------------------------------------------------------
(* workflow.rs.                                                            *)

AgentConfig == Struct(<<>>)
FsHandle == Struct([prefix |-> Field(Text)])
ParentRef == Struct([workflow_id |-> Field(Text), signal |-> Field(Text)])
SchedulerCursor == Struct([next_wake |-> Field(Opt(Span))])

\* Fault: the session must be there.
SessionRequired == Later(With(Opt(Session)))

InFlight == Later(Default(Opt(Session), <<>>))

Carryover == Struct([
    pending_triggers |-> Field(Vec(Trigger)), pending_human_ops |-> Field(Vec(HumanOp)),
    pending_mandate_patches |-> Field(Vec(MandatePatch)),
    retirement_request |-> Field(Opt(Text)), scheduler_cursor |-> Field(SchedulerCursor),
    child_handles |-> Field(Vec(AgentRef)), last_output_id |-> Field(Opt(OutputId)),
    cumulative_triggers_observed |-> Field(Count), cumulative_human_ops_observed |-> Field(Count),
    cumulative_mandate_patches_observed |-> Field(Count), tick |-> Field(Count),
    in_flight |-> InFlight])

AgentInput == Struct([
    cfg |-> Field(AgentConfig), fs_handle |-> Field(FsHandle),
    parent_handle |-> Field(Opt(ParentRef)), carryover |-> Field(Opt(Carryover)),
    mandate |-> Field(Mandate), graph_id |-> Field(GraphId), agent_id |-> Field(AgentId),
    agent_name |-> Field(Text)])

AgentResult == Tagged("result", [retired |-> [reason |-> Field(Text)]])

\* #[serde(default)]: not parked, and not of never cadence.
SnapshotFlag == Later(Default(Flag, FALSE))
SnapshotCount == Later(Default(Count, 0))

AgentSnapshot == Struct([
    pending_triggers_count |-> Field(Count), pending_human_ops_count |-> Field(Count),
    pending_mandate_patches_count |-> Field(Count), retirement_request |-> Field(Opt(Text)),
    recent_output_ids |-> Field(Vec(Text)),
    cumulative_triggers_observed |-> SnapshotCount,
    cumulative_human_ops_observed |-> SnapshotCount,
    cumulative_mandate_patches_observed |-> SnapshotCount,
    parked |-> SnapshotFlag, is_never |-> SnapshotFlag, tick |-> SnapshotCount,
    next_wake |-> Later(Default(Opt(Span), <<>>))])

-----------------------------------------------------------------------------
(* activities.rs.                                                          *)

BuildSeedInput == Struct([
    mandate |-> Field(Mandate), fs_handle |-> Field(FsHandle), triggers |-> Field(Vec(Trigger)),
    human_ops |-> Field(Vec(HumanOp)), mandate_patches |-> Field(Vec(MandatePatch))])
BuildSeedOutput == Struct([seed |-> Field(Seed)])
DecideStepInput == Struct([session |-> Field(Session)])

FsNavOp == Tagged("op", Navigation)
ReadFsInput == Struct([fs_handle |-> Field(FsHandle), op |-> Field(FsNavOp)])
ReadFsOutput == Struct([observation |-> Field(Observation)])

ExecuteToolInput == Struct([
    cfg |-> Field(AgentConfig), fs_handle |-> Field(FsHandle), graph_id |-> Field(GraphId),
    allowed_tools |-> Field(Vec(Text)), call |-> Field(ToolCall)])
ToolCallFailure == Struct([tool |-> Field(Text), args |-> Field(Json), error |-> Field(Text)])
ToolCallOutcome == Tagged("outcome", [
    success |-> [evidence_path |-> Field(Text)],
    failure |-> [failure |-> Field(ToolCallFailure)]])

PersistOutputInput == Struct([
    cfg |-> Field(AgentConfig), fs_handle |-> Field(FsHandle), agent_id |-> Field(AgentId),
    body |-> Field(Text), citations |-> Field(Vec(Text))])
PersistOutputOutput == Struct([output_id |-> Field(Opt(OutputId)), observation |-> Field(Observation)])

ApplyFsOpsInput == Struct([
    fs_handle |-> Field(FsHandle), mandate |-> Field(Mandate), ops |-> Field(Vec(FsOp))])
ApplyFsOpsOutput == Struct([observation |-> Field(Observation)])

PersistRetirementInput == Struct([fs_handle |-> Field(FsHandle), reason |-> Field(Text)])
AppendDecisionLogInput == Struct([
    fs_handle |-> Field(FsHandle), tick |-> Field(Count), step |-> Field(Count),
    decision_summary |-> Field(Text)])
CommitTickInput == Struct([fs_handle |-> Field(FsHandle), tick |-> Field(Count)])

RegisterChildInStructuralDbInput == Struct([
    parent_graph_id |-> Field(GraphId), parent_agent_id |-> Field(AgentId),
    child_agent_name |-> Field(Text), child_tools |-> Field(Vec(Text))])
RegisterChildOutcome == Tagged("outcome", [
    registered |-> [child_agent_id |-> Field(AgentId)],
    rejected_unknown_tool |-> [tool |-> Field(Text)]])

ReconcileChildrenInput == Struct([
    parent_graph_id |-> Field(GraphId), parent_agent_id |-> Field(AgentId),
    sources |-> Field(Vec(ReconcileSource)), conflict |-> Sparse(Opt(ConflictRecordIntent))])
ReconcileChildrenOutput == Struct([
    synthetic_evidence |-> Field(Vec(Text)), conflict_id |-> Sparse(Opt(ConflictId))])

-----------------------------------------------------------------------------
(* The files of an agent.                                                  *)

DecisionLogEntry == Struct([
    tick |-> Field(Count), step |-> Field(Count), decision_summary |-> Field(Text), ts |-> Field(Stamp)])

EvidenceRecord == Struct([
    id |-> Field(EvidenceId), tool |-> Field(Text), args |-> Field(Json), result |-> Field(Json),
    created_at |-> Field(Stamp)])

ConflictKind == Plain({"held_open", "resolved"}, {})
ConflictRecord == Struct([
    id |-> Field(ConflictId), timestamp |-> Field(Stamp), kind |-> Field(ConflictKind),
    alternatives |-> Field(Vec(ConflictAlternative)), resolution |-> Sparse(Opt(ConflictResolution))])

Attempt == Struct([attempt |-> Field(Count), at |-> Field(Stamp), error |-> Field(Text)])
FailureKind == Plain({"Inference", "ToolCall"}, {})
FailingCall == Struct([type |-> Field(FailureKind), details |-> Field(Json)])
HealthIncident == Struct([
    failing |-> Field(FailingCall), retry_trail |-> Field(Vec(Attempt)),
    last_error |-> Field(Text), transitioned_at |-> Field(Stamp)])
HealthRecord == Struct([
    version |-> Field(Count), state |-> Field(Plain({"Healthy", "Unhealthy"}, {})),
    since |-> Field(Stamp), incident |-> Sparse(Opt(HealthIncident))])

RetirementRecord == Struct([reason |-> Field(Text), retired_at |-> Field(Stamp)])
Claim == Struct([
    seed |-> Field(Text), description |-> Field(Text),
    status |-> Field(Plain({"open", "resolved", "abandoned"}, {})), created_at |-> Field(Stamp)])
=============================================================================
