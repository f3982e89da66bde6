-------------------------- MODULE DurablePayloads --------------------------
(***************************************************************************)
(* What is written down by one process and read by another.  A workflow's  *)
(* history, the input it continues as new with and the files of an agent   *)
(* outlive the worker, so that the process that reads a payload may be of  *)
(* a later release than the one that wrote it; from then on the later      *)
(* release writes the value again, in the next activity's input, the next  *)
(* run's, or the next file.                                                *)
(***************************************************************************)
EXTENDS DurableTypes

CONSTANTS
    MaxReads    \* Bound: how often one value is read

\* The types that cross from one process to another.
Durable == [
    AgentInput |-> AgentInput, AgentResult |-> AgentResult, AgentSnapshot |-> AgentSnapshot,
    Trigger |-> Trigger, HumanOp |-> HumanOp, MandatePatch |-> MandatePatch,
    BuildSeedInput |-> BuildSeedInput, BuildSeedOutput |-> BuildSeedOutput,
    DecideStepInput |-> DecideStepInput, Decision |-> Decision,
    ReadFsInput |-> ReadFsInput, ReadFsOutput |-> ReadFsOutput,
    ExecuteToolInput |-> ExecuteToolInput, ToolCallOutcome |-> ToolCallOutcome,
    PersistOutputInput |-> PersistOutputInput, PersistOutputOutput |-> PersistOutputOutput,
    ApplyFsOpsInput |-> ApplyFsOpsInput, ApplyFsOpsOutput |-> ApplyFsOpsOutput,
    PersistRetirementInput |-> PersistRetirementInput,
    AppendDecisionLogInput |-> AppendDecisionLogInput, CommitTickInput |-> CommitTickInput,
    RegisterChildInStructuralDbInput |-> RegisterChildInStructuralDbInput,
    RegisterChildOutcome |-> RegisterChildOutcome,
    ReconcileChildrenInput |-> ReconcileChildrenInput,
    ReconcileChildrenOutput |-> ReconcileChildrenOutput,
    DecisionLogEntry |-> DecisionLogEntry, EvidenceRecord |-> EvidenceRecord,
    ConflictRecord |-> ConflictRecord, HealthRecord |-> HealthRecord,
    RetirementRecord |-> RetirementRecord, Claim |-> Claim]

\* The older releases: the one that had none of the later fields, and those that had
\* all of them but one.
Older == {LaterFields} \cup {{f} : f \in LaterFields}

VARIABLES
    type,       \* the name of the payload's type
    value,      \* what the process that has it holds
    wire,       \* what has been written
    at,         \* whether it is held, written, or could not be read
    reads,
    writer,     \* history: the release that wrote last
    written     \* history: what was written last

pvars == <<type, value, wire, at, reads, writer, written>>

HeldOneOf(values) ==
    /\ type \in DOMAIN Durable /\ value \in values[type] /\ written = value
    /\ wire = Null /\ at = "held" /\ reads = 0 /\ writer = "current"

PInit == HeldOneOf([n \in DOMAIN Durable |-> Durable[n].values])

Stored(release, by) ==
    /\ at = "held" /\ reads < MaxReads
    /\ wire' = Durable[type].write[release][value]
    /\ at' = "written" /\ writer' = by /\ written' = value
    /\ UNCHANGED <<type, value, reads>>

Write == Stored(Current, "current")

\* The worker is rolled forward while the payload is stored.
WriteOlder == reads = 0 /\ \E release \in Older : Stored(release, "older")

\* The reader has nothing but the payload.
Read ==
    /\ at = "written"
    /\ LET read == Durable[type].read[wire]
       IN IF read = <<>> THEN at' = "wedged" /\ UNCHANGED value
          ELSE at' = "held" /\ value' = read[1]
    /\ reads' = reads + 1
    /\ UNCHANGED <<type, wire, writer, written>>

PNext == Write \/ WriteOlder \/ Read

PSpec == PInit /\ [][PNext]_pvars

-----------------------------------------------------------------------------
(* Properties.                                                             *)

\* What is read is what was written, through as many hands as it goes: no payload
\* fails its reader on every retry, and only durations lose their microseconds, and
\* what of them is beyond u64, and they only once.
CarriedUnchanged ==
    [][at = "written" /\ writer = "current" =>
          /\ at' = "held"
          /\ value' = IF reads > 0 THEN written ELSE Durable[type].kept[written]]_pvars

\* agent_quiescent, of a snapshot.
Quiescent(s) ==
    /\ s.is_never /\ s.parked /\ s.tick >= 1
    /\ s.pending_triggers_count = 0 /\ s.pending_human_ops_count = 0
    /\ s.pending_mandate_patches_count = 0

NoMoreTools(read, mandate) == read.tools \in {mandate.tools, <<>>}

\* All but the cycle in flight, which is resumed or begun afresh.
SignalsOf(c) == [c EXCEPT !.in_flight = <<>>]

\* What is read for what was written.
Conservative(n, before, after) ==
    /\ n = "AgentSnapshot" => (Quiescent(after) => Quiescent(before))
    /\ n = "AgentInput" =>
          /\ NoMoreTools(after.mandate, before.mandate)
          /\ Len(after.carryover) = Len(before.carryover)
          /\ after.carryover # <<>> =>
                SignalsOf(after.carryover[1]) = SignalsOf(before.carryover[1])
    /\ n = "BuildSeedInput" =>
          /\ NoMoreTools(after.mandate, before.mandate)
          /\ after.triggers = before.triggers /\ after.human_ops = before.human_ops

\* What an older release wrote can be read, and what it did not write is read as
\* what is safe: no agent is taken for quiescent that is not, no agent is granted a
\* tool it did not have, and no signal, counter or child is lost with the cycle in
\* flight (mandate.rs 352-366, workflow.rs 189 and 284-305).
OlderIsConservative ==
    writer = "older" =>
        /\ at # "wedged"
        /\ at = "held" => Conservative(type, written, value)
=============================================================================
