----------------------------- MODULE MCDurable -----------------------------
(***************************************************************************)
(* What outlives a worker: an agent's directory and its history, the rows  *)
(* of the structural database, and payloads of every type.  They are not   *)
(* written by one another, and each is run beside the others at rest.      *)
(***************************************************************************)
EXTENDS AgentGit, StructuralDb, MCDurablePayloads, TLC

CONSTANTS evidence, note, v1, v2, taskA, taskB, tick, retry

\* TLC takes every value to be in it.
Anything == Any

\* evidence/e.json, which is created, and notes/n.md, which is put and deleted.
TwoKeys == <<evidence, note>>

\* Contents, tasks and attempts are only ever compared.
Interchangeable ==
    Permutations(Value) \cup Permutations(Caller) \cup Permutations(Commit)

DurableInit == Init /\ TypicalInit /\ DbInit

\* One of the payloads, so that the files and the rows are run once.
AtRest == type = "AgentResult" /\ reads = 0 /\ at = "held" /\ value.fields.reason = "some"

DurableNext ==
    \/ Next /\ AtRest /\ sent = 0 /\ UNCHANGED <<pvars, dbvars>>
    \/ PNext /\ begun + faults + sent = 0 /\ UNCHANGED <<vars, dbvars>>
    \/ DbNext /\ AtRest /\ begun + faults = 0 /\ UNCHANGED <<vars, pvars>>

DurableSpec == DurableInit /\ [][DurableNext]_<<vars, pvars, dbvars>>

=============================================================================
