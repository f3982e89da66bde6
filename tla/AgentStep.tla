----------------------------- MODULE AgentStep -----------------------------
(***************************************************************************)
(* The steps of a cycle (crates/coral_temporal/src/workflow.rs, run): the  *)
(* workflow has a decision made (module LlmDecide), dispatches the tool    *)
(* calls it asks for (module ToolDispatch), shows the outcome to the next  *)
(* decision, and so on until the model idles.  Here are the agent, and     *)
(* the worker that runs its activities.                                    *)
(*                                                                         *)
(* What a decision does other than call tools is in modules AgentWorkflow, *)
(* AgentTree, OutputPropagation and RecentNotes.  Of the steps of a cycle  *)
(* the last observation is kept.  Temporal is external: it retries an      *)
(* attempt that fails retryably or times out for ever, and stops none.     *)
(***************************************************************************)
EXTENDS LlmDecide, ToolDispatch

CONSTANTS MaxFaults     \* bound on the faults of vendor, storage, servers and worker

VARIABLES
    phase,      \* "rest", "deciding", "dispatching" or "failed"
    steps,      \* the last observation of the cycle, in a sequence of at most one
    before,     \* history: the evidence when the batch was dispatched, while it runs
    late,       \* history: an attempt of an earlier batch was running then
    faults
batch == <<before, late>>
agent == <<phase, steps, batch>>
vars == <<decide, dispatch, agent, faults>>

Init ==
    /\ DecideInit /\ DispatchInit
    /\ phase = "rest" /\ steps = <<>> /\ faults = 0
    /\ before = {} /\ late = FALSE

\* A tick, and build_seed, which opens the file system: new_with_storage.
BuildSeed ==
    /\ phase = "rest" /\ phase' = "deciding"
    /\ steps' = <<>>
    /\ tail' = IF files \subseteq tail THEN tail ELSE files
    /\ UNCHANGED <<decide, worker, jobs, ran, files, batch, faults>>

StartDecide ==
    /\ phase = "deciding" /\ Ask(steps)
    /\ UNCHANGED <<dispatch, agent, faults>>

Hear ==
    /\ talk # NoTalk
    /\ \E a \in Answers :
          \/ HearResponse(a) /\ UNCHANGED faults
          \/ HearError(a) /\ faults < MaxFaults /\ faults' = faults + 1
    /\ UNCHANGED <<dispatch, agent>>

-----------------------------------------------------------------------------
(* The workflow and the reply: `?` fails it, a decision is executed.       *)

Fail ==
    /\ reply = Failed /\ phase' = "failed"
    /\ UNCHANGED <<decide, dispatch, steps, batch, faults>>

Decided(type) == reply.kind = "decision" /\ reply.decision.type = type

EndCycle ==
    /\ Decided("idle") /\ TakeReply
    /\ phase' = "rest" /\ steps' = <<>>
    /\ UNCHANGED <<dispatch, batch, faults>>

\* CYCLE_RUNAWAY_FUSE: steps are not counted here, so that it may end any cycle
\* that has taken one.
Fuse ==
    /\ phase = "deciding" /\ steps # <<>> /\ talk = NoTalk /\ reply = NoReply
    /\ phase' = "rest" /\ steps' = <<>>
    /\ UNCHANGED <<decide, dispatch, batch, faults>>

Dispatch ==
    /\ Decided("call_tools") /\ StartBatch(reply.decision.calls) /\ TakeReply
    /\ phase' = "dispatching"
    /\ before' = files /\ late' = (jobs[Stray] # Resting)
    /\ UNCHANGED <<steps, faults>>

ExecuteOther ==
    /\ \E t \in DecisionTool \ {"idle", "call_tool"} : Decided(t)
    /\ TakeReply /\ steps' = <<[ok |-> TRUE, cited |-> {}]>>
    /\ UNCHANGED <<dispatch, phase, batch, faults>>

Observe ==
    /\ phase = "dispatching" /\ CollectBatch
    /\ phase' = "deciding" /\ steps' = <<Observation>>
    /\ before' = {} /\ late' = FALSE
    /\ UNCHANGED <<decide, faults>>

-----------------------------------------------------------------------------
RunJob == /\ \E j \in Job : JobStep(j) \/ ToolRefuses(j)
          /\ UNCHANGED <<decide, agent, faults>>

EndStray == StrayEnds /\ UNCHANGED <<decide, agent, faults>>

DispatchFault ==
    /\ faults < MaxFaults /\ faults' = faults + 1
    /\ \/ \E j \in Job : BuildFails(j) \/ StorageFails(j) \/ TimeOut(j)
       \/ \E s \in DOMAIN procs : ServerDies(s)
    /\ UNCHANGED <<decide, agent>>

DecideFault ==
    /\ faults < MaxFaults /\ faults' = faults + 1
    /\ LoseAttempt
    /\ UNCHANGED <<dispatch, agent>>

WorkerFault ==
    /\ faults < MaxFaults /\ faults' = faults + 1
    /\ RestartWorker
    /\ LoseAttempt \/ (talk = NoTalk /\ UNCHANGED decide)
    /\ UNCHANGED agent

Next ==
    \/ BuildSeed \/ StartDecide \/ Hear
    \/ Fail \/ EndCycle \/ Fuse \/ Dispatch \/ ExecuteOther \/ Observe
    \/ RunJob \/ EndStray
    \/ DispatchFault \/ DecideFault \/ WorkerFault

Spec == Init /\ [][Next]_vars

\* Temporal runs what is scheduled; a vendor, a tool, the storage and the
\* handshake of a server answer in the end.  A call of a server that hangs is
\* not among these: rmcp waits for it for ever.
FairSpec ==
    /\ Spec
    /\ WF_vars(BuildSeed) /\ WF_vars(StartDecide) /\ WF_vars(Hear)
    /\ WF_vars(Fail \/ EndCycle \/ Dispatch \/ ExecuteOther) /\ WF_vars(Observe)
    /\ \A j \in Job : WF_vars(JobStep(j) /\ UNCHANGED <<decide, agent, faults>>)

-----------------------------------------------------------------------------
(* Properties.                                                             *)

\* In every request, first or corrective, each tool call the model is reminded
\* of is answered by its result where the vendor looks for it (llm_decide.rs
\* 186-194): a request that breaks this is refused with a 400, which fails the
\* workflow.
ToolUsesAnswered ==
    talk # NoTalk => AnswersUses(Client, Request.body)

\* The workflow is failed by a mandate that names no model, by an error that
\* another attempt would not mend, or by a response and its correction that
\* both fail to parse: a busy or broken vendor is waited for, and what went
\* wrong in a lost attempt is not held against the next.
FailsForCause ==
    reply = Failed =>
        \/ heard[Len(heard)] \in {"unresolved", "Auth", "Parse", "Other"}
        \/ Len(heard) = 2 /\ ToSet(heard) = {"unparsed"}

\* A tool is executed by a server of a def the agent was granted: a name that
\* two servers advertise is no way from a granted def to the other's tool
\* (is_call_allowed, tool_provider.rs 79-86).
OnlyGrantedRun ==
    \A run \in ran :
        LET s == run[1]
        IN Granted \cap (IF s = Builtin THEN EchoDefIds ELSE DefIds(s)) # {}

\* The calls of a batch lose each other's entries of the evidence sidecar, which each
\* gets, modifies and puts (append_to_tail, fs.rs 1128), but no others: once an
\* attempt has opened the file system, the sidecar lists every record from before the
\* batch, those that earlier batches lost with them, and no write of another attempt
\* takes one away again, unless an attempt of an earlier batch is still at it.
OldRecordsStayListed ==
    ~late => \A j \in Job :
        jobs[j].pc \in {"record", "get", "put", "success"} => before \subseteq tail

\* The workflow always gets its next decision or comes to the end: no batch waits
\* for ever, whatever became of the attempt that held the registry's mutex.
StepsEnd == []<>(reply # NoReply \/ phase \in {"rest", "failed"})

=============================================================================
