--------------------------- MODULE AgentWorkflow ---------------------------
(***************************************************************************)
(* The durable agent loop of crates/coral_temporal/src/workflow.rs: signal *)
(* handlers, wake gate, drain, the decide / log / execute cycle, the two   *)
(* continue-as-new (CAN) sites with their carryover, force-idle, the       *)
(* cycle commit, and the retire path.                                      *)
(*                                                                         *)
(* One action stands for the workflow code between two of its awaits, so   *)
(* that signal handlers interleave exactly at the awaits.  Temporal itself *)
(* is external: it delivers a signal to the open run or, between a CAN and *)
(* the new run's first workflow task, buffers it for the new run; it       *)
(* raises continue_as_new_suggested at any time; it retries an activity    *)
(* until it succeeds or fails for good.                                    *)
(***************************************************************************)
EXTENDS Naturals, Sequences

CONSTANTS
    Signal,             \* identities of the non-retire signals
    BucketOf,           \* the bucket a signal's handler pushes it on
    Never,              \* mandate.is_never(): no self-wake past the first cycle
    HasParent,          \* input.parent_handle.is_some()
    StepCap,            \* mandate.step_cap, the cap on cycles
    CycleRunawayFuse,   \* cap on the steps of one cycle
    HandlersFirst       \* does the SDK run the handlers of the signals in a
                        \* new run's first activation before it first polls run()?

Bucket == {"trigger", "human_op", "mandate_patch"}

ASSUME BucketOfAssumption == BucketOf \in [Signal -> Bucket]
ASSUME FlagAssumption ==
    Never \in BOOLEAN /\ HasParent \in BOOLEAN /\ HandlersFirst \in BOOLEAN
ASSUME CapAssumption == StepCap \in Nat \ {0} /\ CycleRunawayFuse \in Nat \ {0}

Ticks == 0 .. (StepCap - 1)
Steps == 0 .. (CycleRunawayFuse - 1)

-----------------------------------------------------------------------------
(* Signal buckets: one sequence of signals per bucket.                     *)

Queues == [Bucket -> Seq(Signal)]
Counts == [Bucket -> Nat]
Nothing == [b \in Bucket |-> <<>>]
Join(p, q) == [b \in Bucket |-> p[b] \o q[b]]
Push(q, s) == [q EXCEPT ![BucketOf[s]] = Append(@, s)]
Only(q, B) == [b \in Bucket |-> IF b \in B THEN q[b] ELSE <<>>]
NoCount == [b \in Bucket |-> 0]
Count(n, q) == [b \in Bucket |-> n[b] + Len(q[b])]

\* A session is the seed a cycle was started with and the number of steps
\* taken since.  A suspended session has at least one step, so NoSession is
\* Option::None.
Sessions == [seed : Queues, len : 0 .. CycleRunawayFuse]
NoSession == [seed |-> Nothing, len |-> 0]

\* AgentInput.carryover: `some` is Option::is_some.
Wakes == {"unset", "prompt", "cadence"}
Carryovers ==
    [some : BOOLEAN, pending : Queues, retirement : BOOLEAN, nextWake : Wakes,
     observed : Counts, tick : 0 .. StepCap, inFlight : Sessions]
NoCarryover ==
    [some |-> FALSE, pending |-> Nothing, retirement |-> FALSE,
     nextWake |-> "unset", observed |-> NoCount, tick |-> 0,
     inFlight |-> NoSession]

VARIABLES
    \* the workflow struct
    pending,        \* the pending_* queues
    retirement,     \* retirement_request.is_some()
    nextWake,       \* next_wake: "unset", "prompt" (1 ms) or "cadence"
    observed,       \* the cumulative_*_observed counters
    tick,           \* cycle counter
    parked,         \* blocked at the wake gate
    \* locals of run()
    pc,             \* the await the run is blocked on
    session,        \* the open cycle's session
    step,           \* decision-log index
    action,         \* the decision last returned by decide_step
    \* Temporal's side of the workflow
    carry,          \* carryover in the input of a run not yet started
    buffered,       \* signals recorded for a run not yet started
    bufferedRetire, \* a retire signal recorded for a run not yet started
    canSuggested    \* continue_as_new_suggested()

wfVars == <<pending, retirement, nextWake, observed, tick, parked>>
runVars == <<pc, session, step, action>>
temporalVars == <<carry, buffered, bufferedRetire, canSuggested>>

VARIABLES
    \* what has happened so far, on the agent's FS and in its history
    received,       \* per bucket, every signal accepted
    consumed,       \* per bucket, the signals of closed cycles
    decisionLog,    \* number of times decisions/<tick>-<step>.jsonl was written
    performed,      \* number of times the action of (tick, step) was executed
    commits,        \* number of cycle commits made under a tick
    forceIdled,     \* a cycle was force-idled and no cycle has started since
    retirementFile, \* retirement.json was written
    notified        \* ChildRetired reached the parent

historyVars == <<received, consumed, decisionLog, performed, commits,
                 forceIdled, retirementFile, notified>>

vars == <<wfVars, runVars, temporalVars, historyVars>>

Closing == {"retiring", "notify"}
Closed == {"done", "failed"}
PC == {"start", "gate", "seed", "decide", "log", "execute", "commit"}
          \cup Closing \cup Closed

Init ==
    /\ pending = Nothing /\ retirement = FALSE /\ nextWake = "unset"
    /\ observed = NoCount /\ tick = 0 /\ parked = FALSE
    /\ pc = "start" /\ session = NoSession /\ step = 0 /\ action = "none"
    /\ carry = NoCarryover /\ buffered = Nothing /\ bufferedRetire = FALSE
    /\ canSuggested = FALSE
    /\ received = Nothing /\ consumed = Nothing
    /\ decisionLog = [k \in Ticks \X Steps |-> 0]
    /\ performed = [k \in Ticks \X Steps |-> 0]
    /\ commits = [t \in Ticks |-> 0]
    /\ forceIdled = FALSE /\ retirementFile = FALSE /\ notified = FALSE

-----------------------------------------------------------------------------
(* Signals.                                                                *)

Sent(s) == \E i \in DOMAIN received[BucketOf[s]] : received[BucketOf[s]][i] = s

\* external_signal, human_override and mandate_update push the payload on
\* their queue and bump the bucket's counter.  A run that has not had its
\* first workflow task has no handler to call yet.
ReceiveSignal(s) ==
    /\ pc \notin Closed
    /\ ~Sent(s)
    /\ received' = Push(received, s)
    /\ IF pc = "start"
       THEN /\ buffered' = Push(buffered, s)
            /\ UNCHANGED <<pending, observed>>
       ELSE /\ pending' = Push(pending, s)
            /\ observed' = [observed EXCEPT ![BucketOf[s]] = @ + 1]
            /\ UNCHANGED buffered
    /\ UNCHANGED <<retirement, nextWake, tick, parked, runVars, carry,
                   bufferedRetire, canSuggested, consumed, decisionLog,
                   performed, commits, forceIdled, retirementFile, notified>>

\* retire overwrites any earlier request.
ReceiveRetire ==
    /\ pc \notin Closed
    /\ IF pc = "start"
       THEN bufferedRetire' = TRUE /\ UNCHANGED retirement
       ELSE retirement' = TRUE /\ UNCHANGED bufferedRetire
    /\ UNCHANGED <<pending, nextWake, observed, tick, parked, runVars, carry,
                   buffered, canSuggested, historyVars>>

\* The server decides that the run's history is long enough.
SuggestContinueAsNew ==
    /\ pc \notin Closed \cup {"start"}
    /\ ~canSuggested
    /\ canSuggested' = TRUE
    /\ UNCHANGED <<wfVars, runVars, carry, buffered, bufferedRetire, historyVars>>

-----------------------------------------------------------------------------
(* Start of a run and top of the loop.                                     *)

\* The await the loop reaches next from its top, given the cycle counter, the
\* suspended session it resumes (NoSession: none) and the retirement flag: the
\* step cap first, then, on a resume only, the retirement peek.
LoopTop(t, inFlight, retire) ==
    IF t >= StepCap THEN "retiring"
    ELSE IF inFlight = NoSession THEN "gate"
    ELSE IF retire THEN "retiring"
    ELSE "decide"

\* First workflow task of a run: hydrate_from_carryover, then the loop top.
\* The handlers of signals buffered for this run are called either before the
\* run function is first polled (hydration then overwrites what they did) or
\* after it blocks.
StartRun ==
    /\ pc = "start"
    /\ LET early == HandlersFirst /\ ~carry.some
           queue == IF early THEN buffered ELSE carry.pending
           asked == IF early THEN bufferedRetire ELSE carry.retirement
           seen  == IF early THEN Count(NoCount, buffered) ELSE carry.observed
           late  == IF HandlersFirst THEN Nothing ELSE buffered
           top   == LoopTop(carry.tick, carry.inFlight, asked)
           resumed == carry.inFlight # NoSession
       IN /\ pending' = Join(queue, late)
          /\ observed' = Count(seen, late)
          /\ retirement' = \/ asked /\ ~resumed
                           \/ bufferedRetire /\ ~HandlersFirst
          /\ pc' = top
          /\ parked' = (top = "gate")
    /\ nextWake' = carry.nextWake
    /\ tick' = carry.tick
    /\ session' = carry.inFlight
    /\ step' = carry.inFlight.len
    /\ carry' = NoCarryover
    /\ buffered' = Nothing
    /\ bufferedRetire' = FALSE
    /\ UNCHANGED <<action, canSuggested, historyVars>>

-----------------------------------------------------------------------------
(* Wake gate, drain and seed.                                              *)

\* Faults: the wake condition leaves the retirement request out, or the queues.
WaitingOnQueues == \E b \in Bucket : pending[b] # <<>>
WaitingOnRetire == retirement

SignalWaiting == retirement \/ \E b \in Bucket : pending[b] # <<>>

\* arm_self_wake(never, is_first_wake).
ArmSelfWake == ~Never \/ tick = 0

\* wait_for_tick returns on a signal or on its timer; drain_buckets then takes
\* all four buckets.  A retirement request discards the rest of the drain; an
\* empty drain stands for the synthesized ScheduledWake.
Wake ==
    /\ pc = "gate"
    /\ SignalWaiting \/ ArmSelfWake
    /\ parked' = FALSE
    /\ pending' = Nothing
    /\ retirement' = FALSE
    /\ IF retirement
       THEN pc' = "retiring" /\ UNCHANGED session
       ELSE pc' = "seed" /\ session' = [seed |-> pending, len |-> 0]
    /\ UNCHANGED <<nextWake, observed, tick, step, action, temporalVars, historyVars>>

\* build_seed folds triggers and human ops into the seed and drops the mandate
\* patches, which nothing applies.
SeedBuilt ==
    /\ pc = "seed"
    /\ session' = [session EXCEPT !.seed = Only(@, {"trigger", "human_op"})]
    /\ consumed' = Join(consumed, Only(session.seed, {"mandate_patch"}))
    /\ step' = 0
    /\ pc' = "decide"
    /\ forceIdled' = FALSE
    /\ UNCHANGED <<wfVars, action, temporalVars, received, decisionLog,
                   performed, commits, retirementFile, notified>>

-----------------------------------------------------------------------------
(* One step of a cycle: decide, log, execute.                              *)

Decide(a) ==
    /\ pc = "decide"
    /\ action' = a
    /\ pc' = "log"
    /\ UNCHANGED <<wfVars, session, step, temporalVars, historyVars>>

\* decide_step failed with an error classify_decide_error makes non-retryable:
\* "invalid" (no valid decision after the model's retries) or "fatal".
DecideFails(a) ==
    /\ pc = "decide"
    /\ action' = a
    /\ pc' = "failed"
    /\ UNCHANGED <<wfVars, session, step, temporalVars, historyVars>>

\* append_decision_log puts decisions/<tick>-<step>.jsonl before the action
\* runs.  Idle ends the cycle and pins the cadence.
LogDecision ==
    /\ pc = "log"
    /\ decisionLog' = [decisionLog EXCEPT ![<<tick, step>>] = @ + 1]
    /\ step' = step + 1
    /\ IF action = "idle"
       THEN pc' = "commit" /\ nextWake' = "cadence"
       ELSE pc' = "execute" /\ UNCHANGED nextWake
    /\ UNCHANGED <<pending, retirement, observed, tick, parked, session, action,
                   temporalVars, received, consumed, performed, commits,
                   forceIdled, retirementFile, notified>>

\* execute_action returned an observation, success or failure alike, and
\* session.push recorded it under the index the decision was logged under.
Perform ==
    /\ pc = "execute"
    /\ performed' = [performed EXCEPT ![<<tick, session.len>>] = @ + 1]
    /\ UNCHANGED <<received, consumed, decisionLog, commits, retirementFile, notified>>

Pushed == [session EXCEPT !.len = @ + 1]
FuseBlown == Pushed.len >= CycleRunawayFuse

ExecuteAndContinue ==
    /\ Perform
    /\ ~FuseBlown /\ ~canSuggested
    /\ session' = Pushed
    /\ pc' = "decide"
    /\ UNCHANGED <<wfVars, step, action, temporalVars, forceIdled>>

\* The runaway fuse ends the cycle and leaves next_wake as it was.
ExecuteAndBlowFuse ==
    /\ Perform
    /\ FuseBlown
    /\ session' = Pushed
    /\ pc' = "commit"
    /\ UNCHANGED <<wfVars, step, action, temporalVars, forceIdled>>

\* carry_decision: the session is too large for a CAN payload.
ForceIdle ==
    /\ Perform
    /\ ~FuseBlown /\ canSuggested
    /\ session' = Pushed
    /\ nextWake' = "prompt"
    /\ pc' = "commit"
    /\ forceIdled' = TRUE
    /\ UNCHANGED <<pending, retirement, observed, tick, parked, step, action,
                   temporalVars>>

CarryoverOf(queue, counts, t, inFlight) ==
    [some |-> TRUE, pending |-> queue, retirement |-> retirement,
     nextWake |-> nextWake, observed |-> counts, tick |-> t,
     inFlight |-> inFlight]

\* Faults: a field is missing from the carryover.
EncodeWithoutQueues(t, inFlight) == CarryoverOf(Nothing, observed, t, inFlight)
EncodeWithoutSession(t, inFlight) == CarryoverOf(pending, observed, t, NoSession)

\* encode_carryover reads the struct; `t` is the cycle counter at the CAN site,
\* `inFlight` the session the mid-cycle site attaches.
EncodeCarryover(t, inFlight) == CarryoverOf(pending, observed, t, inFlight)

\* continue_as_new ends the run; the next one starts from a default struct.
ContinueAsNew(t, inFlight) ==
    /\ carry' = EncodeCarryover(t, inFlight)
    /\ pending' = Nothing /\ retirement' = FALSE /\ nextWake' = "unset"
    /\ observed' = NoCount /\ tick' = 0 /\ parked' = FALSE
    /\ pc' = "start" /\ session' = NoSession /\ step' = 0
    /\ canSuggested' = FALSE
    /\ UNCHANGED <<action, buffered, bufferedRetire>>

\* Fault: the session is cloned before the step's observation is pushed.
SuspendBeforePush ==
    /\ Perform
    /\ ~FuseBlown /\ canSuggested
    /\ ContinueAsNew(tick, session)
    /\ UNCHANGED forceIdled

MidCycleContinueAsNew ==
    /\ Perform
    /\ ~FuseBlown /\ canSuggested
    /\ ContinueAsNew(tick, Pushed)
    /\ UNCHANGED forceIdled

-----------------------------------------------------------------------------
(* End of a cycle and retirement.                                          *)

\* commit_tick, then the tick bump, then the cycle-boundary CAN or the loop top.
CommitCycle ==
    /\ pc = "commit"
    /\ commits' = [commits EXCEPT ![tick] = @ + 1]
    /\ consumed' = Join(consumed, session.seed)
    /\ IF canSuggested
       THEN ContinueAsNew(tick + 1, NoSession)
       ELSE /\ tick' = tick + 1
            /\ session' = NoSession
            /\ pc' = LoopTop(tick + 1, NoSession, retirement)
            /\ parked' = (pc' = "gate")
            /\ UNCHANGED <<pending, retirement, nextWake, observed, step, action,
                           temporalVars>>
    /\ UNCHANGED <<received, decisionLog, performed, forceIdled,
                   retirementFile, notified>>

PersistRetirement ==
    /\ pc = "retiring"
    /\ retirementFile' = TRUE
    /\ pc' = IF HasParent THEN "notify" ELSE "done"
    /\ UNCHANGED <<wfVars, session, step, action, temporalVars, received,
                   consumed, decisionLog, performed, commits, forceIdled, notified>>

\* signal_parent_with_trigger is best effort: a failure is logged and ignored.
NotifyParent ==
    /\ pc = "notify"
    /\ notified' \in BOOLEAN
    /\ pc' = "done"
    /\ UNCHANGED <<wfVars, session, step, action, temporalVars, received,
                   consumed, decisionLog, performed, commits, forceIdled,
                   retirementFile>>

\* An activity other than decide_step fails for good and `?` ends the run.
ActivityFails ==
    /\ pc \in {"seed", "log", "execute", "commit", "retiring"}
    /\ pc' = "failed"
    /\ UNCHANGED <<wfVars, session, step, action, temporalVars, historyVars>>

-----------------------------------------------------------------------------

RunStep ==
    \/ StartRun
    \/ Wake
    \/ SeedBuilt
    \/ \E a \in {"idle", "act"} : Decide(a)
    \/ LogDecision
    \/ ExecuteAndContinue
    \/ ExecuteAndBlowFuse
    \/ ForceIdle
    \/ MidCycleContinueAsNew
    \/ CommitCycle
    \/ PersistRetirement
    \/ NotifyParent

Next ==
    \/ \E s \in Signal : ReceiveSignal(s)
    \/ ReceiveRetire
    \/ SuggestContinueAsNew
    \/ RunStep
    \/ \E a \in {"invalid", "fatal"} : DecideFails(a)
    \/ ActivityFails

Spec == Init /\ [][Next]_vars

\* Temporal reschedules a workflow task and retries an activity until it ends,
\* and its timers fire: whatever the run waits for happens.  Nothing obliges
\* anyone to send a signal, an activity to fail or the server to suggest a CAN.
FairSpec == Spec /\ WF_vars(RunStep)

-----------------------------------------------------------------------------
(* Properties.                                                             *)

\* What every variable ranges over.
TypeOK ==
    /\ pending \in Queues /\ buffered \in Queues
    /\ received \in Queues /\ consumed \in Queues
    /\ retirement \in BOOLEAN /\ bufferedRetire \in BOOLEAN
    /\ nextWake \in Wakes
    /\ observed \in Counts
    /\ tick \in 0 .. StepCap
    /\ parked \in BOOLEAN
    /\ pc \in PC
    /\ session \in Sessions
    /\ step \in 0 .. CycleRunawayFuse
    /\ action \in {"none", "idle", "act", "invalid", "fatal"}
    /\ carry \in Carryovers
    /\ canSuggested \in BOOLEAN
    /\ decisionLog \in [Ticks \X Steps -> Nat]
    /\ performed \in [Ticks \X Steps -> Nat]
    /\ commits \in [Ticks -> Nat]
    /\ forceIdled \in BOOLEAN /\ retirementFile \in BOOLEAN /\ notified \in BOOLEAN

\* The state of the agent, wherever it currently is: in the struct and locals of
\* the open run, or in the input of the next one.
Between == pc = "start"
InHand(b) == IF Between THEN carry.inFlight.seed[b] ELSE session.seed[b]
Queued(b) == IF Between THEN carry.pending[b] \o buffered[b] ELSE pending[b]
CycleCount == IF Between THEN carry.tick ELSE tick
StepsTaken == IF Between THEN carry.inFlight.len ELSE session.len
Open == pc \notin Closing \cup Closed
Taken(b) == consumed[b] \o InHand(b)
Phase ==
    IF ~Open THEN "closed"
    ELSE IF pc = "gate" \/ (Between /\ carry.inFlight = NoSession) THEN "waiting"
    ELSE "cycle"

\* Every signal accepted is, in order of acceptance, exactly once in: the cycles
\* already closed, the open cycle, the queues.  Draining, building a seed, both
\* continue-as-new sites, hydration and force-idle neither lose, nor repeat, nor
\* reorder one (workflow.rs: drain_buckets, encode_carryover,
\* hydrate_from_carryover), provided the SDK polls run() before it dispatches
\* the signals of a run's first activation.
ExactlyOnceHandOff ==
    Open /\ ~HandlersFirst =>
        \A b \in Bucket : received[b] = consumed[b] \o InHand(b) \o Queued(b)

\* The cumulative counters the reaper's digest is built from count every receipt
\* over the whole life of the agent, across runs: a snapshot never shows fewer
\* signals than were handled, nor the same count after one more.
CountersCoverReceipts ==
    ~HandlersFirst =>
        \A b \in Bucket :
            Len(received[b]) = IF Between THEN carry.observed[b] + Len(buffered[b])
                               ELSE observed[b]

\* decisions/<tick>-<step>.jsonl is written once, no step is executed twice or
\* unlogged, and the trail of the open cycle has no gap, whatever continue-as-new
\* fell between the two ("nothing re-executes and the decision log never
\* clobbers", the comment on the mid-cycle CAN site).
TrailExact ==
    \A t \in Ticks, s \in Steps :
        /\ decisionLog[<<t, s>>] <= 1
        /\ performed[<<t, s>>] <= decisionLog[<<t, s>>]
        /\ t > CycleCount => decisionLog[<<t, s>>] = 0
        /\ t = CycleCount /\ Open => performed[<<t, s>>] = IF s < StepsTaken THEN 1 ELSE 0
        /\ t = CycleCount /\ pc = "decide" =>
               decisionLog[<<t, s>>] = IF s < step THEN 1 ELSE 0
        /\ s > 0 /\ decisionLog[<<t, s>>] = 1 => performed[<<t, s - 1>>] = 1

\* A cycle is committed exactly once, at its true end, even when it spanned
\* continue-as-news, and a cycle that did not complete is not.
CommitOncePerCycle ==
    \A t \in Ticks : commits[t] = IF t < CycleCount THEN 1 ELSE 0

\* A retirement request that is already recorded when a cycle would start or
\* resume wins: no seed is built and no suspended session is resumed after it.
RetirementPreempts ==
    [][ /\ pc = "gate" /\ pc' = "seed" => ~retirement
        /\ pc = "start" /\ pc' = "decide" => ~carry.retirement ]_vars

\* "The retirement log is the final entry for the workflow": once retirement.json
\* is written the run decides, executes and commits nothing more.
RetirementIsFinal ==
    [][retirementFile => UNCHANGED <<decisionLog, performed, commits, consumed>>]_vars

\* A retirement request eventually ends the agent, even a `never` agent asleep at
\* its gate and even in a cycle that never chooses Idle: the fuse bounds it.
RetireHonoured ==
    retirement \/ bufferedRetire \/ carry.retirement ~> pc \in Closed

\* The agent, seen through its runs: the hand-off promise holds as if there were
\* no continue-as-new at all.
HandOff == INSTANCE SignalHandOff WITH
    received <- received,
    taken <- [b \in Bucket |-> Taken(b)],
    cycles <- CycleCount,
    phase <- Phase

HandOffSafety == HandOff!Spec
HandOffProgress == HandOff!LiveSpec

\* workflow.rs, force-idle: "Wake promptly so the dropped in-cycle work resumes
\* from the FS regardless of cadence (a `never` agent must not sleep forever
\* here)": after a force-idled cycle another cycle starts, unless the agent closes.
ForceIdleResumes == forceIdled ~> ~forceIdled \/ pc \in Closed
=============================================================================
