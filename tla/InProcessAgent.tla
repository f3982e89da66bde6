--------------------------- MODULE InProcessAgent ---------------------------
(***************************************************************************)
(* The in-process host of crates/coral_node/src/agent.rs: the wake race    *)
(* over the trigger queue (trigger_queue.rs, scheduler.rs), the inner loop *)
(* of decide and execute (agent_core.rs), the retry budget of one cycle,   *)
(* and the health record with its archive (health.rs), across crashes.     *)
(*                                                                         *)
(* A health state is the number of the incident that made the agent        *)
(* Unhealthy, or Healthy.  An error that `?` returns from run() ends the   *)
(* process like a crash: nothing more is written.  What a step does to the *)
(* agent file system is left out; its outcome is what counts here.         *)
(***************************************************************************)
EXTENDS Integers, Sequences, FiniteSets

CONSTANTS
    Trigger,            \* identities of the triggers producers send
    ClassOf,            \* class_priority of each
    ScheduledWake,      \* what the timer pushes
    Never,              \* cfg.is_never()
    StepCap,            \* cfg.step_cap, the cap on cycles
    CycleRunawayFuse,   \* cap on the steps of one cycle
    Budget,             \* RetryBudget: max_inference and max_tool
    MaxBatch,           \* bound on the failed calls of one CallTools
    MaxIncidents,       \* bound on the incidents
    MaxClock,           \* bound on the seconds of the clock
    MaxCrashes          \* bound on the crashes

Class == {"human", "external", "child"}
Kind == {"Inference", "ToolCall"}

ASSUME TriggerAssumption == ClassOf \in [Trigger -> Class] /\ ScheduledWake \notin Trigger
ASSUME LimitAssumption ==
    /\ Never \in BOOLEAN /\ Budget \in [Kind -> Nat]
    /\ StepCap \in Nat \ {0} /\ CycleRunawayFuse \in Nat \ {0} /\ MaxBatch \in Nat \ {0}
ASSUME BoundAssumption == MaxIncidents \in Nat /\ MaxClock \in Nat /\ MaxCrashes \in Nat

Healthy == 0
Second == 0 .. MaxClock

VARIABLES
    \* the process
    pc,         \* where run() is; "down" when there is no process
    tick,       \* cycles begun
    inbox,      \* TriggerQueue: staging buffer and channel, in arrival order
    steps,      \* session.len()
    used,       \* HealthTracker: inference_used and tool_used
    health,     \* HealthTracker.state
    \* the disk
    live,       \* health.json
    archive,    \* health/<second>.json
    \* the world, and history
    clock,      \* the clock
    stamps,     \* transitioned_at of each incident
    crashes,
    sent,       \* triggers sent to this process, in order
    handed,     \* triggers its cycles were seeded with, in order
    failed,     \* failures of the open cycle, by kind
    verdict,    \* how the last cycle ended
    recovered   \* incidents an Idle has ended

control == <<pc, tick, steps, used>>
record == <<health, live, archive, stamps, recovered>>
mail == <<inbox, sent, handed>>
world == <<clock, crashes>>
vars == <<control, record, mail, world, failed, verdict>>

Alive == pc \notin {"down", "retired"}
NoFailures == [k \in Kind |-> 0]

Init ==
    /\ pc = "top" /\ tick = 0 /\ steps = 0 /\ used = NoFailures
    /\ inbox = <<>> /\ sent = <<>> /\ handed = <<>>
    /\ health = Healthy /\ live = Healthy /\ archive = [s \in Second |-> Healthy]
    /\ stamps = <<>> /\ recovered = {}
    /\ clock = 0 /\ crashes = 0
    /\ failed = NoFailures /\ verdict = "none"

-----------------------------------------------------------------------------
(* The trigger queue and the wake boundary.                                *)

InRange(s, t) == \E i \in DOMAIN s : s[i] = t

\* SignalSink::send, from any thread.
Send(t) ==
    /\ Alive /\ ~InRange(sent, t)
    /\ sent' = Append(sent, t) /\ inbox' = Append(inbox, t)
    /\ UNCHANGED <<control, record, world, handed, failed, verdict>>

CapReached == tick >= StepCap

RetireAtCap ==
    /\ pc = "top" /\ CapReached
    /\ pc' = "retired"
    /\ UNCHANGED <<tick, steps, used, record, mail, world, failed, verdict>>

BeginWait ==
    /\ pc = "top" /\ ~CapReached
    /\ pc' = "gate" /\ tick' = tick + 1
    /\ UNCHANGED <<steps, used, record, mail, world, failed, verdict>>

\* The biased select polls the queue first.
WokenByTrigger ==
    /\ pc = "gate" /\ inbox # <<>>
    /\ pc' = "drain"
    /\ UNCHANGED <<tick, steps, used, record, mail, world, failed, verdict>>

\* arm_self_wake, and a queue polled empty when the deadline has elapsed.
SelfWakes ==
    /\ pc = "gate" /\ inbox = <<>> /\ (~Never \/ tick = 1)
    /\ pc' = "elapsed"
    /\ UNCHANGED <<tick, steps, used, record, mail, world, failed, verdict>>

PushScheduledWake ==
    /\ pc = "elapsed"
    /\ pc' = "drain" /\ inbox' = Append(inbox, ScheduledWake)
    /\ UNCHANGED <<tick, steps, used, record, sent, handed, world, failed, verdict>>

\* class_priority: lower goes first.
ClassPriority == [human |-> 0, external |-> 1, child |-> 2]
Priority(t) == IF t = ScheduledWake THEN 3 ELSE ClassPriority[ClassOf[t]]

\* Fault: of two triggers of one class the later one goes first.
NewestFirst(s, j, k) ==
    \/ Priority(s[j]) < Priority(s[k])
    \/ Priority(s[j]) = Priority(s[k]) /\ k < j

\* sort_by_key is stable: those of one class keep the order of their arrival.
GoesFirst(s, j, k) ==
    \/ Priority(s[j]) < Priority(s[k])
    \/ Priority(s[j]) = Priority(s[k]) /\ j < k

PlaceOf(s, k) == 1 + Cardinality({j \in DOMAIN s : GoesFirst(s, j, k)})
SortByClass(s) == [i \in DOMAIN s |-> s[CHOOSE k \in DOMAIN s : PlaceOf(s, k) = i]]

\* Fault: only the triggers wait_nonempty has staged are drained.
DrainStaged ==
    SubSeq(inbox, 1, 1)

\* drain_ordered: the staging buffer and the channel, sorted.
DrainOrdered == SortByClass(inbox)

\* begin_tick.
FreshBudget == NoFailures

BeginCycle ==
    /\ pc = "drain"
    /\ handed' = handed \o DrainOrdered /\ inbox' = <<>>
    /\ used' = FreshBudget /\ failed' = NoFailures
    /\ pc' = "decide" /\ steps' = 0
    /\ UNCHANGED <<tick, sent, record, world, verdict>>

-----------------------------------------------------------------------------
(* The inner loop.                                                         *)

\* A cycle ends with its verdict.
Conclude(v) == pc' = "top" /\ verdict' = v

\* A step was taken: the fuse ends the cycle without a verdict on its health.
Stepped ==
    /\ steps' = steps + 1
    /\ IF steps + 1 >= CycleRunawayFuse
       THEN Conclude("fuse")
       ELSE pc' = pc /\ UNCHANGED verdict

ExecuteOk ==
    /\ pc = "decide"
    /\ Stepped
    /\ UNCHANGED <<tick, used, record, mail, world, failed>>

\* transition_to_unhealthy: health.json is overwritten in place.
BecomeUnhealthy ==
    /\ Len(stamps) < MaxIncidents
    /\ stamps' = Append(stamps, clock)
    /\ health' = Len(stamps) + 1 /\ live' = Len(stamps) + 1
    /\ UNCHANGED <<archive, recovered>>

\* decide returned Err: no slot is spent.
DecideFails ==
    /\ pc = "decide"
    /\ BecomeUnhealthy
    /\ Conclude("decide")
    /\ UNCHANGED <<tick, steps, used, mail, world, failed>>

\* Fault: the failures of a batch count as one.
SpendOne(kind, n) == used[kind] + 1

\* record_failure for each of n failures, up to the one that exhausts the budget.
Spend(kind, n) ==
    IF used[kind] + n > Budget[kind] THEN Budget[kind] + 1 ELSE used[kind] + n

\* record_cycle_failure.
ExecuteFails(kind, n) ==
    /\ pc = "decide"
    /\ used' = [used EXCEPT ![kind] = Spend(kind, n)]
    /\ failed' = [failed EXCEPT ![kind] = @ + n]
    /\ IF used'[kind] > Budget[kind]
       THEN BecomeUnhealthy /\ Conclude("budget") /\ steps' = steps + 1
       ELSE Stepped /\ UNCHANGED record
    /\ UNCHANGED <<tick, mail, world>>

\* execute_call_tools: the calls that succeed keep their evidence, and each that
\* fails counts.
BatchFails == \E n \in 1 .. MaxBatch : ExecuteFails("ToolCall", n)

\* needs_correction: a mistake of the model's, such as a batch with an unknown tool,
\* of which nothing is dispatched.
NeedsCorrection == ExecuteFails("Inference", 1)

\* Idle of a healthy agent: mark_tick_success touches no file.
IdleHealthy ==
    /\ pc = "decide" /\ health = Healthy
    /\ used' = NoFailures
    /\ Conclude("idle")
    /\ UNCHANGED <<tick, steps, record, mail, world, failed>>

\* Fault: the live file is overwritten before the incident is archived.
WriteHealthyFirst ==
    /\ pc = "decide" /\ health # Healthy
    /\ live' = Healthy
    /\ pc' = "recovering"
    /\ UNCHANGED <<tick, steps, used, health, archive, stamps, recovered, mail, world,
                   failed, verdict>>

\* archive_current: the live file is copied under the second of its incident.
ArchiveCurrent ==
    /\ pc = "decide" /\ health # Healthy
    /\ archive' = [archive EXCEPT ![stamps[health]] = live]
    /\ pc' = "recovering"
    /\ UNCHANGED <<tick, steps, used, health, live, stamps, recovered, mail, world,
                   failed, verdict>>

\* write_healthy.
WriteHealthy ==
    /\ pc = "recovering"
    /\ live' = Healthy /\ health' = Healthy
    /\ recovered' = recovered \cup {health}
    /\ used' = NoFailures
    /\ Conclude("idle")
    /\ UNCHANGED <<tick, steps, archive, stamps, mail, world, failed>>

-----------------------------------------------------------------------------
(* The world.                                                              *)

SecondPasses ==
    /\ clock < MaxClock
    /\ clock' = clock + 1
    /\ UNCHANGED <<control, record, mail, crashes, failed, verdict>>

Crash ==
    /\ Alive /\ crashes < MaxCrashes
    /\ crashes' = crashes + 1 /\ pc' = "down"
    /\ UNCHANGED <<tick, steps, used, record, mail, clock, failed, verdict>>

\* Fault: the record on disk is not rehydrated.
OpenAfresh == Healthy

\* HealthTracker::open.
OpenHealth == live

Restart ==
    /\ pc = "down"
    /\ pc' = "top" /\ tick' = 0 /\ steps' = 0 /\ used' = NoFailures
    /\ inbox' = <<>> /\ sent' = <<>> /\ handed' = <<>>
    /\ health' = OpenHealth
    /\ failed' = NoFailures /\ verdict' = "none"
    /\ UNCHANGED <<live, archive, stamps, recovered, world>>

-----------------------------------------------------------------------------

AgentStep ==
    \/ RetireAtCap \/ BeginWait
    \/ WokenByTrigger \/ SelfWakes \/ PushScheduledWake
    \/ BeginCycle
    \/ ExecuteOk \/ DecideFails
    \/ BatchFails \/ NeedsCorrection
    \/ IdleHealthy \/ ArchiveCurrent \/ WriteHealthy

Next ==
    \/ AgentStep
    \/ \E t \in Trigger : Send(t)
    \/ SecondPasses
    \/ Crash \/ Restart

Spec == Init /\ [][Next]_vars

\* The process is scheduled, its model and its tools answer, and its timer fires.
FairSpec == Spec /\ WF_vars(AgentStep)

-----------------------------------------------------------------------------
(* Properties.                                                             *)

\* agent.rs and health.rs: a cycle ends on its retry budget exactly if its own
\* failures of some kind exceed the allowance of that kind, earlier cycles and the
\* other kind notwithstanding, however failures come in batches.
Exceeds == \E k \in Kind : failed[k] > Budget[k]
BudgetIsOfTheCycle ==
    /\ pc = "decide" => ~Exceeds
    /\ pc = "top" => (verdict = "budget" <=> Exceeds)

\* health.rs: "restart-safe so we do not silently flip Unhealthy agents to Healthy":
\* whatever crashes intervene, the agent is Unhealthy, in memory and on disk, by its
\* last incident until an Idle has ended it.
LastIncident == Len(stamps)
HealthOutlivesProcess ==
    Alive => IF LastIncident = 0 \/ LastIncident \in recovered
             THEN health = Healthy /\ live = Healthy
             ELSE health = LastIncident /\ live = LastIncident

\* health.rs: health.json never turns Healthy before the incident it held is in the
\* archive, wherever a crash falls.
ArchivedBeforeHealthy ==
    [][live # Healthy /\ live' = Healthy => archive'[stamps[live]] = live]_vars

\* health.rs: an incident that was recovered from stays in the archive, unless one
\* of the same second replaced it.
RecoveredAreArchived ==
    \A i \in recovered :
        \/ archive[stamps[i]] = i
        \/ \E j \in DOMAIN stamps : j > i /\ stamps[j] = stamps[i]

\* trigger_queue.rs: "human > external > child > scheduled, FIFO within each class".  Of
\* the triggers sent none is lost or handed out twice, and one overtakes another,
\* whichever cycles they reach, only if it is of a class that goes first.
SentBefore(t, u) == \E p, q \in DOMAIN sent : p < q /\ sent[p] = t /\ sent[q] = u
MayPrecede(t, u) == SentBefore(t, u) \/ (SentBefore(u, t) /\ Priority(t) < Priority(u))
HandedInOrder ==
    /\ \A p \in DOMAIN sent : InRange(handed, sent[p]) \/ InRange(inbox, sent[p])
    /\ \A i, j \in DOMAIN handed :
          i < j /\ ScheduledWake \notin {handed[i], handed[j]} => MayPrecede(handed[i], handed[j])

\* agent.rs: healthy or not, the agent goes on waking to its queue, with no timer of
\* its own if its cadence is "never": a trigger sent while a cycle is still to come
\* reaches one, unless the process dies.
CycleToCome == tick < StepCap \/ pc \in {"gate", "elapsed", "drain"}
TriggersReachACycle ==
    \A t \in Trigger :
        Alive /\ InRange(sent, t) /\ CycleToCome ~> InRange(handed, t) \/ pc = "down"
=============================================================================
