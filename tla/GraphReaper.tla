---------------------------- MODULE GraphReaper ----------------------------
(***************************************************************************)
(* Quiescence GC: the sweep of crates/coral_worker/src/reaper.rs and the   *)
(* debounce of crates/coral_temporal/src/quiescence.rs over one graph of   *)
(* never-cadence agents, whose workflows are reduced to what a sweep can   *)
(* tell apart and what can wake them (AgentWorkflow has the rest).         *)
(*                                                                         *)
(* Time is discrete and kept as ages.  A signal is handled at most         *)
(* MaxDelay after it was sent; a graph is fully sampled at most SweepTime  *)
(* after the start of the sweep, which visits the graphs one by one and    *)
(* spends up to a query timeout on each agent.  A cycle may last for ever. *)
(***************************************************************************)
EXTENDS Naturals, FiniteSets

CONSTANTS
    Agent,          \* every agent the graph may come to have
    Kernel,         \* stands for the reaper and coral-apply as a sender
    ParentOf,       \* an agent's parent; Kernel for a root
    Forest,         \* what coral-apply may have started: sets of agents
    Triggered,      \* the agents coral-apply signals a seed trigger to
    MaxSteps,       \* bound on acted
    MaxDelay,       \* bound on the age of a signal not yet handled
    SweepTime,      \* bound on the time a sweep takes to sample the graph
    WaveMargin,     \* ReaperConfig.wave_margin
    MaxFaults       \* bound on the reaper's failed calls and its worker's restarts

ASSUME GraphAssumption ==
    /\ Kernel \notin Agent
    /\ ParentOf \in [Agent -> Agent \cup {Kernel}]
    /\ \A seeded \in Forest : seeded \subseteq Agent /\ Triggered \subseteq seeded
ASSUME TimeAssumption ==
    /\ MaxSteps \in Nat /\ MaxFaults \in Nat
    /\ MaxDelay \in Nat /\ SweepTime \in Nat /\ WaveMargin \in Nat

Older(n) == IF n < WaveMargin + SweepTime THEN n + 1 ELSE n

VARIABLES
    \* the graph: the structural DB and the workflows
    registered,     \* agents with a row in the structural DB
    spawned,        \* those of them that another agent registered, later than the rest
    status,         \* "absent", "running" or "closed"
    at,             \* a running agent is "parked", in a "cycle" or "retiring"
    ticked,         \* agents past their first cycle (tick >= 1)
    pending,        \* number of signals queued
    observed,       \* cumulative number of signals handled
    asked,          \* agents with a retirement request
    acted,          \* steps taken in all cycles, a seeded row counting as one
    wire,           \* signals sent and not yet handled
    \* the reaper
    phase,          \* "asleep", "sampling" or "retiring"
    sweepAge,       \* time since the sweep started, when it read `now`
    listed,         \* history: the rows of this sweep, or of the one that tombstoned
    todo,           \* agents still to sample, or to signal
    sample,         \* what the sweep has read so far
    landed,         \* every retire signal of this sweep was accepted
    tracker,        \* GraphQuiescence: last digest, and its stable_since as an age
    tombstoned,     \* the graph is in `retired`
    faults          \* faults so far

rows == <<registered, spawned>>
graphVars == <<rows, status, at, ticked, pending, observed, asked, acted, wire>>
reaperVars == <<phase, sweepAge, listed, todo, sample, landed, tracker, tombstoned>>
vars == <<graphVars, reaperVars, faults>>

NoTracker == [some |-> FALSE, digest |-> <<>>, age |-> 0]

Running == {a \in Agent : status[a] = "running"}

Init ==
    /\ registered \in Forest /\ spawned = {}
    /\ status = [a \in Agent |-> IF a \in registered THEN "running" ELSE "absent"]
    /\ at = [a \in Agent |-> "parked"] /\ ticked = {}
    /\ pending = [a \in Agent |-> 0] /\ observed = [a \in Agent |-> 0]
    /\ asked = {} /\ acted = Cardinality(registered)
    /\ wire = [from : {Kernel}, to : Triggered, kind : {"trigger"}, age : {0}]
    /\ phase = "asleep" /\ sweepAge = 0 /\ listed = {} /\ todo = {} /\ sample = <<>>
    /\ landed = TRUE /\ tracker = NoTracker /\ tombstoned = FALSE
    /\ faults = 0

-----------------------------------------------------------------------------
(* Agents.                                                                 *)

\* A sender awaits the acceptance of its signal, so it never has two of a kind
\* on the way to one agent.
Clear(a, b, kind) == \A m \in wire : ~(m.from = a /\ m.to = b /\ m.kind = kind)
Sent(a, b, kind) == wire \cup {[from |-> a, to |-> b, kind |-> kind, age |-> 0]}

\* The handlers external_signal and retire; a closed workflow drops the signal.
Deliver(m) ==
    /\ m \in wire
    /\ status[m.to] # "absent"
    /\ wire' = wire \ {m}
    /\ IF status[m.to] = "closed"
       THEN UNCHANGED <<pending, observed, asked>>
       ELSE IF m.kind = "retire"
       THEN asked' = asked \cup {m.to} /\ UNCHANGED <<pending, observed>>
       ELSE /\ pending' = [pending EXCEPT ![m.to] = @ + 1]
            /\ observed' = [observed EXCEPT ![m.to] = @ + 1]
            /\ UNCHANGED asked
    /\ UNCHANGED <<rows, status, at, ticked, acted, reaperVars, faults>>

\* A never agent leaves the gate for a signal or for its forced first cycle.
Wakeable(a) ==
    /\ a \in Running /\ at[a] = "parked"
    /\ pending[a] > 0 \/ a \in asked \/ a \notin ticked

Wake(a) ==
    /\ Wakeable(a)
    /\ at' = [at EXCEPT ![a] = IF a \in asked THEN "retiring" ELSE "cycle"]
    /\ pending' = [pending EXCEPT ![a] = 0]
    /\ asked' = asked \ {a}
    /\ UNCHANGED <<rows, status, ticked, observed, acted, wire, reaperVars, faults>>

\* A child registered by a running agent and not yet started: its parent is
\* inside spawn_child.
Starting(a) == {c \in registered : ParentOf[c] = a /\ status[c] = "absent"}

CanStep(a) ==
    /\ a \in Running /\ at[a] = "cycle"
    /\ Starting(a) = {} /\ acted < MaxSteps

Stepped == acted' = acted + 1

\* A closed workflow's state is gone with it.
Close(a) ==
    /\ status' = [status EXCEPT ![a] = "closed"]
    /\ at' = [at EXCEPT ![a] = "parked"]
    /\ pending' = [pending EXCEPT ![a] = 0]
    /\ asked' = asked \ {a}

\* write_output, then signal_parent_with_trigger.
WriteOutput(a) ==
    /\ CanStep(a) /\ ParentOf[a] \in Agent
    /\ Clear(a, ParentOf[a], "trigger")
    /\ wire' = Sent(a, ParentOf[a], "trigger")
    /\ Stepped
    /\ UNCHANGED <<rows, status, at, ticked, pending, observed, asked,
                   reaperVars, faults>>

RetireChild(a, c) ==
    /\ CanStep(a) /\ ParentOf[c] = a /\ status[c] # "absent"
    /\ Clear(a, c, "retire")
    /\ wire' = Sent(a, c, "retire")
    /\ Stepped
    /\ UNCHANGED <<rows, status, at, ticked, pending, observed, asked,
                   reaperVars, faults>>

\* spawn_child commits the child's row first.
RegisterChild(a, c) ==
    /\ CanStep(a) /\ ParentOf[c] = a /\ c \notin registered
    /\ registered' = registered \cup {c} /\ spawned' = spawned \cup {c}
    /\ Stepped
    /\ UNCHANGED <<status, at, ticked, pending, observed, asked, wire,
                   reaperVars, faults>>

StartChild(a, c) ==
    /\ a \in Running /\ c \in Starting(a)
    /\ status' = [status EXCEPT ![c] = "running"]
    /\ UNCHANGED <<rows, at, ticked, pending, observed, asked, acted, wire,
                   reaperVars, faults>>

\* The start is refused: `?` ends the parent, and the child's row stays.
StartChildFails(a, c) ==
    /\ a \in Running /\ c \in Starting(a)
    /\ Close(a)
    /\ UNCHANGED <<rows, ticked, observed, acted, wire, reaperVars, faults>>

EndCycle(a) ==
    /\ a \in Running /\ at[a] = "cycle" /\ Starting(a) = {}
    /\ at' = [at EXCEPT ![a] = "parked"]
    /\ ticked' = ticked \cup {a}
    /\ UNCHANGED <<rows, status, pending, observed, asked, acted, wire,
                   reaperVars, faults>>

\* An activity of the cycle fails for good: the workflow closes with no word to
\* anyone.
CycleFails(a) ==
    /\ a \in Running /\ at[a] = "cycle" /\ Starting(a) = {}
    /\ Close(a)
    /\ UNCHANGED <<rows, ticked, observed, acted, wire, reaperVars, faults>>

\* retirement.json, then a best-effort ChildRetired to the parent.
Retire(a) ==
    /\ a \in Running /\ at[a] = "retiring"
    /\ Close(a)
    /\ \/ UNCHANGED wire
       \/ /\ ParentOf[a] \in Agent
          /\ Clear(a, ParentOf[a], "trigger")
          /\ wire' = Sent(a, ParentOf[a], "trigger")
    /\ UNCHANGED <<rows, ticked, observed, acted, reaperVars, faults>>

-----------------------------------------------------------------------------
(* The sweep.                                                              *)

\* agent_quiescent, for a never agent.  The retirement request in the snapshot
\* is not looked at.
AgentQuiescent(a) == at[a] = "parked" /\ a \in ticked /\ pending[a] = 0

\* `now` is read once, before any graph of the sweep is visited.
StartSweep ==
    /\ phase = "asleep" /\ ~tombstoned
    /\ phase' = "sampling" /\ sweepAge' = 0
    /\ listed' = registered /\ todo' = registered /\ sample' = <<>>
    /\ UNCHANGED <<graphVars, landed, tracker, tombstoned, faults>>

\* list_agents_in_graph orders the rows by created_at: the rows of one apply are
\* as old as each other, a spawned agent's is younger than theirs and its parent's.
Oldest(a) ==
    /\ a \in todo
    /\ a \in spawned => todo \subseteq spawned /\ ParentOf[a] \notin todo

\* describe, then the snapshot query of a running workflow; a closed one is
\* left out.
SampleAgent(a) ==
    /\ phase = "sampling" /\ Oldest(a)
    /\ status[a] # "absent"
    /\ todo' = todo \ {a}
    /\ IF a \in Running
       THEN sample' = [b \in DOMAIN sample \cup {a} |->
                          IF b = a THEN [quiet |-> AgentQuiescent(a), count |-> observed[a]]
                          ELSE sample[b]]
       ELSE UNCHANGED sample
    /\ UNCHANGED <<graphVars, phase, sweepAge, listed, landed, tracker, tombstoned, faults>>

GiveUp ==
    /\ phase' = "asleep" /\ sweepAge' = 0 /\ listed' = {} /\ todo' = {} /\ sample' = <<>>
    /\ tracker' = NoTracker

\* describe of a workflow that was never started fails on every sweep.
SampleAbsent(a) ==
    /\ phase = "sampling" /\ Oldest(a) /\ status[a] = "absent"
    /\ GiveUp
    /\ UNCHANGED <<graphVars, landed, tombstoned, faults>>

\* A describe, a query or the agent listing fails or times out.
SampleFails ==
    /\ phase = "sampling" /\ faults < MaxFaults
    /\ faults' = faults + 1
    /\ GiveUp
    /\ UNCHANGED <<graphVars, landed, tombstoned>>

Digest == [a \in DOMAIN sample |-> sample[a].count]

\* Fault: a digest that only holds the agents.
DigestUnchangedMembers == tracker.some /\ DOMAIN tracker.digest = DOMAIN Digest

DigestUnchanged == tracker.some /\ tracker.digest = Digest

Stamped == [some |-> TRUE, digest |-> Digest, age |-> sweepAge]

\* GraphQuiescence::observe on the complete sample, at the sweep's `now`.
Observe ==
    /\ phase = "sampling" /\ todo = {}
    /\ LET quiescent == DOMAIN sample # {} /\ \A a \in DOMAIN sample : sample[a].quiet
           stable == quiescent /\ DigestUnchanged
           retire == stable /\ tracker.age - sweepAge >= WaveMargin
       IN /\ tracker' = IF retire \/ ~quiescent THEN NoTracker
                        ELSE IF stable THEN tracker
                        ELSE Stamped
          /\ IF retire
             THEN phase' = "retiring" /\ todo' = DOMAIN sample /\ UNCHANGED listed
             ELSE phase' = "asleep" /\ todo' = {} /\ listed' = {}
    /\ sweepAge' = 0 /\ sample' = <<>>
    /\ UNCHANGED <<graphVars, landed, tombstoned, faults>>

\* retire_graph signals the agents in turn.  A closed workflow refuses.
SignalRetire(a) ==
    /\ phase = "retiring" /\ Oldest(a)
    /\ todo' = todo \ {a}
    /\ IF a \in Running
       THEN wire' = Sent(Kernel, a, "retire") /\ UNCHANGED landed
       ELSE landed' = FALSE /\ UNCHANGED wire
    /\ UNCHANGED <<rows, status, at, ticked, pending, observed, asked, acted,
                   phase, sweepAge, listed, sample, tracker, tombstoned, faults>>

SignalRetireFails(a) ==
    /\ phase = "retiring" /\ Oldest(a)
    /\ faults < MaxFaults
    /\ faults' = faults + 1
    /\ todo' = todo \ {a}
    /\ landed' = FALSE
    /\ UNCHANGED <<graphVars, phase, sweepAge, listed, sample, tracker, tombstoned>>

\* Fault: the graph is tombstoned even if a signal did not land.
TombstoneAnyway ==
    /\ phase = "retiring" /\ todo = {}
    /\ tombstoned' = TRUE
    /\ landed' = TRUE
    /\ UNCHANGED listed
    /\ phase' = "asleep"
    /\ UNCHANGED <<graphVars, sweepAge, todo, sample, tracker, faults>>

FinishRetire ==
    /\ phase = "retiring" /\ todo = {}
    /\ tombstoned' = landed
    /\ landed' = TRUE
    /\ listed' = IF landed THEN listed ELSE {}
    /\ phase' = "asleep"
    /\ UNCHANGED <<graphVars, sweepAge, todo, sample, tracker, faults>>

\* The worker restarts: trackers and tombstones are in memory only.
RestartWorker ==
    /\ faults < MaxFaults
    /\ faults' = faults + 1
    /\ GiveUp
    /\ tombstoned' = FALSE /\ landed' = TRUE
    /\ UNCHANGED graphVars

-----------------------------------------------------------------------------

\* Time passes: no signal is overdue, the sweep is not, and a workflow that can
\* leave its gate does so in the activation that lets it.
TimePasses ==
    /\ \A m \in wire : m.age < MaxDelay
    /\ \A a \in Agent : ~Wakeable(a)
    /\ phase = "sampling" => sweepAge < SweepTime
    /\ wire' = {[m EXCEPT !.age = @ + 1] : m \in wire}
    /\ sweepAge' = IF phase = "sampling" THEN sweepAge + 1 ELSE sweepAge
    /\ tracker' = IF tracker.some THEN [tracker EXCEPT !.age = Older(@)] ELSE tracker
    /\ UNCHANGED <<rows, status, at, ticked, pending, observed, asked, acted,
                   phase, listed, todo, sample, landed, tombstoned, faults>>

AgentStep(a) ==
    \/ Wake(a)
    \/ EndCycle(a)
    \/ Retire(a)
    \/ \E c \in Agent : StartChild(a, c)

AgentChoice(a) ==
    \/ WriteOutput(a)
    \/ \E c \in Agent : RetireChild(a, c) \/ RegisterChild(a, c)
    \/ \E c \in Agent : StartChildFails(a, c)
    \/ CycleFails(a)

ReaperStep ==
    \/ StartSweep
    \/ \E a \in Agent : SampleAgent(a) \/ SampleAbsent(a)
    \/ Observe
    \/ \E a \in Agent : SignalRetire(a)
    \/ FinishRetire

Fault ==
    \/ SampleFails
    \/ \E a \in Agent : SignalRetireFails(a)
    \/ RestartWorker

Next ==
    \/ \E m \in wire : Deliver(m)
    \/ \E a \in Agent : AgentStep(a) \/ AgentChoice(a)
    \/ ReaperStep
    \/ Fault
    \/ TimePasses

Spec == Init /\ [][Next]_vars

\* Temporal delivers signals and runs workflow tasks and timers, the worker keeps
\* its reaper task running, and time passes.  Nothing obliges an agent to act
\* before it ends its cycle, or a fault to happen.
FairSpec ==
    /\ Spec
    /\ \A a \in Agent : WF_vars(AgentStep(a))
    /\ WF_vars(\E m \in wire : Deliver(m))
    /\ WF_vars(ReaperStep)
    /\ SF_vars(TimePasses)

-----------------------------------------------------------------------------
(* Properties.                                                             *)

\* Nothing can happen in the graph any more unless the reaper acts.
Fixpoint ==
    /\ \A a \in Running : at[a] = "parked" /\ ~Wakeable(a)
    /\ \A m \in wire : m.to \notin Running

\* "A false positive (retiring a graph with a wake still coming) drops that wake":
\* the verdict to retire is only given at a fixpoint of the whole graph, although
\* the agents are sampled at different times, are spawned, retire each other and
\* close in between, and signals are on their way (quiescence.rs, module docs).
\* A verdict may miss an agent that was spawned after a sweep had listed the rows,
\* and one of those that has closed by the next sweep is in neither digest.
AboutAll(sampled) ==
    \A a \in registered \ sampled : status[a] = "closed" /\ a \notin spawned
RetiresOnlyFixpoints ==
    [][phase # "retiring" /\ phase' = "retiring" /\ AboutAll(todo') => Fixpoint]_vars

\* The agents that the tombstone hides from the sweeps: they were registered after
\* the sweep that retired the graph had listed its rows.
Hidden == IF tombstoned THEN Agent \ listed ELSE {}

\* Every agent of a graph is reaped in the end, if a sweep ever lists it: failed
\* queries and signals and worker restarts delay it only ("self-corrects on the next
\* sweep").  An agent may still be spawned once the sweep has listed the rows, even
\* after the verdict, by a parent that a retiring child woke before its own request
\* came: when every signal lands, the graph is tombstoned, and no later sweep of
\* this worker looks for the newcomer.  The other exception is a row whose workflow
\* was never started, which no sweep can describe.
ListedAgentsAreReaped ==
    \/ <>[](Running \subseteq Hidden)
    \/ <>[](\E a \in registered : status[a] = "absent")
=============================================================================
