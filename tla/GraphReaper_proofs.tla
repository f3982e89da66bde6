------------------------- MODULE GraphReaper_proofs -------------------------
(***************************************************************************)
(* Machine-checked proofs about GraphReaper, for every tree of agents, seed *)
(* forest, fuse, fault bound and bound on time: if the wave margin exceeds  *)
(* the delay of a signal plus the length of a sweep, a verdict to retire is *)
(* given at a fixpoint of the whole graph only.                            *)
(*                                                                         *)
(* The argument: the graph a digest was stamped on is either Intact, and    *)
(* then whatever is on its way is at least as old as the stamp, less one    *)
(* sweep; or it is Disturbed, for good, and every later sample of it tells. *)
(* So when a sweep starts a margin after the stamp, an intact graph has     *)
(* nothing on its way any more and stays as it is, and a disturbed one      *)
(* contradicts the digest however long the sweep takes.                    *)
(***************************************************************************)
EXTENDS GraphReaper, TLAPS

-----------------------------------------------------------------------------
(* The inductive invariant.                                                *)

Signals ==
    [from : Agent \cup {Kernel}, to : Agent, kind : {"trigger", "retire"}, age : 0..MaxDelay]

Trackers == [some : BOOLEAN, digest : UNION {[S -> Nat] : S \in SUBSET Agent}, age : Nat]

Samples == UNION {[S -> [quiet : BOOLEAN, count : Nat]] : S \in SUBSET Agent}

TypeOK ==
    /\ registered \subseteq Agent /\ spawned \subseteq registered
    /\ status \in [Agent -> {"absent", "running", "closed"}]
    /\ at \in [Agent -> {"parked", "cycle", "retiring"}]
    /\ ticked \subseteq Agent /\ asked \subseteq Agent
    /\ pending \in [Agent -> Nat] /\ observed \in [Agent -> Nat]
    /\ wire \subseteq Signals
    /\ phase \in {"asleep", "sampling", "retiring"}
    /\ sweepAge \in 0..SweepTime /\ todo \subseteq Agent
    /\ sample \in Samples /\ tracker \in Trackers

\* A workflow that exists has its row.
RowsFirst == \A a \in Agent : status[a] # "absent" => a \in registered

\* An agent counted at `count` that has since had a signal, is being retired or
\* is gone: no later sample of it can look the same.
Moved(a, count) == observed[a] > count \/ at[a] = "retiring" \/ status[a] = "closed"

\* An agent counted at `count` that is at rest.
Idle(a, count) ==
    /\ status[a] = "running" /\ at[a] = "parked"
    /\ a \in ticked /\ pending[a] = 0 /\ observed[a] = count

\* An agent that no digest of the sampled agents needs to hold: one that had
\* closed, unless it was spawned after the rows were listed.
Missed(a) == status[a] = "closed" \/ a \in spawned

\* What the sweep has read was true when it read it.
SampleIsTrue ==
    /\ \A a \in DOMAIN sample :
        /\ a \in registered /\ status[a] # "absent" /\ sample[a].count <= observed[a]
        /\ sample[a].quiet => Moved(a, sample[a].count) \/ Idle(a, sample[a].count)
    /\ phase = "sampling" => \A a \in registered \ (todo \cup DOMAIN sample) : Missed(a)

Members == DOMAIN tracker.digest

\* The graph is as it was at the stamp: whatever is on its way was already.
Intact ==
    /\ \A a \in Members : Idle(a, tracker.digest[a])
    /\ \A a \in registered \ Members : status[a] = "closed"
    /\ \A m \in wire : tracker.age <= m.age + SweepTime
    /\ Members \cap asked # {} => tracker.age <= MaxDelay + SweepTime

Grown == \E a \in spawned : a \notin Members
Disturbed == Grown \/ \E a \in Members : Moved(a, tracker.digest[a])

\* The sample contradicts the digest, however it is completed.
Caught ==
    \/ Grown
    \/ \E a \in Members :
        /\ Moved(a, tracker.digest[a])
        /\ \/ a \notin DOMAIN sample
           \/ sample[a].count # tracker.digest[a]
           \/ ~sample[a].quiet

DigestIsTrue == tracker.some =>
    /\ phase # "retiring" /\ Members \subseteq registered
    /\ Intact \/ Disturbed

\* The sweep that may give the verdict.
Due == phase = "sampling" /\ tracker.some /\ tracker.age - sweepAge >= WaveMargin
DueIsSafe == Due => Intact \/ Caught

ReaperInv == RowsFirst /\ SampleIsTrue /\ DigestIsTrue /\ DueIsSafe

-----------------------------------------------------------------------------
(* Types.                                                                  *)

\* What the two records of the reaper are functions of.
LEMMA ReaperTypes ==
    ASSUME TypeOK
    PROVE  /\ Members \subseteq Agent /\ \A a \in Members : tracker.digest[a] \in Nat
           /\ tracker.some \in BOOLEAN /\ tracker.age \in Nat
           /\ DOMAIN sample \subseteq Agent
           /\ \A a \in DOMAIN sample : sample[a].quiet \in BOOLEAN /\ sample[a].count \in Nat
           /\ sweepAge \in Nat /\ sweepAge <= SweepTime
BY TimeAssumption DEF TypeOK, Members, Trackers, Samples

LEMMA Blanks == <<>> \in Samples /\ NoTracker \in Trackers
<1>1. <<>> \in [{} -> Nat] /\ <<>> \in [{} -> [quiet : BOOLEAN, count : Nat]]
  OBVIOUS
<1>2. {} \in SUBSET Agent
  OBVIOUS
<1> QED BY <1>1, <1>2 DEF Samples, Trackers, NoTracker

LEMMA InitTypeOK == Init => TypeOK /\ ReaperInv
<1> SUFFICES ASSUME Init PROVE TypeOK /\ ReaperInv
  OBVIOUS
<1>1. TypeOK
  <2>1. registered \subseteq Agent /\ Triggered \subseteq Agent
    BY GraphAssumption DEF Init
  <2>2. wire \subseteq Signals
    BY <2>1, TimeAssumption DEF Init, Signals
  <2> QED BY <2>1, <2>2, Blanks, TimeAssumption DEF Init, TypeOK
<1>2. DOMAIN sample = {} /\ tracker.some = FALSE
  BY DEF Init, NoTracker
<1> QED BY <1>1, <1>2 DEF Init, ReaperInv, RowsFirst, SampleIsTrue, DigestIsTrue, DueIsSafe, Due

-----------------------------------------------------------------------------
(* The agents: a step only ever takes the graph further from a sample.     *)

\* What no step of the graph undoes, and how an agent leaves its rest.
Progress ==
    /\ registered \subseteq registered' /\ spawned \subseteq spawned'
    /\ registered' \ registered \subseteq spawned'
    /\ \A a \in Agent :
        /\ observed'[a] >= observed[a]
        /\ status[a] # "absent" => status'[a] # "absent"
        /\ status[a] = "closed" => status'[a] = "closed"
        /\ \A n \in Nat :
            /\ Moved(a, n) => Moved(a, n)'
            /\ Idle(a, n) => Idle(a, n)' \/ Moved(a, n)'

\* Where an agent ends.
LEMMA CloseStep ==
    ASSUME TypeOK, RowsFirst, NEW a \in Agent, status[a] = "running", Close(a),
           UNCHANGED <<rows, ticked, observed, reaperVars>>, wire' \subseteq Signals
    PROVE  TypeOK' /\ RowsFirst' /\ Progress
<1>1. TypeOK'
  BY DEF TypeOK, Close, rows, reaperVars
<1>2. RowsFirst' /\ Progress
  BY DEF TypeOK, Close, rows, reaperVars, RowsFirst, Progress, Idle, Moved
<1> QED BY <1>1, <1>2

\* A signal sent by an agent or by the reaper.
LEMMA SentTypes ==
    ASSUME TypeOK, NEW a \in Agent \cup {Kernel}, NEW b \in Agent,
           NEW kind \in {"trigger", "retire"}
    PROVE  Sent(a, b, kind) \subseteq Signals
BY TimeAssumption DEF Sent, Signals, TypeOK

LEMMA DeliverStep ==
    ASSUME TypeOK, RowsFirst, NEW m \in wire, Deliver(m)
    PROVE  TypeOK' /\ RowsFirst' /\ Progress
<1>1. m.to \in Agent
  BY DEF TypeOK, Signals
<1>2. TypeOK'
  BY <1>1 DEF TypeOK, Deliver, rows, reaperVars
<1>3. RowsFirst'
  BY DEF Deliver, rows, RowsFirst
<1>4. Progress
  <2>1. UNCHANGED <<registered, spawned, status, at, ticked>>
    BY DEF Deliver, rows
  <2>2. ASSUME NEW a \in Agent
        PROVE  \/ observed'[a] = observed[a] /\ pending'[a] = pending[a]
               \/ observed'[a] = observed[a] + 1
    BY <1>1 DEF Deliver, TypeOK
  <2>3. \A a \in Agent : observed[a] \in Nat
    BY DEF TypeOK
  <2> QED BY <2>1, <2>2, <2>3 DEF Progress, Idle, Moved
<1> QED BY <1>2, <1>3, <1>4

\* Whatever an agent does, the graph makes Progress and the reaper stays put.
LEMMA AgentSteps ==
    ASSUME TypeOK, RowsFirst, NEW a \in Agent, AgentStep(a) \/ AgentChoice(a)
    PROVE  TypeOK' /\ RowsFirst' /\ Progress /\ UNCHANGED reaperVars
<1>1. CASE Wake(a)
  BY <1>1 DEF Wake, Wakeable, Running, TypeOK, rows, reaperVars, RowsFirst, Progress, Idle, Moved
<1>2. CASE EndCycle(a)
  BY <1>2 DEF EndCycle, Running, TypeOK, rows, reaperVars, RowsFirst, Progress, Idle, Moved
<1>3. CASE Retire(a)
  <2>1. wire' \subseteq Signals
    BY <1>3, SentTypes DEF Retire, TypeOK
  <2> QED BY <1>3, <2>1, CloseStep DEF Retire, Running
<1>4. ASSUME NEW c \in Agent, StartChild(a, c)
      PROVE  TypeOK' /\ RowsFirst' /\ Progress /\ UNCHANGED reaperVars
  BY <1>4 DEF StartChild, Starting, TypeOK, rows, reaperVars, RowsFirst, Progress, Idle, Moved
<1>5. CASE WriteOutput(a)
  <2>1. wire' \subseteq Signals
    BY <1>5, SentTypes DEF WriteOutput
  <2> QED BY <1>5, <2>1
       DEF WriteOutput, TypeOK, rows, reaperVars, RowsFirst, Progress, Idle, Moved
<1>6. ASSUME NEW c \in Agent, RetireChild(a, c)
      PROVE  TypeOK' /\ RowsFirst' /\ Progress /\ UNCHANGED reaperVars
  <2>1. wire' \subseteq Signals
    BY <1>6, SentTypes DEF RetireChild
  <2> QED BY <1>6, <2>1
       DEF RetireChild, TypeOK, rows, reaperVars, RowsFirst, Progress, Idle, Moved
<1>7. ASSUME NEW c \in Agent, RegisterChild(a, c)
      PROVE  TypeOK' /\ RowsFirst' /\ Progress /\ UNCHANGED reaperVars
  BY <1>7 DEF RegisterChild, TypeOK, reaperVars, RowsFirst, Progress, Idle, Moved
<1>8. ASSUME NEW c \in Agent, StartChildFails(a, c)
      PROVE  TypeOK' /\ RowsFirst' /\ Progress /\ UNCHANGED reaperVars
  <2>1. wire' \subseteq Signals
    BY <1>8 DEF StartChildFails, TypeOK
  <2> QED BY <1>8, <2>1, CloseStep DEF StartChildFails, Running
<1>9. CASE CycleFails(a)
  <2>1. wire' \subseteq Signals
    BY <1>9 DEF CycleFails, TypeOK
  <2> QED BY <1>9, <2>1, CloseStep DEF CycleFails, Running
<1> QED BY <1>1, <1>2, <1>3, <1>4, <1>5, <1>6, <1>7, <1>8, <1>9 DEF AgentStep, AgentChoice

-----------------------------------------------------------------------------
(* A digest and a sample under a step of the graph.                        *)

\* A sample that was true stays true.
LEMMA SampleStaysTrue ==
    ASSUME TypeOK, SampleIsTrue, Progress, TypeOK',
           UNCHANGED <<phase, todo, sample>>
    PROVE  SampleIsTrue'
<1>1. ASSUME NEW a \in DOMAIN sample
      PROVE  /\ a \in registered' /\ status'[a] # "absent" /\ sample[a].count <= observed'[a]
             /\ sample[a].quiet =>
                    Moved(a, sample[a].count)' \/ Idle(a, sample[a].count)'
  <2> DEFINE n == sample[a].count
  <2>1. a \in Agent /\ n \in Nat /\ observed[a] \in Nat /\ observed'[a] \in Nat
    BY ReaperTypes DEF TypeOK
  <2>2. a \in registered' /\ status'[a] # "absent"
    BY <2>1 DEF SampleIsTrue, Progress
  <2>3. n <= observed'[a]
    BY <2>1 DEF SampleIsTrue, Progress
  <2>4. sample[a].quiet => Moved(a, n)' \/ Idle(a, n)'
    <3>1. sample'[a].count = n
      OBVIOUS
    <3>2. /\ Moved(a, n) => observed'[a] > n \/ at'[a] = "retiring" \/ status'[a] = "closed"
          /\ Idle(a, n) => \/ observed'[a] > n \/ at'[a] = "retiring" \/ status'[a] = "closed"
                           \/ /\ status'[a] = "running" /\ at'[a] = "parked"
                              /\ a \in ticked' /\ pending'[a] = 0 /\ observed'[a] = n
      <4>1. \A k \in Nat :
              /\ Moved(a, k) => Moved(a, k)'
              /\ Idle(a, k) => Idle(a, k)' \/ Moved(a, k)'
        BY <2>1 DEF Progress
      <4> QED BY <4>1, <2>1 DEF Moved, Idle
    <3> QED BY <3>1, <3>2 DEF SampleIsTrue, Moved, Idle
  <2> QED BY <2>2, <2>3, <2>4
<1>2. ASSUME phase = "sampling", NEW a \in registered' \ (todo \cup DOMAIN sample)
      PROVE  Missed(a)'
  BY <1>2 DEF Progress, SampleIsTrue, Missed, TypeOK
<1> QED BY <1>1, <1>2 DEF SampleIsTrue

\* What contradicts a digest contradicts it for good.
LEMMA DisturbedStays ==
    ASSUME TypeOK, Progress, tracker'.digest = tracker.digest
    PROVE  /\ Disturbed => Disturbed'
           /\ Caught /\ UNCHANGED sample => Caught'
<1>1. ASSUME NEW a \in Members, Moved(a, tracker.digest[a])
      PROVE  Moved(a, tracker.digest[a])'
  <2>1. a \in Agent /\ tracker.digest[a] \in Nat
    BY ReaperTypes
  <2>2. \A k \in Nat : Moved(a, k) => Moved(a, k)'
    BY <2>1 DEF Progress
  <2> QED BY <1>1, <2>1, <2>2 DEF Moved
<1>2. Grown => Grown'
  BY DEF Grown, Progress, Members
<1>3. Members' = Members
  BY DEF Members
<1> QED BY <1>1, <1>2, <1>3 DEF Disturbed, Caught

\* In an intact graph an agent can do one thing: wake to a retirement request.
LEMMA IntactMoves ==
    ASSUME TypeOK, RowsFirst, Intact, NEW a \in Agent, AgentStep(a) \/ AgentChoice(a)
    PROVE  a \in Members /\ a \in asked /\ at'[a] = "retiring"
<1>1. \A c \in Agent : c \notin Starting(a)
  BY DEF Starting, Intact, Idle
<1>2. \A c \in Agent : ~StartChild(a, c) /\ ~StartChildFails(a, c)
  BY <1>1 DEF StartChild, StartChildFails
<1>3. status[a] = "running" => a \in Members /\ Idle(a, tracker.digest[a])
  BY DEF Intact, RowsFirst
<1>4. ~EndCycle(a) /\ ~Retire(a) /\ ~CanStep(a) /\ ~CycleFails(a)
  BY <1>3 DEF EndCycle, Retire, CanStep, CycleFails, Running, Idle
<1>5. Wake(a)
  BY <1>2, <1>4 DEF AgentStep, AgentChoice, WriteOutput, RetireChild, RegisterChild
<1>6. a \in Members /\ a \in asked
  BY <1>3, <1>5 DEF Wake, Wakeable, Running, Idle
<1> QED BY <1>5, <1>6 DEF Wake, TypeOK

\* An intact graph whose stamp is old enough for every signal to have been
\* handled is at a fixpoint.
LEMMA IntactRests ==
    ASSUME TypeOK, RowsFirst, Intact, tracker.age > MaxDelay + SweepTime
    PROVE  Fixpoint /\ wire = {} /\ Members \cap asked = {}
<1>1. wire = {}
  <2> SUFFICES ASSUME NEW m \in wire PROVE FALSE
    OBVIOUS
  <2>1. m.age \in Nat /\ m.age <= MaxDelay
    BY TimeAssumption DEF TypeOK, Signals
  <2>2. tracker.age <= m.age + SweepTime
    BY DEF Intact
  <2> QED BY <2>1, <2>2, ReaperTypes, TimeAssumption
<1>2. Members \cap asked = {}
  BY ReaperTypes, TimeAssumption DEF Intact
<1>3. \A a \in Running : at[a] = "parked" /\ ~Wakeable(a)
  <2> SUFFICES ASSUME NEW a \in Running PROVE at[a] = "parked" /\ ~Wakeable(a)
    OBVIOUS
  <2>1. a \in Members /\ Idle(a, tracker.digest[a])
    BY DEF Running, RowsFirst, Intact
  <2> QED BY <2>1, <1>2 DEF Idle, Wakeable
<1> QED BY <1>1, <1>2, <1>3 DEF Fixpoint

-----------------------------------------------------------------------------
(* The invariant under a step of the graph.                                *)

MarginCoversWave == WaveMargin > MaxDelay + SweepTime

\* A sweep that may give its verdict has a stamp as old as the margin.
LEMMA DueIsOld ==
    ASSUME TypeOK, MarginCoversWave, Due
    PROVE  tracker.age > MaxDelay + SweepTime
BY ReaperTypes, TimeAssumption DEF MarginCoversWave, Due

LEMMA GraphStepInv ==
    ASSUME TypeOK, ReaperInv, Progress, TypeOK', RowsFirst', UNCHANGED reaperVars,
           tracker.some /\ Intact => Intact' \/ Disturbed',
           ~(Due /\ Intact)
    PROVE  ReaperInv'
<1>1. SampleIsTrue'
  BY SampleStaysTrue DEF ReaperInv, reaperVars
<1>2. DigestIsTrue'
  <2>1. tracker.some => Members' \subseteq registered'
    BY DEF ReaperInv, DigestIsTrue, Progress, Members, reaperVars
  <2> QED BY <2>1, DisturbedStays DEF ReaperInv, DigestIsTrue, reaperVars
<1>3. DueIsSafe'
  BY DisturbedStays DEF ReaperInv, DueIsSafe, Due, reaperVars
<1> QED BY <1>1, <1>2, <1>3 DEF ReaperInv

LEMMA AgentStepsInv ==
    ASSUME TypeOK, ReaperInv, MarginCoversWave,
           NEW a \in Agent, AgentStep(a) \/ AgentChoice(a)
    PROVE  TypeOK' /\ ReaperInv'
<1>1. TypeOK' /\ RowsFirst' /\ Progress /\ UNCHANGED reaperVars
  BY AgentSteps DEF ReaperInv
<1>2. Intact => a \in Members /\ a \in asked /\ at'[a] = "retiring"
  BY IntactMoves DEF ReaperInv
<1>3. Intact => Disturbed'
  BY <1>1, <1>2 DEF Disturbed, Moved, Members, reaperVars
<1>4. ~(Due /\ Intact)
  BY <1>2, DueIsOld, IntactRests DEF ReaperInv
<1> QED BY <1>1, <1>3, <1>4, GraphStepInv

LEMMA DeliverInv ==
    ASSUME TypeOK, ReaperInv, MarginCoversWave, NEW m \in wire, Deliver(m)
    PROVE  TypeOK' /\ ReaperInv'
<1>1. TypeOK' /\ RowsFirst' /\ Progress
  BY DeliverStep DEF ReaperInv
<1>2. UNCHANGED reaperVars
  BY DEF Deliver
<1>3. m.to \in Agent /\ m.age \in Nat /\ m.age <= MaxDelay
  BY TimeAssumption DEF TypeOK, Signals
<1>4. ASSUME tracker.some, Intact PROVE Intact' \/ Disturbed'
  <2>0. /\ Members' = Members /\ tracker' = tracker
        /\ UNCHANGED <<registered, spawned, status, at, ticked>>
        /\ wire' \subseteq wire
    BY <1>2 DEF Deliver, Members, reaperVars, rows
  <2>1. CASE status[m.to] = "closed"
    <3>1. UNCHANGED <<pending, observed, asked>>
      BY <2>1 DEF Deliver
    <3> QED BY <3>1, <2>0, <1>4 DEF Intact, Idle
  <2>2. CASE status[m.to] # "closed" /\ m.kind # "retire"
    <3>1. m.to \in Members /\ observed[m.to] = tracker.digest[m.to]
      BY <1>3, <1>4, <2>2 DEF Intact, Deliver, ReaperInv, RowsFirst, Idle
    <3>2. observed'[m.to] = observed[m.to] + 1 /\ observed[m.to] \in Nat
      BY <1>3, <2>2 DEF Deliver, TypeOK
    <3> QED BY <2>0, <3>1, <3>2 DEF Disturbed, Moved
  <2>3. CASE status[m.to] # "closed" /\ m.kind = "retire"
    <3>1. UNCHANGED <<pending, observed>>
      BY <2>3 DEF Deliver
    <3>2. tracker.age <= MaxDelay + SweepTime
      BY <1>3, <1>4, ReaperTypes, TimeAssumption DEF Intact
    <3> QED BY <3>1, <3>2, <2>0, <1>4 DEF Intact, Idle
  <2> QED BY <2>1, <2>2, <2>3
<1>5. ~(Due /\ Intact)
  BY DueIsOld, IntactRests DEF ReaperInv
<1> QED BY <1>1, <1>2, <1>4, <1>5, GraphStepInv

-----------------------------------------------------------------------------
(* The invariant under a step of the sweep.                                *)

StillGraph == UNCHANGED <<registered, spawned, status, at, ticked, pending, observed, asked, wire>>

LEMMA StartSweepInv ==
    ASSUME TypeOK, ReaperInv, StartSweep
    PROVE  TypeOK' /\ ReaperInv'
<1>1. StillGraph /\ UNCHANGED tracker /\ sample' = <<>> /\ todo' = registered
  BY DEF StartSweep, StillGraph, graphVars, rows
<1>2. DOMAIN sample' = {} /\ Members' = Members
  BY <1>1 DEF Members
<1>3. TypeOK'
  BY <1>1, Blanks, TimeAssumption DEF StartSweep, TypeOK, StillGraph
<1>4. RowsFirst' /\ SampleIsTrue'
  BY <1>1, <1>2 DEF ReaperInv, RowsFirst, SampleIsTrue, StillGraph
<1>5. (Intact => Intact') /\ (Disturbed => Disturbed' /\ Caught')
  BY <1>1, <1>2 DEF Intact, Idle, Disturbed, Grown, Moved, Caught, StillGraph
<1>6. DigestIsTrue'
  BY <1>1, <1>2, <1>5 DEF StartSweep, ReaperInv, DigestIsTrue, StillGraph
<1>7. DueIsSafe'
  BY <1>1, <1>5 DEF ReaperInv, DigestIsTrue, DueIsSafe, Due
<1> QED BY <1>3, <1>4, <1>6, <1>7 DEF ReaperInv

LEMMA SampleAgentInv ==
    ASSUME TypeOK, ReaperInv, NEW a \in Agent, SampleAgent(a)
    PROVE  TypeOK' /\ ReaperInv'
<1> DEFINE now == [quiet |-> AgentQuiescent(a), count |-> observed[a]]
<1>1. StillGraph /\ UNCHANGED <<tracker, phase, sweepAge>> /\ todo' = todo \ {a}
  BY DEF SampleAgent, StillGraph, graphVars, rows
<1>2. Members' = Members
  BY <1>1 DEF Members
<1>3. now \in [quiet : BOOLEAN, count : Nat]
  BY DEF TypeOK, AgentQuiescent
<1>4. CASE a \in Running
  <2>1. /\ DOMAIN sample' = DOMAIN sample \cup {a} /\ sample'[a] = now
        /\ \A b \in DOMAIN sample \ {a} : sample'[b] = sample[b]
    BY <1>4 DEF SampleAgent
  <2>2. sample' \in Samples
    <3>1. sample' = [b \in DOMAIN sample \cup {a} |-> IF b = a THEN now ELSE sample[b]]
      BY <1>4 DEF SampleAgent
    <3>2. \A b \in DOMAIN sample : sample[b] \in [quiet : BOOLEAN, count : Nat]
      BY DEF TypeOK, Samples
    <3>3. DOMAIN sample \cup {a} \in SUBSET Agent
      BY ReaperTypes
    <3>4. sample' \in [DOMAIN sample \cup {a} -> [quiet : BOOLEAN, count : Nat]]
      BY <3>1, <3>2, <1>3
    <3> QED BY <3>3, <3>4 DEF Samples
  <2>3. TypeOK'
    BY <1>1, <2>2 DEF TypeOK, StillGraph
  <2>4. now.quiet => Idle(a, now.count)
    BY <1>4 DEF AgentQuiescent, Idle, Running
  <2>5. a \in registered /\ status[a] # "absent" /\ now.count <= observed[a]
    BY <1>4 DEF ReaperInv, RowsFirst, Running, TypeOK
  <2>6. SampleIsTrue'
    BY <1>1, <2>1, <2>4, <2>5 DEF ReaperInv, SampleIsTrue, Idle, Moved, Missed, StillGraph
  <2>7. ASSUME Moved(a, tracker.digest[a]), a \in Members
        PROVE  now.count # tracker.digest[a] \/ ~now.quiet
    <3>1. now.count = observed[a] /\ observed[a] \in Nat /\ tracker.digest[a] \in Nat
      BY <2>7, ReaperTypes DEF TypeOK
    <3>2. now.quiet => at[a] = "parked" /\ status[a] = "running"
      BY <2>4 DEF Idle
    <3> HIDE DEF now
    <3> QED BY <2>7, <3>1, <3>2 DEF Moved
  <2>8. Caught => Caught'
    BY <1>1, <1>2, <2>1, <2>7 DEF Caught, Grown, Moved, StillGraph
  <2>9. (Intact => Intact') /\ (Disturbed => Disturbed')
    BY <1>1, <1>2 DEF Intact, Idle, Disturbed, Grown, Moved, StillGraph
  <2> QED BY <1>1, <1>2, <2>3, <2>6, <2>8, <2>9
       DEF ReaperInv, RowsFirst, DigestIsTrue, DueIsSafe, Due, StillGraph
<1>5. CASE a \notin Running
  <2>1. UNCHANGED sample /\ status[a] = "closed"
    BY <1>5 DEF SampleAgent, Running, TypeOK
  <2>2. TypeOK'
    BY <1>1, <2>1 DEF TypeOK, StillGraph
  <2>3. SampleIsTrue'
    BY <1>1, <2>1 DEF ReaperInv, SampleIsTrue, Idle, Moved, Missed, StillGraph
  <2>4. /\ Intact => Intact'
        /\ Disturbed => Disturbed'
        /\ Caught => Caught'
    BY <1>1, <1>2, <2>1 DEF Intact, Idle, Disturbed, Caught, Grown, Moved, StillGraph
  <2> QED BY <1>1, <1>2, <2>2, <2>3, <2>4
       DEF ReaperInv, RowsFirst, DigestIsTrue, DueIsSafe, Due, StillGraph
<1> QED BY <1>4, <1>5

\* A sweep that gives up forgets the digest with the sample.
LEMMA GiveUpInv ==
    ASSUME TypeOK, ReaperInv, GiveUp, UNCHANGED graphVars
    PROVE  TypeOK' /\ ReaperInv'
<1>1. StillGraph /\ phase' = "asleep" /\ tracker' = NoTracker /\ sample' = <<>>
  BY DEF GiveUp, StillGraph, graphVars, rows
<1>2. TypeOK'
  BY <1>1, Blanks, TimeAssumption DEF GiveUp, TypeOK, StillGraph
<1>3. DOMAIN sample' = {} /\ tracker'.some = FALSE
  BY <1>1 DEF NoTracker
<1> QED BY <1>1, <1>2, <1>3
     DEF ReaperInv, RowsFirst, SampleIsTrue, DigestIsTrue, DueIsSafe, Due, StillGraph

\* What the end of a sweep does with the digest.
LEMMA ObserveCases ==
    ASSUME TypeOK, Observe
    PROVE  /\ phase = "sampling" /\ todo = {} /\ sample' = <<>> /\ sweepAge' = 0
           /\ StillGraph
           /\ \/ /\ phase' = "retiring" /\ tracker' = NoTracker /\ todo' = DOMAIN sample
                 /\ tracker.some /\ tracker.digest = Digest
                 /\ tracker.age - sweepAge >= WaveMargin
                 /\ \A a \in DOMAIN sample : sample[a].quiet
              \/ phase' = "asleep" /\ todo' = {} /\ tracker' \in {NoTracker, tracker}
              \/ /\ phase' = "asleep" /\ todo' = {} /\ tracker' = Stamped
                 /\ \A a \in DOMAIN sample : sample[a].quiet
BY DEF Observe, DigestUnchanged, StillGraph, graphVars, rows

LEMMA StampedTypes ==
    ASSUME TypeOK
    PROVE  Stamped \in Trackers /\ DOMAIN Digest = DOMAIN sample
<1>1. DOMAIN sample \in SUBSET Agent /\ \A a \in DOMAIN sample : sample[a].count \in Nat
  BY ReaperTypes
<1>2. Digest \in [DOMAIN sample -> Nat]
  BY <1>1 DEF Digest
<1> QED BY <1>1, <1>2, ReaperTypes DEF Stamped, Trackers

\* A stamp is put on a graph that is intact, or already disturbed.
LEMMA StampIsTrue ==
    ASSUME TypeOK, ReaperInv, Observe, tracker' = Stamped,
           \A a \in DOMAIN sample : sample[a].quiet
    PROVE  Members' \subseteq registered' /\ (Intact' \/ Disturbed')
<1>1. StillGraph /\ phase = "sampling" /\ todo = {}
  BY ObserveCases
<1>2. /\ Members' = DOMAIN sample /\ tracker'.age = sweepAge
      /\ \A a \in DOMAIN sample : tracker'.digest[a] = sample[a].count
  BY StampedTypes DEF Stamped, Members, Digest
<1>3. \A a \in DOMAIN sample : /\ a \in registered
                               /\ Moved(a, sample[a].count) \/ Idle(a, sample[a].count)
  BY DEF ReaperInv, SampleIsTrue
<1>4. \A a \in registered \ DOMAIN sample : Missed(a)
  BY <1>1 DEF ReaperInv, SampleIsTrue
<1>5. \A m \in wire : sweepAge <= m.age + SweepTime
  <2>1. \A m \in wire : m.age \in Nat
    BY TimeAssumption DEF TypeOK, Signals
  <2> QED BY <2>1, ReaperTypes, TimeAssumption
<1>6. sweepAge <= MaxDelay + SweepTime
  BY ReaperTypes, TimeAssumption
<1>7. CASE \E a \in DOMAIN sample : Moved(a, sample[a].count)
  BY <1>1, <1>2, <1>3, <1>7 DEF Disturbed, Moved, StillGraph
<1>8. CASE \E a \in spawned : a \notin DOMAIN sample
  BY <1>1, <1>2, <1>3, <1>8 DEF Disturbed, Grown, StillGraph
<1>9. CASE /\ \A a \in DOMAIN sample : Idle(a, sample[a].count)
           /\ \A a \in spawned : a \in DOMAIN sample
  <2>1. \A a \in registered \ DOMAIN sample : status[a] = "closed"
    BY <1>4, <1>9 DEF Missed
  <2>2. \A a \in Members' : Idle(a, tracker.digest[a])'
    BY <1>1, <1>2, <1>9 DEF Idle, StillGraph
  <2>3. Intact'
    BY <1>1, <1>2, <1>5, <1>6, <2>1, <2>2 DEF Intact, StillGraph
  <2> QED BY <2>3, <1>1, <1>2, <1>3 DEF StillGraph
<1> QED BY <1>1, <1>2, <1>3, <1>7, <1>8, <1>9 DEF StillGraph

LEMMA ObserveInv ==
    ASSUME TypeOK, ReaperInv, Observe
    PROVE  TypeOK' /\ ReaperInv'
<1>1. StillGraph /\ sample' = <<>> /\ sweepAge' = 0 /\ phase' \in {"asleep", "retiring"}
  BY ObserveCases
<1>2. DOMAIN sample' = {}
  BY <1>1
<1>3. TypeOK'
  <2>1. tracker' \in Trackers /\ todo' \subseteq Agent
    BY ObserveCases, StampedTypes, Blanks, ReaperTypes DEF TypeOK
  <2> QED BY <1>1, <2>1, Blanks, TimeAssumption DEF TypeOK, StillGraph
<1>4. RowsFirst' /\ SampleIsTrue' /\ DueIsSafe'
  BY <1>1, <1>2 DEF ReaperInv, RowsFirst, SampleIsTrue, DueIsSafe, Due, StillGraph
<1>5. DigestIsTrue'
  <2>1. CASE tracker' = NoTracker
    BY <2>1 DEF DigestIsTrue, NoTracker
  <2>2. CASE tracker' = tracker /\ phase' = "asleep"
    <3>1. Members' = Members
      BY <2>2 DEF Members
    <3>2. (Intact => Intact') /\ (Disturbed => Disturbed')
      BY <1>1, <2>2, <3>1 DEF Intact, Idle, Disturbed, Grown, Moved, StillGraph
    <3> QED BY <1>1, <2>2, <3>1, <3>2 DEF ReaperInv, DigestIsTrue, StillGraph
  <2>3. CASE phase' = "asleep" /\ tracker' = Stamped /\ \A a \in DOMAIN sample : sample[a].quiet
    BY <2>3, StampIsTrue DEF DigestIsTrue
  <2> QED BY <2>1, <2>2, <2>3, ObserveCases
<1> QED BY <1>3, <1>4, <1>5 DEF ReaperInv

\* Signalling the agents of a graph that has had its verdict: there is no digest.
LEMMA RetiringInv ==
    ASSUME TypeOK, ReaperInv, phase = "retiring", phase' \in {"retiring", "asleep"},
           UNCHANGED <<registered, spawned, status, at, ticked, pending, observed, asked>>,
           UNCHANGED <<sweepAge, sample, tracker>>, todo' \subseteq todo,
           wire' \subseteq Signals
    PROVE  TypeOK' /\ ReaperInv'
<1>1. TypeOK'
  BY DEF TypeOK
<1>2. RowsFirst' /\ SampleIsTrue'
  BY DEF ReaperInv, RowsFirst, SampleIsTrue, Idle, Moved
<1>3. tracker'.some = FALSE
  BY ReaperTypes DEF ReaperInv, DigestIsTrue
<1> QED BY <1>1, <1>2, <1>3 DEF ReaperInv, DigestIsTrue, DueIsSafe, Due

\* Time passes: what is on its way ages at least as fast as the stamp, and the
\* sweep at least as fast as the stamp; no agent is left asked.
LEMMA TimePassesInv ==
    ASSUME TypeOK, ReaperInv, TimePasses
    PROVE  TypeOK' /\ ReaperInv'
<1>1. /\ UNCHANGED <<registered, spawned, status, at, ticked, pending, observed, asked>>
      /\ UNCHANGED <<phase, todo, sample>>
  BY DEF TimePasses, rows
<1>2. \A m \in wire : /\ m \in Signals /\ m.age \in Nat
                      /\ [m EXCEPT !.age = @ + 1] \in Signals
                      /\ [m EXCEPT !.age = @ + 1].age = m.age + 1
  BY TimeAssumption DEF TypeOK, TimePasses, Signals
<1>3. wire' \subseteq Signals
  BY <1>2 DEF TimePasses
<1>4. /\ tracker' \in Trackers /\ tracker'.some = tracker.some
      /\ tracker'.digest = tracker.digest
      /\ tracker'.age \in Nat /\ tracker'.age <= tracker.age + 1
  BY TimeAssumption DEF TimePasses, TypeOK, Trackers, Older
<1>5. sweepAge' \in 0..SweepTime /\ (phase = "sampling" => sweepAge' = sweepAge + 1)
  BY TimeAssumption DEF TimePasses, TypeOK
<1>6. TypeOK'
  BY <1>1, <1>3, <1>4, <1>5 DEF TypeOK
<1>7. Members' = Members
  BY <1>4 DEF Members
<1>8. ASSUME Intact PROVE Intact'
  <2>1. \A a \in Members : Idle(a, tracker.digest[a])'
    BY <1>1, <1>4, <1>8 DEF Intact, Idle
  <2>2. \A m \in wire' : tracker'.age <= m.age + SweepTime
    <3> SUFFICES ASSUME NEW n \in wire' PROVE tracker'.age <= n.age + SweepTime
      OBVIOUS
    <3>1. PICK m \in wire : n = [m EXCEPT !.age = @ + 1]
      BY DEF TimePasses
    <3>2. tracker.age <= m.age + SweepTime
      BY <1>8 DEF Intact
    <3> QED BY <3>1, <3>2, <1>2, <1>4, ReaperTypes, TimeAssumption
  <2>3. Members \cap asked = {}
    <3> SUFFICES ASSUME NEW a \in Members, a \in asked PROVE FALSE
      OBVIOUS
    <3>1. a \in Agent /\ Idle(a, tracker.digest[a])
      BY <1>8, ReaperTypes DEF Intact
    <3> QED BY <3>1 DEF TimePasses, Wakeable, Running, Idle
  <2> QED BY <1>1, <1>7, <1>8, <2>1, <2>2, <2>3 DEF Intact
<1>9. (Disturbed => Disturbed') /\ (Caught => Caught')
  BY <1>1, <1>4, <1>7 DEF Disturbed, Caught, Grown, Moved
<1>10. Due' => Due
  BY <1>1, <1>4, <1>5, ReaperTypes, TimeAssumption DEF Due
<1> QED BY <1>1, <1>4, <1>6, <1>7, <1>8, <1>9, <1>10
     DEF ReaperInv, RowsFirst, SampleIsTrue, DigestIsTrue, DueIsSafe, Idle, Moved, Missed

LEMMA ReaperStepsInv ==
    ASSUME TypeOK, ReaperInv, ReaperStep \/ Fault
    PROVE  TypeOK' /\ ReaperInv'
<1>1. CASE StartSweep
  BY <1>1, StartSweepInv
<1>2. ASSUME NEW a \in Agent, SampleAgent(a) PROVE TypeOK' /\ ReaperInv'
  BY <1>2, SampleAgentInv
<1>3. CASE (\E a \in Agent : SampleAbsent(a)) \/ SampleFails \/ RestartWorker
  <2>1. GiveUp /\ UNCHANGED graphVars
    BY <1>3 DEF SampleAbsent, SampleFails, RestartWorker
  <2> QED BY <2>1, GiveUpInv
<1>4. CASE Observe
  BY <1>4, ObserveInv
<1>5. ASSUME NEW a \in Agent, SignalRetire(a) PROVE TypeOK' /\ ReaperInv'
  <2>1. wire' \subseteq Signals
    <3>1. Kernel \in Agent \cup {Kernel} /\ "retire" \in {"trigger", "retire"}
      OBVIOUS
    <3>2. Sent(Kernel, a, "retire") \subseteq Signals
      BY <3>1, SentTypes
    <3> QED BY <1>5, <3>2 DEF SignalRetire, TypeOK
  <2> QED BY <1>5, <2>1, RetiringInv DEF SignalRetire, rows
<1>6. ASSUME NEW a \in Agent, SignalRetireFails(a) PROVE TypeOK' /\ ReaperInv'
  BY <1>6, RetiringInv DEF SignalRetireFails, graphVars, rows, TypeOK
<1>7. CASE FinishRetire
  BY <1>7, RetiringInv DEF FinishRetire, graphVars, rows, TypeOK
<1> QED BY <1>1, <1>2, <1>3, <1>4, <1>5, <1>6, <1>7 DEF ReaperStep, Fault

-----------------------------------------------------------------------------
(* The theorems.                                                           *)

LEMMA NextInv ==
    ASSUME MarginCoversWave, TypeOK, ReaperInv, [Next]_vars
    PROVE  TypeOK' /\ ReaperInv'
<1>1. CASE UNCHANGED vars
  BY <1>1 DEF vars, graphVars, reaperVars, rows, TypeOK, ReaperInv, RowsFirst, SampleIsTrue,
              DigestIsTrue, DueIsSafe, Due, Intact, Disturbed, Caught, Grown, Members,
              Idle, Moved, Missed
<1>2. CASE Next
  BY <1>2, DeliverInv, AgentStepsInv, ReaperStepsInv, TimePassesInv DEF Next
<1> QED BY <1>1, <1>2

\* A step to a verdict: the digest it compares is older than any wave.
LEMMA VerdictAtFixpoint ==
    ASSUME MarginCoversWave, TypeOK, ReaperInv, [Next]_vars,
           phase # "retiring", phase' = "retiring", AboutAll(todo')
    PROVE  Fixpoint
<1>1. Observe
  BY AgentSteps
     DEF Next, vars, reaperVars, Deliver, ReaperStep, Fault, TimePasses, StartSweep,
         SampleAgent, SampleAbsent, SampleFails, RestartWorker, GiveUp, SignalRetire,
         SignalRetireFails, FinishRetire, ReaperInv
<1>2. /\ phase = "sampling" /\ todo' = DOMAIN sample
      /\ tracker.some /\ tracker.digest = Digest /\ tracker.age - sweepAge >= WaveMargin
      /\ \A a \in DOMAIN sample : sample[a].quiet
  BY <1>1, ObserveCases
<1>3. Members = DOMAIN sample /\ \A a \in DOMAIN sample : tracker.digest[a] = sample[a].count
  BY <1>2, StampedTypes DEF Members, Digest
<1>4. ~Caught
  BY <1>2, <1>3 DEF Caught, Grown, AboutAll, TypeOK
<1>5. Due /\ Intact
  BY <1>2, <1>4 DEF Due, ReaperInv, DueIsSafe
<1> QED BY <1>5, DueIsOld, IntactRests DEF ReaperInv

\* The reaper's variables and the graph's stay in their types, and what the sweep
\* has read and the debounce remembers was true when it was read: at every moment
\* the remembered digest describes the graph as it is, or contradicts any sample
\* that a sweep can still take of it.
THEOREM DigestsAreTrue ==
    ASSUME MarginCoversWave
    PROVE  Spec => [](TypeOK /\ ReaperInv)
<1>1. Init => TypeOK /\ ReaperInv
  BY InitTypeOK
<1>2. TypeOK /\ ReaperInv /\ [Next]_vars => (TypeOK /\ ReaperInv)'
  BY NextInv
<1> QED BY <1>1, <1>2, PTL DEF Spec

\* No verdict about every agent retires a graph with a wake still coming, whatever the
\* order in which the sweep samples them and however signals are delayed within the bound:
\* "a false positive (retiring a graph with a wake still coming) drops that wake"
\* (quiescence.rs), for every graph and every length of wave that the margin covers.
THEOREM VerdictsAreSafe ==
    ASSUME MarginCoversWave
    PROVE  Spec => RetiresOnlyFixpoints
<1>1. TypeOK /\ ReaperInv /\ [Next]_vars
        => [phase # "retiring" /\ phase' = "retiring" /\ AboutAll(todo') => Fixpoint]_vars
  BY VerdictAtFixpoint
<1> QED BY <1>1, DigestsAreTrue, PTL DEF Spec, RetiresOnlyFixpoints
=============================================================================
