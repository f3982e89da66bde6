------------------------ MODULE AgentWorkflow_proofs ------------------------
(***************************************************************************)
(* Machine-checked proofs about AgentWorkflow, for every set of signals,   *)
(* every cadence, cap and fuse.                                            *)
(***************************************************************************)
EXTENDS AgentWorkflow, SequenceTheorems, TLAPS

-----------------------------------------------------------------------------
(* Operators on signal buckets.                                            *)

\* The operations on pending_* queues and on their counters keep their types.
LEMMA BucketTypes ==
    /\ Nothing \in Queues
    /\ NoCount \in Counts
    /\ \A p, q \in Queues : Join(p, q) \in Queues
    /\ \A q \in Queues, s \in Signal : Push(q, s) \in Queues
    /\ \A q \in Queues : \A B : Only(q, B) \in Queues
    /\ \A n \in Counts, q \in Queues : Count(n, q) \in Counts
<1>1. Nothing \in Queues /\ NoCount \in Counts
  BY EmptySeq DEF Nothing, NoCount, Queues, Counts
<1>2. \A p, q \in Queues : Join(p, q) \in Queues
  BY ConcatProperties DEF Join, Queues
<1>3. \A q \in Queues, s \in Signal : Push(q, s) \in Queues
  BY AppendProperties, BucketOfAssumption DEF Push, Queues
<1>4. \A q \in Queues : \A B : Only(q, B) \in Queues
  BY EmptySeq DEF Only, Queues
<1>5. \A n \in Counts, q \in Queues : Count(n, q) \in Counts
  BY LenProperties DEF Count, Queues, Counts
<1> QED BY <1>1, <1>2, <1>3, <1>4, <1>5

\* A counter per key, bumped at one key.
LEMMA Bumped ==
    ASSUME NEW D, NEW f \in [D -> Nat], NEW k
    PROVE  [f EXCEPT ![k] = @ + 1] \in [D -> Nat]
<1>1. [f EXCEPT ![k] = @ + 1] = [x \in D |-> IF x = k THEN f[x] + 1 ELSE f[x]]
  OBVIOUS
<1>2. \A x \in D : (IF x = k THEN f[x] + 1 ELSE f[x]) \in Nat
  OBVIOUS
<1> QED BY <1>1, <1>2

\* What the top of run()'s loop can lead to, and when.
LEMMA LoopTopType ==
    ASSUME NEW t, NEW i, NEW r
    PROVE  /\ LoopTop(t, i, r) \in {"retiring", "gate", "decide"}
           /\ LoopTop(t, i, r) = "gate" => ~(t >= StepCap) /\ i = NoSession
           /\ LoopTop(t, i, r) = "decide" =>
                 ~(t >= StepCap) /\ i # NoSession /\ ~r
BY DEF LoopTop

-----------------------------------------------------------------------------
(* Types.                                                                  *)

\* Where the run is decides how far its counters have got: what TypeOK needs to
\* be inductive, and the control state the other invariants rest on.
ControlInv ==
    /\ parked = (pc = "gate")
    /\ pc = "start" =>
          /\ pending = Nothing /\ retirement = FALSE /\ observed = NoCount
          /\ tick = 0 /\ session = NoSession
          /\ carry.inFlight # NoSession =>
                carry.tick < StepCap /\ carry.inFlight.len < CycleRunawayFuse
          /\ ~carry.some => carry = NoCarryover
    /\ pc # "start" =>
          carry = NoCarryover /\ buffered = Nothing /\ bufferedRetire = FALSE
    /\ pc \in {"gate", "seed", "decide", "log", "execute", "commit"} => tick < StepCap
    /\ pc = "gate" => session = NoSession
    /\ pc = "seed" => session.len = 0
    /\ pc \in {"decide", "log"} => step = session.len /\ session.len < CycleRunawayFuse
    /\ pc = "execute" => step = session.len + 1 /\ session.len < CycleRunawayFuse
    /\ pc = "commit" => step \in {session.len, session.len + 1}
    /\ retirementFile => pc \in {"notify", "done"}

TypeInv == TypeOK /\ ControlInv

\* The session a run holds between cycles and the carryover of a first run.
LEMMA NoTypes ==
    /\ NoSession \in Sessions /\ NoSession.len = 0
    /\ NoCarryover \in Carryovers
    /\ NoCarryover.inFlight = NoSession /\ ~NoCarryover.some
    /\ NoCarryover.tick = 0
<1>1. NoSession \in Sessions /\ NoSession.len = 0
  BY BucketTypes, CapAssumption DEF NoSession, Sessions
<1>2. NoCarryover \in Carryovers
  BY <1>1, BucketTypes, CapAssumption DEF NoCarryover, Carryovers, Wakes
<1> QED BY <1>1, <1>2 DEF NoCarryover

\* The workflow starts typed.
LEMMA TypeInvInit == Init => TypeInv
<1> SUFFICES ASSUME Init PROVE TypeInv
  OBVIOUS
<1>1. TypeOK
  <2>1. /\ decisionLog \in [Ticks \X Steps -> Nat]
        /\ performed \in [Ticks \X Steps -> Nat]
        /\ commits \in [Ticks -> Nat]
    BY DEF Init
  <2>2. tick \in 0 .. StepCap /\ step \in 0 .. CycleRunawayFuse
    BY CapAssumption DEF Init
  <2> QED BY <2>1, <2>2, BucketTypes, NoTypes DEF Init, TypeOK, PC, Wakes
<1>2. ControlInv
  BY NoTypes DEF Init, ControlInv
<1> QED BY <1>1, <1>2 DEF TypeInv

\* continue_as_new with a carryover of the current struct.
LEMMA ContinueAsNewType ==
    ASSUME TypeInv, NEW t \in 0 .. StepCap, NEW i \in Sessions,
           i # NoSession => t < StepCap /\ i.len < CycleRunawayFuse,
           ContinueAsNew(t, i), pc # "start"
    PROVE  /\ pending' \in Queues /\ buffered' \in Queues
           /\ retirement' \in BOOLEAN /\ bufferedRetire' \in BOOLEAN
           /\ nextWake' \in Wakes /\ observed' \in Counts /\ tick' \in 0 .. StepCap
           /\ parked' \in BOOLEAN /\ pc' \in PC /\ session' \in Sessions
           /\ step' \in 0 .. CycleRunawayFuse
           /\ action' \in {"none", "idle", "act", "invalid", "fatal"}
           /\ carry' \in Carryovers /\ canSuggested' \in BOOLEAN
           /\ parked' = (pc' = "gate") /\ pc' = "start"
           /\ pending' = Nothing /\ retirement' = FALSE /\ observed' = NoCount
           /\ tick' = 0 /\ session' = NoSession
           /\ carry'.inFlight # NoSession =>
                 carry'.tick < StepCap /\ carry'.inFlight.len < CycleRunawayFuse
           /\ carry'.some
<1>1. carry' \in Carryovers /\ carry'.inFlight = i /\ carry'.tick = t /\ carry'.some
  BY DEF ContinueAsNew, EncodeCarryover, CarryoverOf, Carryovers, TypeInv, TypeOK
<1>2. tick' \in 0 .. StepCap /\ step' \in 0 .. CycleRunawayFuse
  BY CapAssumption DEF ContinueAsNew
<1> QED
  BY <1>1, <1>2, BucketTypes, NoTypes
  DEF ContinueAsNew, TypeInv, TypeOK, PC, Wakes

\* Every step, of the environment and of the run, keeps the types and the
\* control state.
LEMMA TypeInvStep == TypeInv /\ [Next]_vars => TypeInv'
<1> SUFFICES ASSUME TypeInv, [Next]_vars PROVE TypeInv'
  OBVIOUS
<1> USE DEF TypeInv
<1>1. ASSUME NEW s \in Signal, ReceiveSignal(s) PROVE TypeInv'
  <2>1. received' \in Queues /\ pending' \in Queues /\ buffered' \in Queues
    BY <1>1, BucketTypes DEF ReceiveSignal, TypeOK
  <2>2. observed' \in Counts
    BY <1>1, BucketOfAssumption DEF ReceiveSignal, TypeOK, Counts
  <2>3. TypeOK'
    BY <1>1, <2>1, <2>2
    DEF ReceiveSignal, TypeOK, runVars
  <2>4. ControlInv'
    BY <1>1 DEF ReceiveSignal, ControlInv, runVars, Closed
  <2> QED BY <2>3, <2>4
<1>2. CASE ReceiveRetire
  <2>1. TypeOK'
    BY <1>2 DEF ReceiveRetire, TypeOK, runVars, historyVars
  <2>2. ControlInv'
    BY <1>2 DEF ReceiveRetire, ControlInv, runVars, historyVars, Closed
  <2> QED BY <2>1, <2>2
<1>3. CASE SuggestContinueAsNew
  <2>1. TypeOK'
    BY <1>3 DEF SuggestContinueAsNew, TypeOK, wfVars, runVars, historyVars
  <2>2. ControlInv'
    BY <1>3 DEF SuggestContinueAsNew, ControlInv, wfVars, runVars, historyVars
  <2> QED BY <2>1, <2>2
<1>4. CASE StartRun
  <2> DEFINE early == HandlersFirst /\ ~carry.some
             queue == IF early THEN buffered ELSE carry.pending
             asked == IF early THEN bufferedRetire ELSE carry.retirement
             seen == IF early THEN Count(NoCount, buffered) ELSE carry.observed
             late == IF HandlersFirst THEN Nothing ELSE buffered
             top == LoopTop(carry.tick, carry.inFlight, asked)
  <2>1. pending' = Join(queue, late) /\ observed' = Count(seen, late)
    BY <1>4 DEF StartRun
  <2>2. pc' = top /\ parked' = (top = "gate")
    BY <1>4 DEF StartRun
  <2>3. queue \in Queues /\ seen \in Counts /\ late \in Queues
    BY BucketTypes DEF TypeOK, Carryovers
  <2>4. pending' \in Queues /\ observed' \in Counts
    BY <2>1, <2>3, BucketTypes
  <2>5. top \in {"retiring", "gate", "decide"}
    BY LoopTopType
  <2>6. carry.inFlight \in Sessions /\ carry.tick \in 0 .. StepCap /\ carry.nextWake \in Wakes
    BY DEF TypeOK, Carryovers
  <2>7. carry.inFlight.len \in 0 .. CycleRunawayFuse
    BY <2>6 DEF Sessions
  <2>8. retirement' \in BOOLEAN
    BY <1>4 DEF StartRun
  <2>9. TypeOK'
    BY <1>4, <2>2, <2>4, <2>5, <2>6, <2>7, <2>8, BucketTypes, NoTypes
    DEF StartRun, TypeOK, PC, Closing, Closed, historyVars
  <2>10. top \in {"gate", "decide"} => carry.tick < StepCap
    BY <2>6, LoopTopType, CapAssumption
  <2>11. top = "decide" => carry.inFlight # NoSession
    BY LoopTopType
  <2>12. top = "gate" => carry.inFlight = NoSession
    BY LoopTopType
  <2>13. ~retirementFile
    BY <1>4 DEF StartRun, ControlInv
  <2>14. ControlInv'
    BY <1>4, <2>2, <2>5, <2>10, <2>11, <2>12, <2>13
    DEF StartRun, ControlInv, historyVars
  <2> QED BY <2>9, <2>14
<1>5. CASE Wake
  <2>1. [seed |-> pending, len |-> 0] \in Sessions
    BY CapAssumption DEF TypeOK, Sessions
  <2>2. TypeOK'
    BY <1>5, <2>1, BucketTypes
    DEF Wake, TypeOK, PC, Closing, temporalVars, historyVars
  <2>3. /\ pc = "gate" /\ pc' \in {"retiring", "seed"} /\ parked' = FALSE
        /\ UNCHANGED <<tick, carry, buffered, bufferedRetire, retirementFile>>
        /\ pc' = "seed" => session' = [seed |-> pending, len |-> 0]
    BY <1>5 DEF Wake, temporalVars, historyVars
  <2>4. parked' = (pc' = "gate")
    BY <2>3
  <2>5. ControlInv'
    BY <2>3, <2>4 DEF ControlInv
  <2> QED BY <2>2, <2>5
<1>6. CASE SeedBuilt
  <2> DEFINE seed == Only(session.seed, {"trigger", "human_op"})
  <2>0. seed \in Queues /\ session.len = 0
    BY <1>6, BucketTypes DEF SeedBuilt, TypeOK, ControlInv, Sessions
  <2>1. session' \in Sessions /\ session'.len = 0
    <3>1. session' = [session EXCEPT !.seed = seed]
      BY <1>6 DEF SeedBuilt
    <3> HIDE DEF seed
    <3> QED BY <2>0, <3>1 DEF TypeOK, Sessions
  <2>2. consumed' \in Queues
    BY <1>6, BucketTypes DEF SeedBuilt, TypeOK, Sessions
  <2>3. pc' \in PC /\ step' \in 0 .. CycleRunawayFuse /\ forceIdled' \in BOOLEAN
    <3>1. pc' = "decide" /\ step' = 0 /\ forceIdled' = FALSE
      BY <1>6 DEF SeedBuilt
    <3>2. pc' \in PC
      BY <3>1 DEF PC
    <3>3. step' \in 0 .. CycleRunawayFuse
      BY <3>1, CapAssumption
    <3>4. forceIdled' \in BOOLEAN
      BY <3>1
    <3> QED BY <3>2, <3>3, <3>4
  <2>4. TypeOK'
    BY <1>6, <2>1, <2>2, <2>3 DEF SeedBuilt, TypeOK, wfVars, temporalVars
  <2>5. ControlInv'
    BY <1>6, <2>1, CapAssumption DEF SeedBuilt, ControlInv, wfVars, temporalVars
  <2> QED BY <2>4, <2>5
<1>7. ASSUME NEW a \in {"idle", "act"}, Decide(a) PROVE TypeInv'
  <2>1. TypeOK'
    BY <1>7 DEF Decide, TypeOK, PC, wfVars, temporalVars, historyVars
  <2>2. ControlInv'
    BY <1>7 DEF Decide, ControlInv, wfVars, temporalVars, historyVars
  <2> QED BY <2>1, <2>2
<1>8. CASE LogDecision
  <2>1. step' \in 0 .. CycleRunawayFuse /\ step' = session.len + 1
    BY <1>8, CapAssumption DEF LogDecision, TypeOK, ControlInv, Sessions
  <2>2. decisionLog' \in [Ticks \X Steps -> Nat]
    BY <1>8, Bumped DEF LogDecision, TypeOK
  <2>3. nextWake' \in Wakes /\ pc' \in {"commit", "execute"}
    BY <1>8 DEF LogDecision, TypeOK, Wakes
  <2>4. TypeOK'
    BY <1>8, <2>1, <2>2, <2>3 DEF LogDecision, TypeOK, PC, temporalVars
  <2>5. ControlInv'
    BY <1>8, <2>1, <2>3 DEF LogDecision, ControlInv, temporalVars
  <2> QED BY <2>4, <2>5
<1>9. ASSUME Perform
      PROVE  /\ Pushed \in Sessions /\ Pushed.len = session.len + 1
             /\ Pushed.seed = session.seed
             /\ performed' \in [Ticks \X Steps -> Nat]
             /\ FuseBlown <=> session.len + 1 >= CycleRunawayFuse
             /\ pc = "execute" /\ tick < StepCap /\ step = session.len + 1
             /\ session.len \in Nat
  <2>1. session.len \in 0 .. CycleRunawayFuse /\ session.len < CycleRunawayFuse
    BY <1>9 DEF Perform, ControlInv, TypeOK, Sessions
  <2>2. Pushed \in Sessions /\ Pushed.len = session.len + 1 /\ Pushed.seed = session.seed
    BY <2>1, CapAssumption DEF Pushed, TypeOK, Sessions
  <2>3. performed' \in [Ticks \X Steps -> Nat]
    BY <1>9, Bumped DEF Perform, TypeOK
  <2> QED BY <1>9, <2>1, <2>2, <2>3 DEF Perform, ControlInv, FuseBlown
<1>10. CASE ExecuteAndContinue
  <2>1. Perform
    BY <1>10 DEF ExecuteAndContinue
  <2>2. TypeOK'
    BY <1>9, <1>10, <2>1
    DEF ExecuteAndContinue, Perform, TypeOK, PC, wfVars, temporalVars
  <2>3. ControlInv'
    BY <1>9, <1>10, <2>1, CapAssumption
    DEF ExecuteAndContinue, Perform, ControlInv, wfVars, temporalVars
  <2> QED BY <2>2, <2>3
<1>11. CASE ExecuteAndBlowFuse
  <2>1. Perform
    BY <1>11 DEF ExecuteAndBlowFuse
  <2>2. TypeOK'
    BY <1>9, <1>11, <2>1
    DEF ExecuteAndBlowFuse, Perform, TypeOK, PC, wfVars, temporalVars
  <2>3. ControlInv'
    BY <1>9, <1>11, <2>1
    DEF ExecuteAndBlowFuse, Perform, ControlInv, wfVars, temporalVars
  <2> QED BY <2>2, <2>3
<1>12. CASE ForceIdle
  <2>1. Perform
    BY <1>12 DEF ForceIdle
  <2>2. TypeOK'
    BY <1>9, <1>12, <2>1
    DEF ForceIdle, Perform, TypeOK, PC, Wakes, temporalVars
  <2>3. ControlInv'
    BY <1>9, <1>12, <2>1 DEF ForceIdle, Perform, ControlInv, temporalVars
  <2> QED BY <2>2, <2>3
<1>13. CASE MidCycleContinueAsNew
  <2>1. Perform /\ ContinueAsNew(tick, Pushed) /\ ~FuseBlown /\ UNCHANGED forceIdled
    BY <1>13 DEF MidCycleContinueAsNew
  <2>2. pc # "start" /\ tick \in 0 .. StepCap
    BY <1>9, <2>1 DEF TypeOK
  <2>3. Pushed.len < CycleRunawayFuse
    BY <1>9, <2>1, CapAssumption
  <2>4. TypeOK'
    BY <1>9, <2>1, <2>2, <2>3, ContinueAsNewType DEF Perform, TypeOK
  <2>5. ControlInv'
    BY <1>9, <2>1, <2>2, <2>3, ContinueAsNewType DEF Perform, ControlInv
  <2> QED BY <2>4, <2>5
<1>14. CASE CommitCycle
  <2>1. pc = "commit" /\ tick \in 0 .. StepCap /\ tick + 1 \in 0 .. StepCap
    BY <1>14, CapAssumption DEF CommitCycle, TypeOK, ControlInv
  <2>2. commits' \in [Ticks -> Nat]
    BY <1>14, Bumped DEF CommitCycle, TypeOK
  <2>3. consumed' \in Queues
    BY <1>14, BucketTypes DEF CommitCycle, TypeOK, Sessions
  <2>4. CASE canSuggested
    <3>1. ContinueAsNew(tick + 1, NoSession)
      BY <1>14, <2>4 DEF CommitCycle
    <3>2. NoSession \in Sessions /\ pc # "start"
      BY NoTypes, <2>1
    <3>3. TypeOK'
      BY <1>14, <2>1, <2>2, <2>3, <3>1, <3>2, ContinueAsNewType DEF CommitCycle, TypeOK
    <3>4. ~retirementFile
      BY <2>1 DEF ControlInv
    <3>5. ControlInv'
      BY <1>14, <2>1, <3>1, <3>2, <3>4, ContinueAsNewType DEF CommitCycle, ControlInv
    <3> QED BY <3>3, <3>5
  <2>5. CASE ~canSuggested
    <3> DEFINE top == LoopTop(tick + 1, NoSession, retirement)
    <3>1. top \in {"retiring", "gate"}
      BY LoopTopType
    <3>2. top = "gate" => tick + 1 < StepCap
      BY LoopTopType, <2>1, CapAssumption
    <3>3. /\ pc' = top /\ parked' = (top = "gate") /\ tick' = tick + 1
          /\ session' = NoSession
          /\ UNCHANGED <<pending, retirement, nextWake, observed, step, action, temporalVars>>
      BY <1>14, <2>5 DEF CommitCycle
    <3>4. TypeOK'
      BY <1>14, <2>1, <2>2, <2>3, <3>1, <3>3, NoTypes
      DEF CommitCycle, TypeOK, PC, Closing, temporalVars
    <3>5. ~retirementFile
      BY <2>1 DEF ControlInv
    <3>6. ControlInv'
      BY <1>14, <2>1, <3>1, <3>2, <3>3, <3>5 DEF CommitCycle, ControlInv, temporalVars
    <3> QED BY <3>4, <3>6
  <2> QED BY <2>4, <2>5
<1>15. CASE PersistRetirement
  <2>1. TypeOK'
    BY <1>15 DEF PersistRetirement, TypeOK, PC, Closing, Closed, wfVars, temporalVars
  <2>2. ControlInv'
    BY <1>15 DEF PersistRetirement, ControlInv, wfVars, temporalVars
  <2> QED BY <2>1, <2>2
<1>16. CASE NotifyParent
  <2>1. TypeOK'
    BY <1>16 DEF NotifyParent, TypeOK, PC, Closed, wfVars, temporalVars
  <2>2. ControlInv'
    BY <1>16 DEF NotifyParent, ControlInv, wfVars, temporalVars
  <2> QED BY <2>1, <2>2
<1>17. ASSUME NEW a \in {"invalid", "fatal"}, DecideFails(a) PROVE TypeInv'
  <2>1. TypeOK'
    BY <1>17 DEF DecideFails, TypeOK, PC, Closed, wfVars, temporalVars, historyVars
  <2>2. ControlInv'
    BY <1>17 DEF DecideFails, ControlInv, wfVars, temporalVars, historyVars
  <2> QED BY <2>1, <2>2
<1>18. CASE ActivityFails
  <2>1. TypeOK'
    BY <1>18 DEF ActivityFails, TypeOK, PC, Closed, wfVars, temporalVars, historyVars
  <2>2. ControlInv'
    BY <1>18 DEF ActivityFails, ControlInv, wfVars, temporalVars, historyVars
  <2> QED BY <2>1, <2>2
<1>19. CASE UNCHANGED vars
  <2>1. TypeOK'
    BY <1>19 DEF TypeOK, vars, wfVars, runVars, temporalVars, historyVars
  <2>2. ControlInv'
    BY <1>19 DEF ControlInv, vars, wfVars, runVars, temporalVars, historyVars
  <2> QED BY <2>1, <2>2
<1> QED
  BY <1>1, <1>2, <1>3, <1>4, <1>5, <1>6, <1>7, <1>8, <1>10, <1>11, <1>12, <1>13,
     <1>14, <1>15, <1>16, <1>17, <1>18, <1>19
  DEF Next, RunStep

\* The invariant every later proof uses.
THEOREM TypeInvariance == Spec => []TypeInv
BY TypeInvInit, TypeInvStep, PTL DEF Spec

\* Type correctness: the queues hold signals, the cycle counter stays within the
\* step cap and the step counters within the fuse, across every continue-as-new.
THEOREM TypeCorrect == Spec => []TypeOK
<1>1. TypeInv => TypeOK
  BY DEF TypeInv
<1> QED BY <1>1, TypeInvariance, PTL

-----------------------------------------------------------------------------
(* Commits and retirement.                                                 *)

\* The cycle counter, read across the runs of the agent, moves in CommitCycle
\* only, and by one: no continue-as-new resets or repeats it.
LEMMA CycleCountStep ==
    ASSUME TypeInv, [Next]_vars
    PROVE  \/ CycleCount' = CycleCount /\ commits' = commits
           \/ /\ CommitCycle /\ pc = "commit"
              /\ CycleCount = tick /\ CycleCount' = tick + 1
              /\ tick \in Ticks
<1> USE DEF CycleCount, Between
<1>1. ASSUME NEW s \in Signal, ReceiveSignal(s)
      PROVE  CycleCount' = CycleCount /\ commits' = commits
  BY <1>1 DEF ReceiveSignal, runVars
<1>2. CASE ReceiveRetire
  BY <1>2 DEF ReceiveRetire, runVars, historyVars
<1>3. CASE SuggestContinueAsNew
  BY <1>3 DEF SuggestContinueAsNew, wfVars, runVars, historyVars
<1>4. CASE StartRun
  <2>1. pc = "start" /\ tick' = carry.tick /\ commits' = commits
    BY <1>4 DEF StartRun, historyVars
  <2>2. pc' \in {"retiring", "gate", "decide"}
    BY <1>4, LoopTopType DEF StartRun
  <2> QED BY <2>1, <2>2
<1>5. CASE Wake
  <2>1. pc = "gate" /\ pc' \in {"retiring", "seed"} /\ tick' = tick /\ commits' = commits
    BY <1>5 DEF Wake, historyVars
  <2> QED BY <2>1
<1>6. CASE SeedBuilt
  BY <1>6 DEF SeedBuilt, wfVars
<1>7. ASSUME NEW a \in {"idle", "act"}, Decide(a)
      PROVE  CycleCount' = CycleCount /\ commits' = commits
  BY <1>7 DEF Decide, wfVars, historyVars
<1>8. CASE LogDecision
  <2>1. pc = "log" /\ pc' \in {"commit", "execute"} /\ tick' = tick /\ commits' = commits
    BY <1>8 DEF LogDecision
  <2> QED BY <2>1
<1>9. CASE ExecuteAndContinue
  BY <1>9 DEF ExecuteAndContinue, Perform, wfVars
<1>10. CASE ExecuteAndBlowFuse
  BY <1>10 DEF ExecuteAndBlowFuse, Perform, wfVars
<1>11. CASE ForceIdle
  BY <1>11 DEF ForceIdle, Perform
<1>12. CASE MidCycleContinueAsNew
  <2>1. pc = "execute" /\ pc' = "start" /\ commits' = commits /\ carry'.tick = tick
    BY <1>12 DEF MidCycleContinueAsNew, Perform, ContinueAsNew, EncodeCarryover, CarryoverOf
  <2> QED BY <2>1
<1>13. CASE CommitCycle
  <2>1. pc = "commit" /\ tick \in Ticks
    BY <1>13, CapAssumption DEF CommitCycle, TypeInv, TypeOK, ControlInv, Ticks
  <2>2. CASE canSuggested
    <3>1. pc' = "start" /\ carry'.tick = tick + 1
      BY <1>13, <2>2 DEF CommitCycle, ContinueAsNew, EncodeCarryover, CarryoverOf
    <3> QED BY <1>13, <2>1, <3>1
  <2>3. CASE ~canSuggested
    <3>1. pc' \in {"retiring", "gate", "decide"} /\ tick' = tick + 1
      BY <1>13, <2>3, LoopTopType DEF CommitCycle
    <3> QED BY <1>13, <2>1, <3>1
  <2> QED BY <2>2, <2>3
<1>14. CASE PersistRetirement
  <2>1. pc = "retiring" /\ pc' \in {"notify", "done"} /\ tick' = tick /\ commits' = commits
    BY <1>14 DEF PersistRetirement, wfVars
  <2> QED BY <2>1
<1>15. CASE NotifyParent
  BY <1>15 DEF NotifyParent, wfVars
<1>16. ASSUME NEW a \in {"invalid", "fatal"}, DecideFails(a)
      PROVE  CycleCount' = CycleCount /\ commits' = commits
  BY <1>16 DEF DecideFails, wfVars, historyVars
<1>17. CASE ActivityFails
  <2>1. pc # "start" /\ pc' = "failed" /\ tick' = tick /\ commits' = commits
    BY <1>17 DEF ActivityFails, wfVars, historyVars
  <2> QED BY <2>1
<1>18. CASE UNCHANGED vars
  BY <1>18 DEF vars, wfVars, runVars, temporalVars, historyVars
<1> QED
  BY <1>1, <1>2, <1>3, <1>4, <1>5, <1>6, <1>7, <1>8, <1>9, <1>10, <1>11, <1>12,
     <1>13, <1>14, <1>15, <1>16, <1>17, <1>18
  DEF Next, RunStep

\* commit_tick runs exactly once per completed cycle, whatever continue-as-new,
\* retirement or failure interrupts it, for every step cap and fuse.
THEOREM CommitsExact == Spec => []CommitOncePerCycle
<1>1. Init => CommitOncePerCycle
  <2> SUFFICES ASSUME Init, NEW t \in Ticks
               PROVE  commits[t] = IF t < CycleCount THEN 1 ELSE 0
    BY DEF CommitOncePerCycle
  <2>1. CycleCount = 0 /\ commits[t] = 0
    BY DEF Init, CycleCount, Between, NoCarryover
  <2> QED BY <2>1 DEF Ticks
<1>2. TypeInv /\ CommitOncePerCycle /\ [Next]_vars => CommitOncePerCycle'
  <2> SUFFICES ASSUME TypeInv, CommitOncePerCycle, [Next]_vars, NEW t \in Ticks
               PROVE  commits'[t] = IF t < CycleCount' THEN 1 ELSE 0
    BY DEF CommitOncePerCycle
  <2>1. commits[t] = IF t < CycleCount THEN 1 ELSE 0
    BY DEF CommitOncePerCycle
  <2>2. CASE CycleCount' = CycleCount /\ commits' = commits
    BY <2>1, <2>2
  <2>3. CASE /\ CommitCycle
             /\ CycleCount = tick /\ CycleCount' = tick + 1 /\ tick \in Ticks
    <3>1. commits' = [commits EXCEPT ![tick] = @ + 1] /\ DOMAIN commits = Ticks
      BY <2>3 DEF CommitCycle, TypeInv, TypeOK
    <3>2. t \in Nat /\ tick \in Nat
      BY <2>3 DEF Ticks
    <3>3. CASE t = tick
      BY <2>1, <2>3, <3>1, <3>2, <3>3
    <3>4. CASE t # tick
      BY <2>1, <2>3, <3>1, <3>2, <3>4
    <3> QED BY <3>3, <3>4
  <2> QED BY <2>2, <2>3, CycleCountStep
<1> QED BY <1>1, <1>2, TypeInvariance, PTL DEF Spec

\* Once retirement.json is written only the parent's notification is left to do.
THEOREM RetirementFinal == Spec => RetirementIsFinal
<1>1. TypeInv /\ [Next]_vars =>
          [retirementFile => UNCHANGED <<decisionLog, performed, commits, consumed>>]_vars
  <2> SUFFICES ASSUME TypeInv, Next, retirementFile
               PROVE  UNCHANGED <<decisionLog, performed, commits, consumed>>
    OBVIOUS
  <2>1. pc \in {"notify", "done"}
    BY DEF TypeInv, ControlInv
  <2>2. \/ \E s \in Signal : ReceiveSignal(s)
        \/ ReceiveRetire \/ SuggestContinueAsNew \/ NotifyParent
    BY <2>1
    DEF Next, RunStep, StartRun, Wake, SeedBuilt, Decide, LogDecision, Perform,
        ExecuteAndContinue, ExecuteAndBlowFuse, ForceIdle, MidCycleContinueAsNew,
        CommitCycle, PersistRetirement, DecideFails, ActivityFails
  <2> QED
    BY <2>2 DEF ReceiveSignal, ReceiveRetire, SuggestContinueAsNew, NotifyParent, historyVars
<1> QED BY <1>1, TypeInvariance, PTL DEF Spec, RetirementIsFinal

\* A retirement request recorded before a cycle would start or resume stops it.
THEOREM RetirementFirst == Spec => RetirementPreempts
<1>1. TypeInv /\ [Next]_vars =>
          [ /\ pc = "gate" /\ pc' = "seed" => ~retirement
            /\ pc = "start" /\ pc' = "decide" => ~carry.retirement ]_vars
  <2> SUFFICES ASSUME TypeInv, Next
               PROVE  /\ pc = "gate" /\ pc' = "seed" => ~retirement
                      /\ pc = "start" /\ pc' = "decide" => ~carry.retirement
    OBVIOUS
  <2>1. ASSUME pc = "gate", pc' = "seed" PROVE ~retirement
    <3>1. Wake
      BY <2>1
      DEF Next, RunStep, ReceiveSignal, ReceiveRetire, SuggestContinueAsNew, StartRun,
          Wake, SeedBuilt, Decide, LogDecision, Perform, ExecuteAndContinue,
          ExecuteAndBlowFuse, ForceIdle, MidCycleContinueAsNew, CommitCycle,
          PersistRetirement, NotifyParent, DecideFails, ActivityFails, runVars
    <3> QED BY <2>1, <3>1 DEF Wake
  <2>2. ASSUME pc = "start", pc' = "decide" PROVE ~carry.retirement
    <3>1. StartRun
      BY <2>2
      DEF Next, RunStep, ReceiveSignal, ReceiveRetire, SuggestContinueAsNew, StartRun,
          Wake, SeedBuilt, Decide, LogDecision, Perform, ExecuteAndContinue,
          ExecuteAndBlowFuse, ForceIdle, MidCycleContinueAsNew, CommitCycle,
          PersistRetirement, NotifyParent, DecideFails, ActivityFails, runVars
    <3> DEFINE asked == IF HandlersFirst /\ ~carry.some THEN bufferedRetire
                        ELSE carry.retirement
    <3>2. LoopTop(carry.tick, carry.inFlight, asked) = "decide"
      BY <2>2, <3>1 DEF StartRun
    <3>3. carry.inFlight # NoSession /\ ~asked
      BY <3>2, LoopTopType
    <3>4. carry.some
      BY <2>2, <3>3, NoTypes DEF TypeInv, ControlInv
    <3> QED BY <3>3, <3>4
  <2> QED BY <2>1, <2>2
<1> QED BY <1>1, TypeInvariance, PTL DEF Spec, RetirementPreempts

-----------------------------------------------------------------------------
(* The decision trail.                                                     *)

\* How many of the open cycle's steps are in the decision log.
LogLen ==
    IF Between THEN carry.inFlight.len
    ELSE IF pc \in {"execute", "commit"} THEN step
    ELSE session.len

\* TrailExact is inductive once the log's length is known at every pc, not only
\* when the run is about to decide.
TrailInv ==
    \A t \in Ticks, s \in Steps :
        /\ decisionLog[<<t, s>>] <= 1
        /\ performed[<<t, s>>] <= decisionLog[<<t, s>>]
        /\ t > CycleCount => decisionLog[<<t, s>>] = 0
        /\ t = CycleCount /\ Open =>
              /\ performed[<<t, s>>] = IF s < StepsTaken THEN 1 ELSE 0
              /\ decisionLog[<<t, s>>] = IF s < LogLen THEN 1 ELSE 0
        /\ s > 0 /\ decisionLog[<<t, s>>] = 1 => performed[<<t, s - 1>>] = 1

\* What a step does to the trail of the open cycle.
TrailKept ==
    /\ decisionLog' = decisionLog /\ performed' = performed
    /\ CycleCount' = CycleCount
    /\ Open' => Open /\ StepsTaken' = StepsTaken /\ LogLen' = LogLen
TrailLogged ==
    /\ decisionLog' = [decisionLog EXCEPT ![<<tick, step>>] = @ + 1]
    /\ performed' = performed
    /\ Open /\ CycleCount = tick /\ CycleCount' = tick
    /\ LogLen = step /\ LogLen' = step + 1
    /\ StepsTaken = step /\ StepsTaken' = step
    /\ tick \in Ticks /\ step \in Steps
TrailPerformed ==
    /\ decisionLog' = decisionLog
    /\ performed' = [performed EXCEPT ![<<tick, session.len>>] = @ + 1]
    /\ Open /\ CycleCount = tick /\ CycleCount' = tick
    /\ LogLen = session.len + 1 /\ LogLen' = session.len + 1
    /\ StepsTaken = session.len /\ StepsTaken' = session.len + 1
    /\ tick \in Ticks /\ session.len \in Steps
TrailClosed ==
    /\ decisionLog' = decisionLog /\ performed' = performed
    /\ Open /\ CycleCount \in Nat /\ CycleCount' = CycleCount + 1
    /\ Open' => StepsTaken' = 0 /\ LogLen' = 0

\* Every step keeps the trail, logs one decision, performs one logged action, or
\* closes the cycle.
LEMMA TrailStep ==
    ASSUME TypeInv, [Next]_vars
    PROVE  TrailKept \/ TrailLogged \/ TrailPerformed \/ TrailClosed
<1> USE DEF CycleCount, StepsTaken, LogLen, Between, Open, Closing, Closed, TypeInv
<1>1. ASSUME NEW s \in Signal, ReceiveSignal(s) PROVE TrailKept
  BY <1>1 DEF ReceiveSignal, runVars, TrailKept
<1>2. CASE ReceiveRetire
  BY <1>2 DEF ReceiveRetire, runVars, historyVars, TrailKept
<1>3. CASE SuggestContinueAsNew
  BY <1>3 DEF SuggestContinueAsNew, wfVars, runVars, historyVars, TrailKept
<1>4. CASE StartRun
  <2>1. /\ pc = "start" /\ tick' = carry.tick /\ session' = carry.inFlight
        /\ UNCHANGED historyVars
    BY <1>4 DEF StartRun
  <2>2. pc' \in {"retiring", "gate", "decide"}
    BY <1>4, LoopTopType DEF StartRun
  <2> QED BY <2>1, <2>2 DEF TrailKept, historyVars
<1>5. CASE Wake
  <2>1. /\ pc = "gate" /\ UNCHANGED <<tick, historyVars>>
        /\ \/ pc' = "retiring"
           \/ pc' = "seed" /\ session' = [seed |-> pending, len |-> 0]
    BY <1>5 DEF Wake
  <2>2. session.len = 0
    BY <2>1, NoTypes DEF ControlInv
  <2> QED BY <2>1, <2>2 DEF TrailKept, historyVars
<1>6. CASE SeedBuilt
  <2>1. pc = "seed" /\ pc' = "decide" /\ session'.len = session.len
    BY <1>6 DEF SeedBuilt, TypeOK, Sessions
  <2> QED BY <1>6, <2>1 DEF SeedBuilt, wfVars, TrailKept
<1>7. ASSUME NEW a \in {"idle", "act"}, Decide(a) PROVE TrailKept
  BY <1>7 DEF Decide, wfVars, historyVars, TrailKept
<1>8. CASE LogDecision
  <2>1. /\ pc = "log" /\ pc' \in {"commit", "execute"}
        /\ decisionLog' = [decisionLog EXCEPT ![<<tick, step>>] = @ + 1]
        /\ step' = step + 1 /\ UNCHANGED <<tick, session, performed>>
    BY <1>8 DEF LogDecision
  <2>2. session.len = step /\ tick \in Ticks /\ step \in Steps
    BY <2>1, CapAssumption DEF TypeOK, ControlInv, Ticks, Steps
  <2> QED BY <2>1, <2>2 DEF TrailLogged
<1>9. ASSUME Perform
      PROVE  /\ pc = "execute" /\ step = session.len + 1 /\ decisionLog' = decisionLog
             /\ performed' = [performed EXCEPT ![<<tick, session.len>>] = @ + 1]
             /\ tick \in Ticks /\ session.len \in Steps
             /\ Pushed.len = session.len + 1
  <2>1. session.len \in 0 .. CycleRunawayFuse
    BY DEF TypeOK, Sessions
  <2> QED
    BY <1>9, <2>1, CapAssumption
    DEF Perform, TypeOK, Sessions, ControlInv, Ticks, Steps, Pushed
<1>10. CASE ExecuteAndContinue
  <2>1. Perform /\ pc' = "decide" /\ session' = Pushed /\ tick' = tick
    BY <1>10 DEF ExecuteAndContinue, wfVars
  <2> QED BY <1>9, <2>1 DEF TrailPerformed
<1>11. CASE ExecuteAndBlowFuse
  <2>1. Perform /\ pc' = "commit" /\ session' = Pushed /\ UNCHANGED <<tick, step>>
    BY <1>11 DEF ExecuteAndBlowFuse, wfVars
  <2> QED BY <1>9, <2>1 DEF TrailPerformed
<1>12. CASE ForceIdle
  <2>1. Perform /\ pc' = "commit" /\ session' = Pushed /\ UNCHANGED <<tick, step>>
    BY <1>12 DEF ForceIdle
  <2> QED BY <1>9, <2>1 DEF TrailPerformed
<1>13. CASE MidCycleContinueAsNew
  <2>1. Perform /\ pc' = "start" /\ carry'.tick = tick /\ carry'.inFlight = Pushed
    BY <1>13 DEF MidCycleContinueAsNew, ContinueAsNew, EncodeCarryover, CarryoverOf
  <2> QED BY <1>9, <2>1 DEF TrailPerformed
<1>14. CASE CommitCycle
  <2>1. pc = "commit" /\ tick \in Nat /\ UNCHANGED <<decisionLog, performed>>
    BY <1>14 DEF CommitCycle, TypeOK
  <2>2. CASE canSuggested
    <3>1. pc' = "start" /\ carry'.tick = tick + 1 /\ carry'.inFlight = NoSession
      BY <1>14, <2>2 DEF CommitCycle, ContinueAsNew, EncodeCarryover, CarryoverOf
    <3> QED BY <2>1, <3>1, NoTypes DEF TrailClosed
  <2>3. CASE ~canSuggested
    <3>1. pc' \in {"retiring", "gate"} /\ tick' = tick + 1 /\ session' = NoSession
      BY <1>14, <2>3, LoopTopType DEF CommitCycle
    <3> QED BY <2>1, <3>1, NoTypes DEF TrailClosed
  <2> QED BY <2>2, <2>3
<1>15. CASE PersistRetirement
  <2>1. /\ pc = "retiring" /\ pc' \in {"notify", "done"}
        /\ UNCHANGED <<tick, decisionLog, performed>>
    BY <1>15 DEF PersistRetirement, wfVars
  <2> QED BY <2>1 DEF TrailKept
<1>16. CASE NotifyParent
  BY <1>16 DEF NotifyParent, wfVars, TrailKept
<1>17. ASSUME NEW a \in {"invalid", "fatal"}, DecideFails(a) PROVE TrailKept
  BY <1>17 DEF DecideFails, wfVars, historyVars, TrailKept
<1>18. CASE ActivityFails
  <2>1. /\ pc # "start" /\ pc' = "failed"
        /\ UNCHANGED <<tick, decisionLog, performed>>
    BY <1>18 DEF ActivityFails, wfVars, historyVars
  <2> QED BY <2>1 DEF TrailKept
<1>19. CASE UNCHANGED vars
  BY <1>19 DEF vars, wfVars, runVars, temporalVars, historyVars, TrailKept
<1> QED
  BY <1>1, <1>2, <1>3, <1>4, <1>5, <1>6, <1>7, <1>8, <1>10, <1>11, <1>12, <1>13,
     <1>14, <1>15, <1>16, <1>17, <1>18, <1>19
  DEF Next, RunStep

\* The trail of one step of one cycle, kept by each of the four kinds of step.
LEMMA TrailInvStep == TypeInv /\ TrailInv /\ [Next]_vars => TrailInv'
<1> SUFFICES ASSUME TypeInv, TrailInv, [Next]_vars, NEW t \in Ticks, NEW s \in Steps
             PROVE  /\ decisionLog'[<<t, s>>] <= 1
                    /\ performed'[<<t, s>>] <= decisionLog'[<<t, s>>]
                    /\ t > CycleCount' => decisionLog'[<<t, s>>] = 0
                    /\ t = CycleCount' /\ Open' =>
                          /\ performed'[<<t, s>>] = IF s < StepsTaken' THEN 1 ELSE 0
                          /\ decisionLog'[<<t, s>>] = IF s < LogLen' THEN 1 ELSE 0
                    /\ s > 0 /\ decisionLog'[<<t, s>>] = 1 => performed'[<<t, s - 1>>] = 1
  BY DEF TrailInv
<1>1. /\ decisionLog[<<t, s>>] <= 1
      /\ performed[<<t, s>>] <= decisionLog[<<t, s>>]
      /\ t > CycleCount => decisionLog[<<t, s>>] = 0
      /\ t = CycleCount /\ Open =>
            /\ performed[<<t, s>>] = IF s < StepsTaken THEN 1 ELSE 0
            /\ decisionLog[<<t, s>>] = IF s < LogLen THEN 1 ELSE 0
      /\ s > 0 /\ decisionLog[<<t, s>>] = 1 => performed[<<t, s - 1>>] = 1
  BY DEF TrailInv
<1>2. /\ decisionLog \in [Ticks \X Steps -> Nat] /\ performed \in [Ticks \X Steps -> Nat]
      /\ t \in Nat /\ s \in Nat
  BY DEF TypeInv, TypeOK, Ticks, Steps
<1>3. decisionLog[<<t, s>>] \in Nat /\ performed[<<t, s>>] \in Nat
  BY <1>2
<1>4. s > 0 => s - 1 \in Steps
  BY CapAssumption DEF Steps
<1>5. CASE TrailKept
  BY <1>1, <1>5 DEF TrailKept
<1>6. CASE TrailLogged
  <2>1. performed' = performed /\ CycleCount' = CycleCount
    BY <1>6 DEF TrailLogged
  <2>2. CASE t = tick /\ s = step
    <3>1. decisionLog[<<t, s>>] = 0 /\ performed[<<t, s>>] = 0
      BY <1>1, <1>6, <2>2 DEF TrailLogged, Steps
    <3>2. decisionLog'[<<t, s>>] = 1
      BY <1>2, <1>6, <2>2, <3>1 DEF TrailLogged
    <3>3. s > 0 => performed[<<t, s - 1>>] = 1
      <4>1. s > 0 => s - 1 \in Steps /\ s - 1 < StepsTaken
        BY <1>4, <1>6, <2>2, <1>2 DEF TrailLogged
      <4> QED BY <4>1, <1>6, <2>2 DEF TrailLogged, TrailInv
    <3>4. s < LogLen' /\ ~(s < StepsTaken')
      BY <1>6, <2>2, <1>2 DEF TrailLogged
    <3>5. ~(t > CycleCount')
      BY <1>6, <2>2, <1>2 DEF TrailLogged
    <3> QED BY <2>1, <3>1, <3>2, <3>3, <3>4, <3>5
  <2>3. CASE ~(t = tick /\ s = step)
    <3>1. decisionLog'[<<t, s>>] = decisionLog[<<t, s>>]
      BY <1>2, <1>6, <2>3 DEF TrailLogged
    <3>2. t = tick => (s < LogLen' <=> s < LogLen)
      BY <1>2, <1>6, <2>3 DEF TrailLogged, Steps
    <3> QED BY <1>1, <1>6, <2>1, <3>1, <3>2 DEF TrailLogged
  <2> QED BY <2>2, <2>3
<1>7. CASE TrailPerformed
  <2>1. decisionLog' = decisionLog /\ CycleCount' = CycleCount
    BY <1>7 DEF TrailPerformed
  <2>2. CASE t = tick /\ s = session.len
    <3>1. decisionLog[<<t, s>>] = 1 /\ performed[<<t, s>>] = 0
      BY <1>1, <1>7, <2>2 DEF TrailPerformed, Steps
    <3>2. performed'[<<t, s>>] = 1
      BY <1>2, <1>7, <2>2, <3>1 DEF TrailPerformed
    <3>3. s > 0 => performed'[<<t, s - 1>>] = 1
      <4>1. s > 0 => performed'[<<t, s - 1>>] = performed[<<t, s - 1>>]
        BY <1>2, <1>4, <1>7, <2>2 DEF TrailPerformed
      <4> QED BY <1>1, <3>1, <4>1
    <3>4. s < LogLen' /\ s < StepsTaken'
      BY <1>7, <2>2, <1>2 DEF TrailPerformed
    <3> QED BY <1>1, <2>1, <3>1, <3>2, <3>3, <3>4
  <2>3. CASE ~(t = tick /\ s = session.len)
    <3>1. performed'[<<t, s>>] = performed[<<t, s>>]
      BY <1>2, <1>7, <2>3 DEF TrailPerformed
    <3>2. t = tick => (s < StepsTaken' <=> s < StepsTaken)
      BY <1>2, <1>7, <2>3 DEF TrailPerformed, Steps
    <3>3. s > 0 /\ decisionLog[<<t, s>>] = 1 => performed'[<<t, s - 1>>] = 1
      <4> SUFFICES ASSUME s > 0, decisionLog[<<t, s>>] = 1
                   PROVE  performed'[<<t, s - 1>>] = 1
        OBVIOUS
      <4>1. performed[<<t, s - 1>>] = 1
        BY <1>1
      <4>2. ~(t = tick /\ s - 1 = session.len)
        <5>1. ASSUME t = tick, s - 1 = session.len PROVE FALSE
          <6>1. performed[<<t, s - 1>>] = IF s - 1 < StepsTaken THEN 1 ELSE 0
            BY <1>4, <1>7, <5>1 DEF TrailPerformed, TrailInv
          <6> QED BY <4>1, <6>1, <1>2, <1>7, <5>1 DEF TrailPerformed
        <5> QED BY <5>1
      <4> QED BY <1>2, <1>4, <1>7, <4>1, <4>2 DEF TrailPerformed
    <3> QED BY <1>1, <1>7, <2>1, <3>1, <3>2, <3>3 DEF TrailPerformed
  <2> QED BY <2>2, <2>3
<1>8. CASE TrailClosed
  <2>1. decisionLog' = decisionLog /\ performed' = performed
    BY <1>8 DEF TrailClosed
  <2>2. t > CycleCount' => t > CycleCount
    BY <1>2, <1>8 DEF TrailClosed
  <2>3. t = CycleCount' => t > CycleCount
    BY <1>2, <1>8 DEF TrailClosed
  <2>4. Open' => ~(s < StepsTaken') /\ ~(s < LogLen')
    BY <1>2, <1>8 DEF TrailClosed
  <2> QED BY <1>1, <1>3, <2>1, <2>2, <2>3, <2>4
<1> QED BY <1>5, <1>6, <1>7, <1>8, TrailStep

\* Whatever continue-as-new falls in the middle of a cycle, no decision file is
\* overwritten, no step is executed twice or unlogged, and the trail has no gap.
THEOREM TrailIsExact == Spec => []TrailExact
<1>1. Init => TrailInv
  <2> SUFFICES ASSUME Init PROVE TrailInv
    OBVIOUS
  <2>1. CycleCount = 0 /\ StepsTaken = 0 /\ LogLen = 0
    BY NoTypes DEF Init, CycleCount, StepsTaken, LogLen, Between
  <2>2. ASSUME NEW t \in Ticks, NEW s \in Steps
        PROVE  /\ decisionLog[<<t, s>>] <= 1
               /\ performed[<<t, s>>] <= decisionLog[<<t, s>>]
               /\ t > CycleCount => decisionLog[<<t, s>>] = 0
               /\ t = CycleCount /\ Open =>
                     /\ performed[<<t, s>>] = IF s < StepsTaken THEN 1 ELSE 0
                     /\ decisionLog[<<t, s>>] = IF s < LogLen THEN 1 ELSE 0
               /\ s > 0 /\ decisionLog[<<t, s>>] = 1 => performed[<<t, s - 1>>] = 1
    <3>1. decisionLog[<<t, s>>] = 0 /\ performed[<<t, s>>] = 0 /\ ~(s < 0)
      BY DEF Init, Steps
    <3> QED BY <2>1, <3>1
  <2> QED BY <2>2 DEF TrailInv
<1>2. TypeInv /\ TrailInv => TrailExact
  <2> SUFFICES ASSUME TypeInv, TrailInv, NEW t \in Ticks, NEW s \in Steps,
                      t = CycleCount, pc = "decide"
               PROVE  decisionLog[<<t, s>>] = IF s < step THEN 1 ELSE 0
    BY DEF TrailExact, TrailInv
  <2>1. LogLen = step /\ Open
    BY DEF LogLen, Between, Open, Closing, Closed, TypeInv, ControlInv
  <2> QED BY <2>1 DEF TrailInv
<1> QED BY <1>1, <1>2, TrailInvStep, TypeInvariance, PTL DEF Spec

-----------------------------------------------------------------------------
(* The hand-off of signals.                                                *)

\* What the queue operations do to one bucket.
LEMMA NothingAt == ASSUME NEW b \in Bucket PROVE Nothing[b] = <<>> /\ NoCount[b] = 0
BY DEF Nothing, NoCount

\* One bucket of the queues.
LEMMA QueueAt ==
    ASSUME NEW b \in Bucket, NEW q \in Queues
    PROVE  q[b] \in Seq(Signal)
BY DEF Queues

\* Merging queues bucket by bucket.
LEMMA JoinAt ==
    ASSUME NEW b \in Bucket, NEW p, NEW q
    PROVE  Join(p, q)[b] = p[b] \o q[b]
BY DEF Join

\* A handler's push reaches the signal's own bucket only.
LEMMA PushAt ==
    ASSUME NEW b \in Bucket, NEW q \in Queues, NEW s
    PROVE  Push(q, s)[b] = IF b = BucketOf[s] THEN Append(q[b], s) ELSE q[b]
BY DEF Push, Queues

\* Keeping some buckets only.
LEMMA OnlyAt ==
    ASSUME NEW b \in Bucket, NEW q, NEW B
    PROVE  Only(q, B)[b] = IF b \in B THEN q[b] ELSE <<>>
BY DEF Only

\* Concatenation, as far as the hand-off needs it.
LEMMA Catenation ==
    /\ \A p \in Seq(Signal) : p \o <<>> = p /\ <<>> \o p = p
    /\ \A p, q, r \in Seq(Signal) : (p \o q) \o r = p \o (q \o r)
    /\ \A p, q \in Seq(Signal), s \in Signal : p \o Append(q, s) = Append(p \o q, s)
    /\ \A p, q \in Seq(Signal) : p \o q \in Seq(Signal)
<1>1. \A p \in Seq(Signal) : p \o <<>> = p /\ <<>> \o p = p
  BY ConcatEmptySeq
<1>2. \A p, q, r \in Seq(Signal) : (p \o q) \o r = p \o (q \o r)
  BY ConcatAssociative
<1>3. \A p, q \in Seq(Signal) : p \o q \in Seq(Signal)
  BY ConcatProperties
<1>4. ASSUME NEW p \in Seq(Signal), NEW q \in Seq(Signal), NEW s \in Signal
      PROVE  p \o Append(q, s) = Append(p \o q, s)
  <2>1. <<s>> \in Seq(Signal)
    OBVIOUS
  <2>2. Append(q, s) = q \o <<s>> /\ Append(p \o q, s) = (p \o q) \o <<s>>
    BY <1>3, AppendIsConcat
  <2> QED BY <1>2, <2>1, <2>2
<1> QED BY <1>1, <1>2, <1>3, <1>4

\* What a step does to one bucket.
BucketReceived(s, b) ==
    /\ received' = Push(received, s) /\ Taken(b)' = Taken(b)
    /\ Open' = Open
    /\ Queued(b)' = IF b = BucketOf[s] THEN Append(Queued(b), s) ELSE Queued(b)
BucketDrained(b) ==
    /\ received' = received /\ pc = "gate" /\ pc' = "seed"
    /\ Taken(b)' = Taken(b) \o Queued(b)
    /\ Queued(b)' = <<>>
BucketKept(b) ==
    /\ received' = received /\ Taken(b)' = Taken(b)
    /\ Open' => Open /\ Queued(b)' = Queued(b)

\* Every step receives one signal, drains the queues into a new cycle, or keeps
\* every signal where it is, continue-as-new and hydration included.
LEMMA HandOffStep ==
    ASSUME TypeInv, [Next]_vars, ~HandlersFirst, NEW b \in Bucket
    PROVE  \/ \E s \in Signal : ReceiveSignal(s) /\ BucketReceived(s, b)
           \/ BucketDrained(b)
           \/ BucketKept(b)
<1> USE DEF Taken, InHand, Queued, Between, Open, Closing, Closed, TypeInv
<1>0. /\ consumed[b] \in Seq(Signal) /\ pending[b] \in Seq(Signal)
      /\ buffered[b] \in Seq(Signal) /\ received[b] \in Seq(Signal)
      /\ session \in Sessions /\ session.seed \in Queues /\ session.seed[b] \in Seq(Signal)
      /\ carry.pending[b] \in Seq(Signal) /\ carry.inFlight.seed[b] \in Seq(Signal)
  <2>1. /\ consumed \in Queues /\ pending \in Queues /\ buffered \in Queues
        /\ received \in Queues /\ session \in Sessions /\ carry \in Carryovers
    BY DEF TypeOK
  <2>2. session.seed \in Queues /\ carry.pending \in Queues /\ carry.inFlight \in Sessions
    BY <2>1 DEF Carryovers, Sessions
  <2>3. carry.inFlight.seed \in Queues
    BY <2>2 DEF Sessions
  <2> QED BY <2>1, <2>2, <2>3, QueueAt
<1>1. ASSUME NEW s \in Signal, ReceiveSignal(s) PROVE BucketReceived(s, b)
  <2>1. CASE pc = "start"
    <3>1. buffered' = Push(buffered, s) /\ UNCHANGED <<pc, carry, consumed>>
      BY <1>1, <2>1 DEF ReceiveSignal, runVars
    <3>2. buffered'[b] = IF b = BucketOf[s] THEN Append(buffered[b], s) ELSE buffered[b]
      BY <3>1, PushAt DEF TypeOK
    <3>3. /\ Queued(b) = carry.pending[b] \o buffered[b]
          /\ Queued(b)' = carry.pending[b] \o buffered'[b]
      BY <2>1, <3>1
    <3>4. carry.pending[b] \o Append(buffered[b], s)
             = Append(carry.pending[b] \o buffered[b], s)
      <4> DEFINE p == carry.pending[b]
                 q == buffered[b]
      <4>1. p \in Seq(Signal) /\ q \in Seq(Signal)
        BY <1>0
      <4> HIDE DEF p, q
      <4>2. p \o Append(q, s) = Append(p \o q, s)
        BY <4>1, Catenation
      <4> QED BY <4>2 DEF p, q
    <3>5. Queued(b)' = IF b = BucketOf[s] THEN Append(Queued(b), s) ELSE Queued(b)
      <4> HIDE DEF Queued
      <4> QED BY <3>2, <3>3, <3>4
    <3> QED BY <1>1, <2>1, <3>1, <3>5 DEF ReceiveSignal, BucketReceived
  <2>2. CASE pc # "start"
    <3>1. pending' = Push(pending, s) /\ UNCHANGED <<pc, session, consumed>>
      BY <1>1, <2>2 DEF ReceiveSignal, runVars
    <3>2. pending'[b] = IF b = BucketOf[s] THEN Append(pending[b], s) ELSE pending[b]
      BY <3>1, PushAt DEF TypeOK
    <3> QED BY <1>1, <2>2, <3>1, <3>2 DEF ReceiveSignal, BucketReceived
  <2> QED BY <2>1, <2>2
<1>2. CASE ReceiveRetire
  BY <1>2 DEF ReceiveRetire, runVars, historyVars, BucketKept
<1>3. CASE SuggestContinueAsNew
  BY <1>3 DEF SuggestContinueAsNew, wfVars, runVars, historyVars, BucketKept
<1>4. CASE StartRun
  <2>1. /\ pc = "start" /\ pending' = Join(carry.pending, buffered)
        /\ session' = carry.inFlight /\ UNCHANGED historyVars
    BY <1>4 DEF StartRun
  <2>2. pc' \in {"retiring", "gate", "decide"}
    BY <1>4, LoopTopType DEF StartRun
  <2>3. pending'[b] = carry.pending[b] \o buffered[b]
    BY <2>1, JoinAt
  <2> QED BY <2>1, <2>2, <2>3 DEF BucketKept, historyVars
<1>5. CASE Wake
  <2>1. /\ pc = "gate" /\ pending' = Nothing /\ UNCHANGED historyVars
        /\ \/ pc' = "retiring" /\ session' = session
           \/ pc' = "seed" /\ session' = [seed |-> pending, len |-> 0]
    BY <1>5 DEF Wake
  <2>2. session.seed[b] = <<>> /\ pending'[b] = <<>>
    BY <2>1, NothingAt DEF ControlInv, NoSession
  <2>3. Taken(b) = consumed[b]
    BY <1>0, <2>1, <2>2, Catenation
  <2>4. CASE pc' = "retiring" /\ session' = session
    BY <2>1, <2>4 DEF BucketKept, historyVars
  <2>5. CASE pc' = "seed" /\ session' = [seed |-> pending, len |-> 0]
    BY <2>1, <2>2, <2>3, <2>5 DEF BucketDrained, historyVars
  <2> QED BY <2>1, <2>4, <2>5
<1>6. CASE SeedBuilt
  <2>1. /\ pc = "seed" /\ pc' = "decide" /\ UNCHANGED <<received, pending>>
        /\ consumed' = Join(consumed, Only(session.seed, {"mandate_patch"}))
        /\ session' = [session EXCEPT !.seed = Only(@, {"trigger", "human_op"})]
    BY <1>6 DEF SeedBuilt, wfVars
  <2>2. session'.seed = Only(session.seed, {"trigger", "human_op"})
    BY <1>0, <2>1 DEF Sessions
  <2>3. Only(session.seed, {"mandate_patch"}) \in Queues
    BY <1>0, BucketTypes
  <2>4. /\ consumed'[b] = consumed[b] \o Only(session.seed, {"mandate_patch"})[b]
        /\ Only(session.seed, {"mandate_patch"})[b]
              = IF b \in {"mandate_patch"} THEN session.seed[b] ELSE <<>>
        /\ session'.seed[b]
              = IF b \in {"trigger", "human_op"} THEN session.seed[b] ELSE <<>>
    <3>1. consumed'[b] = consumed[b] \o Only(session.seed, {"mandate_patch"})[b]
      BY <2>1, JoinAt
    <3>2. Only(session.seed, {"mandate_patch"})[b]
             = IF b \in {"mandate_patch"} THEN session.seed[b] ELSE <<>>
      BY OnlyAt
    <3>3. Only(session.seed, {"trigger", "human_op"})[b]
             = IF b \in {"trigger", "human_op"} THEN session.seed[b] ELSE <<>>
      BY OnlyAt
    <3> QED BY <2>2, <3>1, <3>2, <3>3
  <2>5. CASE b = "mandate_patch"
    <3>1. session'.seed[b] = <<>> /\ consumed'[b] = consumed[b] \o session.seed[b]
      BY <2>4, <2>5
    <3> QED BY <1>0, <2>1, <3>1, Catenation DEF BucketKept
  <2>6. CASE b # "mandate_patch"
    <3>1. session'.seed[b] = session.seed[b] /\ consumed'[b] = consumed[b] \o <<>>
      BY <2>4, <2>6 DEF Bucket
    <3> QED BY <1>0, <2>1, <3>1, Catenation DEF BucketKept
  <2> QED BY <2>5, <2>6
<1>7. ASSUME NEW a \in {"idle", "act"}, Decide(a) PROVE BucketKept(b)
  BY <1>7 DEF Decide, wfVars, historyVars, BucketKept
<1>8. CASE LogDecision
  <2>1. /\ pc = "log" /\ pc' \in {"commit", "execute"}
        /\ UNCHANGED <<received, consumed, pending, session>>
    BY <1>8 DEF LogDecision
  <2> QED BY <2>1 DEF BucketKept
<1>9. ASSUME Perform
      PROVE  pc = "execute" /\ UNCHANGED <<received, consumed>> /\ Pushed.seed = session.seed
  BY <1>0, <1>9 DEF Perform, Pushed, Sessions
<1>10. CASE ExecuteAndContinue
  <2>1. Perform /\ pc' = "decide" /\ session' = Pushed /\ pending' = pending
    BY <1>10 DEF ExecuteAndContinue, wfVars
  <2> QED BY <1>9, <2>1 DEF BucketKept
<1>11. CASE ExecuteAndBlowFuse
  <2>1. Perform /\ pc' = "commit" /\ session' = Pushed /\ pending' = pending
    BY <1>11 DEF ExecuteAndBlowFuse, wfVars
  <2> QED BY <1>9, <2>1 DEF BucketKept
<1>12. CASE ForceIdle
  <2>1. Perform /\ pc' = "commit" /\ session' = Pushed /\ pending' = pending
    BY <1>12 DEF ForceIdle
  <2> QED BY <1>9, <2>1 DEF BucketKept
<1>13. CASE MidCycleContinueAsNew
  <2>1. /\ Perform /\ pc' = "start" /\ carry'.inFlight = Pushed
        /\ carry'.pending = pending /\ buffered' = buffered
    BY <1>13 DEF MidCycleContinueAsNew, ContinueAsNew, EncodeCarryover, CarryoverOf
  <2>2. buffered[b] = <<>>
    BY <1>9, <2>1, NothingAt DEF ControlInv
  <2> QED BY <1>0, <1>9, <2>1, <2>2, Catenation DEF BucketKept
<1>14. CASE CommitCycle
  <2>1. /\ pc = "commit" /\ received' = received
        /\ consumed' = Join(consumed, session.seed)
    BY <1>14 DEF CommitCycle
  <2>2. consumed'[b] = consumed[b] \o session.seed[b] /\ consumed'[b] \in Seq(Signal)
    <3>1. consumed'[b] = consumed[b] \o session.seed[b]
      BY <2>1, JoinAt
    <3> QED BY <1>0, <3>1, Catenation
  <2>3. NoSession.seed[b] = <<>>
    BY NothingAt DEF NoSession
  <2>4. CASE canSuggested
    <3>1. /\ pc' = "start" /\ carry'.inFlight = NoSession
          /\ carry'.pending = pending /\ buffered' = buffered
      BY <1>14, <2>4 DEF CommitCycle, ContinueAsNew, EncodeCarryover, CarryoverOf
    <3>2. buffered[b] = <<>>
      BY <2>1, NothingAt DEF ControlInv
    <3> QED BY <1>0, <2>1, <2>2, <2>3, <3>1, <3>2, Catenation DEF BucketKept
  <2>5. CASE ~canSuggested
    <3>1. pc' \in {"retiring", "gate"} /\ session' = NoSession /\ pending' = pending
      BY <1>14, <2>5, LoopTopType DEF CommitCycle
    <3> QED BY <1>0, <2>1, <2>2, <2>3, <3>1, Catenation DEF BucketKept
  <2> QED BY <2>4, <2>5
<1>15. CASE PersistRetirement
  <2>1. /\ pc = "retiring" /\ pc' \in {"notify", "done"}
        /\ UNCHANGED <<received, consumed, session>>
    BY <1>15 DEF PersistRetirement
  <2> QED BY <2>1 DEF BucketKept
<1>16. CASE NotifyParent
  BY <1>16 DEF NotifyParent, BucketKept
<1>17. ASSUME NEW a \in {"invalid", "fatal"}, DecideFails(a) PROVE BucketKept(b)
  BY <1>17 DEF DecideFails, historyVars, BucketKept
<1>18. CASE ActivityFails
  <2>1. /\ pc # "start" /\ pc' = "failed"
        /\ UNCHANGED <<received, consumed, session>>
    BY <1>18 DEF ActivityFails, historyVars
  <2> QED BY <2>1 DEF BucketKept
<1>19. CASE UNCHANGED vars
  BY <1>19 DEF vars, wfVars, runVars, temporalVars, historyVars, BucketKept
<1> QED
  BY <1>1, <1>2, <1>3, <1>4, <1>5, <1>6, <1>7, <1>8, <1>10, <1>11, <1>12, <1>13,
     <1>14, <1>15, <1>16, <1>17, <1>18, <1>19
  DEF Next, RunStep

\* Each signal accepted is in exactly one place, in order of acceptance, for
\* every set of signals and every placement of continue-as-new.
THEOREM HandOffExact == Spec => []ExactlyOnceHandOff
<1>1. Init => ExactlyOnceHandOff
  <2> SUFFICES ASSUME Init, NEW b \in Bucket
               PROVE  received[b] = consumed[b] \o InHand(b) \o Queued(b)
    BY DEF ExactlyOnceHandOff
  <2>1. /\ received[b] = <<>> /\ consumed[b] = <<>>
        /\ InHand(b) = <<>> /\ Queued(b) = <<>> \o <<>>
    BY NothingAt DEF Init, InHand, Queued, Between, NoCarryover, NoSession
  <2>2. <<>> \in Seq(Signal)
    OBVIOUS
  <2> QED BY <2>1, <2>2, Catenation
<1>2. TypeInv /\ ExactlyOnceHandOff /\ [Next]_vars => ExactlyOnceHandOff'
  <2> SUFFICES ASSUME TypeInv, ExactlyOnceHandOff, [Next]_vars,
                      Open', ~HandlersFirst, NEW b \in Bucket
               PROVE  received'[b] = Taken(b)' \o Queued(b)'
    BY DEF ExactlyOnceHandOff, Taken
  <2>1. Open => received[b] = Taken(b) \o Queued(b)
    BY DEF ExactlyOnceHandOff, Taken
  <2>2. Taken(b) \in Seq(Signal) /\ Queued(b) \in Seq(Signal)
    <3>1. /\ consumed \in Queues /\ pending \in Queues /\ buffered \in Queues
          /\ session \in Sessions /\ carry \in Carryovers
      BY DEF TypeInv, TypeOK
    <3>2. /\ session.seed \in Queues /\ carry.pending \in Queues
          /\ carry.inFlight.seed \in Queues
      BY <3>1 DEF Carryovers, Sessions
    <3> QED BY <3>1, <3>2, QueueAt, Catenation DEF Taken, InHand, Queued
  <2>3. ASSUME NEW s \in Signal, BucketReceived(s, b)
        PROVE  received'[b] = Taken(b)' \o Queued(b)'
    <3>1. received'[b] = IF b = BucketOf[s] THEN Append(received[b], s) ELSE received[b]
      BY <2>3, PushAt DEF BucketReceived, TypeInv, TypeOK
    <3>2. received[b] = Taken(b) \o Queued(b)
      BY <2>1, <2>3 DEF BucketReceived
    <3>3. Taken(b) \o Append(Queued(b), s) = Append(Taken(b) \o Queued(b), s)
      BY <2>2, Catenation
    <3> QED BY <2>3, <3>1, <3>2, <3>3 DEF BucketReceived
  <2>4. CASE BucketDrained(b)
    <3>1. received'[b] = Taken(b) \o Queued(b)
      BY <2>1, <2>4 DEF BucketDrained, Open, Closing, Closed
    <3>2. Taken(b)' \in Seq(Signal)
      BY <2>2, <2>4, Catenation DEF BucketDrained
    <3> QED BY <2>4, <3>1, <3>2, Catenation DEF BucketDrained
  <2>5. CASE BucketKept(b)
    BY <2>1, <2>5 DEF BucketKept
  <2> QED BY <2>3, <2>4, <2>5, HandOffStep
<1> QED BY <1>1, <1>2, TypeInvariance, PTL DEF Spec

\* Where the receipts of one bucket are counted.
Seen(b) == IF Between THEN carry.observed[b] + Len(buffered[b]) ELSE observed[b]

\* The cumulative counters move with the receipts and with nothing else.
LEMMA CounterStep ==
    ASSUME TypeInv, [Next]_vars, ~HandlersFirst, NEW b \in Bucket
    PROVE  \/ received' = received /\ Seen(b)' = Seen(b)
           \/ \E s \in Signal : /\ received' = Push(received, s)
                               /\ Seen(b)' = IF b = BucketOf[s] THEN Seen(b) + 1 ELSE Seen(b)
<1> USE DEF Seen, Between, TypeInv
<1>0. /\ observed \in Counts /\ observed[b] \in Nat /\ buffered \in Queues
      /\ buffered[b] \in Seq(Signal) /\ carry.observed[b] \in Nat
  BY QueueAt DEF TypeOK, Carryovers, Counts
<1>1. ASSUME NEW s \in Signal, ReceiveSignal(s)
      PROVE  /\ received' = Push(received, s)
             /\ Seen(b)' = IF b = BucketOf[s] THEN Seen(b) + 1 ELSE Seen(b)
  <2>1. CASE pc = "start"
    <3>1. /\ buffered' = Push(buffered, s) /\ received' = Push(received, s)
          /\ UNCHANGED <<pc, carry>>
      BY <1>1, <2>1 DEF ReceiveSignal, runVars
    <3>2. Len(buffered'[b]) = IF b = BucketOf[s] THEN Len(buffered[b]) + 1 ELSE Len(buffered[b])
      <4>1. buffered'[b] = IF b = BucketOf[s] THEN Append(buffered[b], s) ELSE buffered[b]
        BY <1>0, <3>1, PushAt
      <4>2. Len(Append(buffered[b], s)) = Len(buffered[b]) + 1
        BY <1>0, AppendProperties
      <4> QED BY <4>1, <4>2
    <3> QED BY <1>0, <2>1, <3>1, <3>2, LenProperties
  <2>2. CASE pc # "start"
    <3>1. /\ observed' = [observed EXCEPT ![BucketOf[s]] = @ + 1]
          /\ received' = Push(received, s) /\ UNCHANGED pc
      BY <1>1, <2>2 DEF ReceiveSignal, runVars
    <3> QED BY <1>0, <2>2, <3>1 DEF Counts
  <2> QED BY <2>1, <2>2
<1>2. CASE StartRun
  <2>1. /\ pc = "start" /\ observed' = Count(carry.observed, buffered)
        /\ received' = received
    BY <1>2 DEF StartRun, historyVars
  <2>2. pc' \in {"retiring", "gate", "decide"}
    BY <1>2, LoopTopType DEF StartRun
  <2> QED BY <2>1, <2>2 DEF Count
<1>3. CASE MidCycleContinueAsNew
  <2>1. /\ pc = "execute" /\ pc' = "start" /\ carry'.observed = observed
        /\ buffered' = buffered /\ received' = received
    BY <1>3 DEF MidCycleContinueAsNew, Perform, ContinueAsNew, EncodeCarryover, CarryoverOf
  <2>2. buffered[b] = <<>>
    BY <2>1, NothingAt DEF ControlInv
  <2> QED BY <1>0, <2>1, <2>2
<1>4. CASE CommitCycle
  <2>1. pc = "commit" /\ received' = received
    BY <1>4 DEF CommitCycle
  <2>2. buffered[b] = <<>>
    BY <2>1, NothingAt DEF ControlInv
  <2>3. CASE canSuggested
    <3>1. pc' = "start" /\ carry'.observed = observed /\ buffered' = buffered
      BY <1>4, <2>3 DEF CommitCycle, ContinueAsNew, EncodeCarryover, CarryoverOf
    <3> QED BY <1>0, <2>1, <2>2, <3>1
  <2>4. CASE ~canSuggested
    <3>1. pc' \in {"retiring", "gate", "decide"} /\ observed' = observed
      BY <1>4, <2>4, LoopTopType DEF CommitCycle
    <3> QED BY <2>1, <3>1
  <2> QED BY <2>3, <2>4
<1>5. CASE \/ ReceiveRetire \/ SuggestContinueAsNew \/ NotifyParent
           \/ UNCHANGED vars
  BY <1>5
  DEF ReceiveRetire, SuggestContinueAsNew, NotifyParent, vars, wfVars, runVars,
      temporalVars, historyVars
<1>6. CASE \/ Wake \/ SeedBuilt \/ LogDecision \/ PersistRetirement \/ ActivityFails
           \/ ExecuteAndContinue \/ ExecuteAndBlowFuse \/ ForceIdle
           \/ \E a \in {"idle", "act"} : Decide(a)
           \/ \E a \in {"invalid", "fatal"} : DecideFails(a)
  <2>1. pc # "start" /\ received' = received /\ observed' = observed
    BY <1>6
    DEF Wake, SeedBuilt, LogDecision, PersistRetirement, ActivityFails, Perform,
        ExecuteAndContinue, ExecuteAndBlowFuse, ForceIdle, Decide, DecideFails,
        wfVars, historyVars
  <2>2. pc' # "start"
    BY <1>6
    DEF Wake, SeedBuilt, LogDecision, PersistRetirement, ActivityFails, Perform,
        ExecuteAndContinue, ExecuteAndBlowFuse, ForceIdle, Decide, DecideFails
  <2> QED BY <2>1, <2>2
<1> QED BY <1>1, <1>2, <1>3, <1>4, <1>5, <1>6 DEF Next, RunStep

\* The counters of a snapshot count every signal ever accepted, whatever
\* continue-as-new happened in between, closing states included.
THEOREM CountersExact == Spec => []CountersCoverReceipts
<1>1. CountersCoverReceipts <=>
          (~HandlersFirst => \A b \in Bucket : Len(received[b]) = Seen(b))
  BY DEF CountersCoverReceipts, Seen
<1>2. Init => CountersCoverReceipts
  <2> SUFFICES ASSUME Init, NEW b \in Bucket PROVE Len(received[b]) = Seen(b)
    BY <1>1
  <2>1. received[b] = <<>> /\ Between /\ carry.observed[b] = 0 /\ buffered[b] = <<>>
    BY NothingAt DEF Init, Between, NoCarryover
  <2> QED BY <2>1 DEF Seen
<1>3. TypeInv /\ CountersCoverReceipts /\ [Next]_vars => CountersCoverReceipts'
  <2> SUFFICES ASSUME TypeInv, CountersCoverReceipts, [Next]_vars,
                      ~HandlersFirst, NEW b \in Bucket
               PROVE  Len(received'[b]) = Seen(b)'
    BY DEF CountersCoverReceipts, Seen
  <2>1. Len(received[b]) = Seen(b)
    BY DEF CountersCoverReceipts, Seen
  <2>2. received \in Queues /\ received[b] \in Seq(Signal)
    BY QueueAt DEF TypeInv, TypeOK
  <2>3. ASSUME NEW s \in Signal, received' = Push(received, s),
               Seen(b)' = IF b = BucketOf[s] THEN Seen(b) + 1 ELSE Seen(b)
        PROVE  Len(received'[b]) = Seen(b)'
    <3>1. received'[b] = IF b = BucketOf[s] THEN Append(received[b], s) ELSE received[b]
      BY <2>2, <2>3, PushAt
    <3>2. Len(Append(received[b], s)) = Len(received[b]) + 1
      BY <2>2, AppendProperties
    <3> QED BY <2>1, <2>3, <3>1, <3>2
  <2> QED BY <2>1, <2>3, CounterStep
<1> QED BY <1>2, <1>3, TypeInvariance, PTL DEF Spec

-----------------------------------------------------------------------------
(* Refinement of the hand-off promise.                                     *)

\* Every step of the workflow is a step of the promise, or invisible to it.
LEMMA HandOffRefinementStep ==
    ASSUME TypeInv, ExactlyOnceHandOff, [Next]_vars, ~HandlersFirst
    PROVE  [HandOff!Next]_(HandOff!vars)
<1> DEFINE taken == [b \in Bucket |-> Taken(b)]
<1> USE DEF Phase, Open, Closing, Closed, Between
<1>1. ASSUME \A b \in Bucket : Taken(b)' = Taken(b)
      PROVE  taken' = taken
  BY <1>1
<1>2. ASSUME NEW s \in Signal, ReceiveSignal(s) PROVE HandOff!Next
  <2>1. \A b \in Bucket : Taken(b)' = Taken(b)
    BY <1>2 DEF ReceiveSignal, runVars, Taken, InHand
  <2>2. received' = Push(received, s) /\ UNCHANGED <<pc, carry, tick>>
    BY <1>2 DEF ReceiveSignal, runVars
  <2>3. CycleCount' = CycleCount /\ Phase' = Phase
    BY <2>2 DEF CycleCount
  <2>4. HandOff!Receive(s)
    BY <1>1, <2>1, <2>2, <2>3 DEF HandOff!Receive, Push
  <2> QED BY <2>4 DEF HandOff!Next
<1>3. CASE Wake /\ pc' = "seed"
  <2>1. \A b \in Bucket : received[b] = Taken(b) \o Queued(b)
    BY <1>3 DEF Wake, ExactlyOnceHandOff, Taken
  <2>2. ASSUME NEW b \in Bucket PROVE Taken(b)' = received[b]
    <3>1. pc = "gate" /\ ~(\E s \in Signal : ReceiveSignal(s))
      BY <1>3 DEF Wake, ReceiveSignal, runVars
    <3>2. Queued(b)' = <<>>
      BY <1>3, NothingAt DEF Wake, Queued
    <3>3. CASE BucketDrained(b)
      BY <2>1, <3>3 DEF BucketDrained
    <3>4. CASE BucketKept(b)
      <4>1. Taken(b)' = Taken(b) /\ Queued(b) = <<>>
        BY <1>3, <3>2, <3>4 DEF BucketKept
      <4>2. Taken(b) \in Seq(Signal)
        <5>1. consumed \in Queues /\ session.seed \in Queues
          BY DEF TypeInv, TypeOK, Sessions
        <5> QED BY <3>1, <5>1, QueueAt, Catenation DEF Taken, InHand
      <4> QED BY <2>1, <4>1, <4>2, Catenation
    <3> QED BY <3>1, <3>3, <3>4, HandOffStep
  <2>3. taken' = received /\ received' = received /\ Phase = "waiting" /\ Phase' = "cycle"
    <3>1. taken' = [b \in Bucket |-> received[b]]
      BY <2>2
    <3>2. received = [b \in Bucket |-> received[b]]
      BY DEF TypeInv, TypeOK, Queues
    <3> QED BY <1>3, <3>1, <3>2 DEF Wake, historyVars
  <2>4. CycleCount' = CycleCount
    BY <1>3, CycleCountStep DEF Wake
  <2>5. HandOff!Begin
    BY <2>3, <2>4 DEF HandOff!Begin
  <2> QED BY <2>5 DEF HandOff!Next
<1>4. ASSUME ~(\E s \in Signal : ReceiveSignal(s)), ~(Wake /\ pc' = "seed")
      PROVE  received' = received /\ taken' = taken
  <2>1. ~(pc = "gate" /\ pc' = "seed")
    BY <1>4
    DEF Next, RunStep, ReceiveRetire, SuggestContinueAsNew, StartRun, SeedBuilt, Decide,
        LogDecision, Perform, ExecuteAndContinue, ExecuteAndBlowFuse, ForceIdle,
        MidCycleContinueAsNew, CommitCycle, PersistRetirement, NotifyParent,
        DecideFails, ActivityFails, runVars, vars
  <2>2. ASSUME NEW b \in Bucket PROVE received' = received /\ Taken(b)' = Taken(b)
    BY <1>4, <2>1, HandOffStep DEF BucketKept, BucketDrained
  <2>3. "trigger" \in Bucket
    BY DEF Bucket
  <2> QED BY <1>1, <2>2, <2>3
<1>5. CASE CommitCycle
  <2>1. pc = "commit" /\ Phase = "cycle"
    BY <1>5 DEF CommitCycle
  <2>2. received' = received /\ taken' = taken
    <3>1. pc' # "commit"
      BY <1>5, LoopTopType DEF CommitCycle, ContinueAsNew
    <3> QED BY <1>4, <2>1, <3>1 DEF ReceiveSignal, runVars, Wake
  <2>3. CycleCount' = CycleCount + 1
    <3>1. commits' # commits
      <4>1. commits' = [commits EXCEPT ![tick] = @ + 1] /\ tick \in Ticks
        BY <1>5, <2>1, CapAssumption DEF CommitCycle, TypeInv, TypeOK, ControlInv, Ticks
      <4>2. commits'[tick] = commits[tick] + 1 /\ commits[tick] \in Nat
        BY <4>1 DEF TypeInv, TypeOK
      <4> QED BY <4>2
    <3> QED BY <3>1, CycleCountStep
  <2>4. Phase' \in {"waiting", "closed"}
    <3>1. CASE canSuggested
      BY <1>5, <3>1 DEF CommitCycle, ContinueAsNew, EncodeCarryover, CarryoverOf
    <3>2. CASE ~canSuggested
      <4>1. pc' \in {"retiring", "gate"}
        BY <1>5, <3>2, LoopTopType DEF CommitCycle
      <4> QED BY <4>1
    <3> QED BY <3>1, <3>2
  <2>5. HandOff!Finish \/ HandOff!FinishAndClose
    BY <2>1, <2>2, <2>3, <2>4 DEF HandOff!Finish, HandOff!FinishAndClose
  <2> QED BY <2>5 DEF HandOff!Next
<1>6. ASSUME ~(\E s \in Signal : ReceiveSignal(s)), ~(Wake /\ pc' = "seed"), ~CommitCycle
      PROVE  [HandOff!Next]_(HandOff!vars)
  <2>1. received' = received /\ taken' = taken
    BY <1>4, <1>6
  <2>2. CycleCount' = CycleCount
    BY <1>6, CycleCountStep
  <2>3. Phase' = Phase \/ (Phase # "closed" /\ Phase' = "closed")
    <3>1. CASE ReceiveRetire \/ SuggestContinueAsNew \/ NotifyParent \/ UNCHANGED vars
      BY <3>1
      DEF ReceiveRetire, SuggestContinueAsNew, NotifyParent, vars, wfVars, runVars,
          temporalVars, historyVars
    <3>2. CASE StartRun
      <4> DEFINE asked == IF HandlersFirst /\ ~carry.some THEN bufferedRetire
                          ELSE carry.retirement
      <4>1. pc = "start" /\ pc' = LoopTop(carry.tick, carry.inFlight, asked)
        BY <3>2 DEF StartRun
      <4> HIDE DEF asked
      <4>2. /\ pc' \in {"retiring", "gate", "decide"}
            /\ pc' = "gate" => carry.inFlight = NoSession
            /\ pc' = "decide" => carry.inFlight # NoSession
        BY <4>1, LoopTopType
      <4> QED BY <4>1, <4>2
    <3>3. CASE MidCycleContinueAsNew
      <4>1. pc = "execute" /\ pc' = "start" /\ carry'.inFlight = Pushed
        BY <3>3 DEF MidCycleContinueAsNew, Perform, ContinueAsNew, EncodeCarryover, CarryoverOf
      <4>2. Pushed.len # 0
        BY <4>1 DEF Pushed, TypeInv, TypeOK, Sessions
      <4>3. carry'.inFlight # NoSession
        BY <4>1, <4>2, NoTypes
      <4> QED BY <4>1, <4>3
    <3>4. CASE Wake
      BY <1>6, <3>4 DEF Wake
    <3>5. CASE LogDecision
      <4>1. pc = "log" /\ pc' \in {"commit", "execute"}
        BY <3>5 DEF LogDecision
      <4> QED BY <4>1
    <3>6. CASE PersistRetirement
      <4>1. pc = "retiring" /\ pc' \in {"notify", "done"}
        BY <3>6 DEF PersistRetirement
      <4> QED BY <4>1
    <3>7. CASE SeedBuilt \/ (\E a \in {"idle", "act"} : Decide(a))
      BY <3>7 DEF SeedBuilt, Decide
    <3>8. CASE ExecuteAndContinue \/ ExecuteAndBlowFuse \/ ForceIdle
      BY <3>8 DEF ExecuteAndContinue, ExecuteAndBlowFuse, ForceIdle, Perform
    <3>9. CASE ActivityFails \/ (\E a \in {"invalid", "fatal"} : DecideFails(a))
      BY <3>9 DEF ActivityFails, DecideFails
    <3> QED BY <1>6, <3>1, <3>2, <3>3, <3>4, <3>5, <3>6, <3>7, <3>8, <3>9 DEF Next, RunStep
  <2>4. CASE Phase' = Phase
    BY <2>1, <2>2, <2>4 DEF HandOff!vars
  <2>5. CASE Phase # "closed" /\ Phase' = "closed"
    BY <2>1, <2>2, <2>5 DEF HandOff!Close, HandOff!Next
  <2> QED BY <2>3, <2>4, <2>5
<1> QED BY <1>2, <1>3, <1>5, <1>6

\* Seen through its runs, the workflow implements the promise in which there are
\* no runs, no carryover and no continue-as-new.
THEOREM HandOffRefinement ==
    ASSUME ~HandlersFirst
    PROVE  Spec => HandOffSafety
<1>1. Init => HandOff!Init
  <2> SUFFICES ASSUME Init PROVE HandOff!Init
    OBVIOUS
  <2>1. received = [b \in Bucket |-> <<>>]
    BY DEF Init, Nothing
  <2>2. ASSUME NEW b \in Bucket PROVE Taken(b) = <<>>
    <3>1. consumed[b] = <<>> /\ InHand(b) = <<>>
      BY NothingAt DEF Init, InHand, Between, NoCarryover, NoSession
    <3>2. <<>> \in Seq(Signal)
      OBVIOUS
    <3> QED BY <3>1, <3>2, Catenation DEF Taken
  <2>3. CycleCount = 0 /\ Phase = "waiting"
    BY NoTypes DEF Init, CycleCount, Between, Phase, Open, Closing, Closed
  <2> QED BY <2>1, <2>2, <2>3 DEF HandOff!Init
<1>2. TypeInv /\ ExactlyOnceHandOff /\ [Next]_vars => [HandOff!Next]_(HandOff!vars)
  BY HandOffRefinementStep
<1> QED
  BY <1>1, <1>2, TypeInvariance, HandOffExact, PTL DEF Spec, HandOffSafety, HandOff!Spec
=============================================================================
