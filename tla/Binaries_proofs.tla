-------------------------- MODULE Binaries_proofs --------------------------
(***************************************************************************)
(* Machine-checked proofs about the programs a person starts: the retry    *)
(* budget, the health record and the order of triggers of the in-process   *)
(* agent, the directories of node-run-llm, the command lines of the        *)
(* one-shot programs, the boot and the exit code of the daemons, and what  *)
(* coral-apply leaves behind, for all budgets, caps, batches, triggers,    *)
(* incidents, crashes, invocations, command lines, documents and           *)
(* environments.                                                           *)
(***************************************************************************)
EXTENDS InProcessAgent, NodeHost, WorkerHost, CoralApply,
        FiniteSetTheorems, SequenceTheorems, WellFoundedInduction, TLAPS

-----------------------------------------------------------------------------
(* The retry budget.                                                       *)

\* While a cycle is open its slots are its failures, and none is past its budget;
\* once it has closed, only its verdict can tell.
BudgetInv ==
    /\ used \in [Kind -> Nat] /\ failed \in [Kind -> Nat]
    /\ pc \in {"decide", "recovering"} => \A k \in Kind : failed[k] <= Budget[k]
    /\ pc = "decide" => used = failed
    /\ pc = "top" => (verdict = "budget" <=> Exceeds)

\* record_failure, called for each failure of a batch, passes the budget exactly if
\* the batch does, and counts it in full if not.
LEMMA SpendCounts ==
    ASSUME NEW k \in Kind, NEW n \in Nat, used \in [Kind -> Nat]
    PROVE  /\ Spend(k, n) \in Nat
           /\ Spend(k, n) > Budget[k] <=> used[k] + n > Budget[k]
           /\ used[k] + n <= Budget[k] => Spend(k, n) = used[k] + n
BY LimitAssumption DEF Spend

\* A step that failed keeps the budget's invariant.
LEMMA FailureKeepsBudget ==
    ASSUME BudgetInv, NEW k \in Kind, NEW n \in Nat, ExecuteFails(k, n)
    PROVE  BudgetInv'
<1>1. /\ pc = "decide" /\ used = failed
      /\ \A j \in Kind : failed[j] <= Budget[j] /\ Budget[j] \in Nat /\ failed[j] \in Nat
  BY LimitAssumption DEF ExecuteFails, BudgetInv
<1>2. /\ used' = [used EXCEPT ![k] = Spend(k, n)]
      /\ failed' = [failed EXCEPT ![k] = @ + n]
  BY DEF ExecuteFails
<1>3. used' \in [Kind -> Nat] /\ failed' \in [Kind -> Nat]
  BY <1>2, SpendCounts DEF BudgetInv
<1>4. used'[k] = Spend(k, n) /\ failed'[k] = used[k] + n
  BY <1>1, <1>2 DEF BudgetInv
<1>5. \A j \in Kind \ {k} : used'[j] = used[j] /\ failed'[j] = failed[j]
  BY <1>2 DEF BudgetInv
<1>6. CASE used'[k] > Budget[k]
  <2>1. pc' = "top" /\ verdict' = "budget"
    BY <1>6 DEF ExecuteFails, Conclude
  <2>2. Exceeds'
    BY <1>4, <1>6, SpendCounts DEF Exceeds, BudgetInv
  <2> QED BY <1>3, <2>1, <2>2 DEF BudgetInv
<1>7. CASE ~(used'[k] > Budget[k])
  <2>1. Stepped
    BY <1>7 DEF ExecuteFails
  <2>2. used[k] + n <= Budget[k] /\ Spend(k, n) = used[k] + n
    BY <1>1, <1>4, <1>7, SpendCounts DEF BudgetInv
  <2>3. \A j \in Kind : used'[j] = failed'[j] /\ failed'[j] <= Budget[j]
    BY <1>1, <1>4, <1>5, <2>2
  <2>4. used' = failed'
    BY <1>3, <2>3
  <2>5. ~Exceeds'
    BY <1>1, <1>3, <2>3 DEF Exceeds
  <2>6. (pc' = "top" /\ verdict' = "fuse") \/ pc' = "decide"
    BY <1>1, <2>1 DEF Stepped, Conclude
  <2> QED BY <1>3, <2>3, <2>4, <2>5, <2>6 DEF BudgetInv
<1> QED BY <1>6, <1>7

\* The budget's invariant is inductive.
LEMMA BudgetInductive == BudgetInv /\ [Next]_vars => BudgetInv'
<1> SUFFICES ASSUME BudgetInv, [Next]_vars PROVE BudgetInv'
  OBVIOUS
<1> USE DEF BudgetInv
<1>1. CASE BeginCycle
  <2>1. used' = NoFailures /\ failed' = NoFailures /\ pc' = "decide"
    BY <1>1 DEF BeginCycle, FreshBudget
  <2> QED BY <2>1, LimitAssumption DEF NoFailures
<1>2. CASE ExecuteOk
  <2>1. ~Exceeds'
    BY <1>2, LimitAssumption DEF ExecuteOk, Exceeds
  <2>2. (pc' = "top" /\ verdict' = "fuse") \/ (pc' = "decide" /\ pc = "decide")
    BY <1>2 DEF ExecuteOk, Stepped, Conclude
  <2> QED BY <1>2, <2>1, <2>2 DEF ExecuteOk
<1>3. CASE DecideFails
  <2>1. ~Exceeds'
    BY <1>3, LimitAssumption DEF DecideFails, Exceeds
  <2> QED BY <1>3, <2>1 DEF DecideFails, Conclude
<1>4. CASE \E n \in 1 .. MaxBatch : ExecuteFails("ToolCall", n)
  <2>1. PICK n \in 1 .. MaxBatch : ExecuteFails("ToolCall", n)
    BY <1>4
  <2>2. n \in Nat /\ "ToolCall" \in Kind
    BY LimitAssumption DEF Kind
  <2> QED BY <2>1, <2>2, FailureKeepsBudget
<1>5. CASE ExecuteFails("Inference", 1)
  BY <1>5, FailureKeepsBudget DEF Kind
<1>6. CASE IdleHealthy \/ WriteHealthy
  <2>1. pc \in {"decide", "recovering"} /\ failed' = failed /\ used' = NoFailures
    BY <1>6 DEF IdleHealthy, WriteHealthy
  <2>2. ~Exceeds'
    BY <2>1, LimitAssumption DEF Exceeds
  <2>3. pc' = "top" /\ verdict' = "idle"
    BY <1>6 DEF IdleHealthy, WriteHealthy, Conclude
  <2> QED BY <2>1, <2>2, <2>3 DEF NoFailures
<1>7. CASE ArchiveCurrent
  BY <1>7 DEF ArchiveCurrent
<1>8. CASE Restart
  <2>1. /\ used' = NoFailures /\ failed' = NoFailures
        /\ pc' = "top" /\ verdict' = "none"
    BY <1>8 DEF Restart
  <2>2. ~Exceeds'
    BY <2>1, LimitAssumption DEF Exceeds, NoFailures
  <2> QED BY <2>1, <2>2 DEF NoFailures
<1>9. CASE RetireAtCap \/ BeginWait \/ WokenByTrigger \/ SelfWakes \/ PushScheduledWake
  <2>1. used' = used /\ failed' = failed
    BY <1>9 DEF RetireAtCap, BeginWait, WokenByTrigger, SelfWakes, PushScheduledWake
  <2>2. pc' \in {"retired", "gate", "drain", "elapsed"}
    BY <1>9 DEF RetireAtCap, BeginWait, WokenByTrigger, SelfWakes, PushScheduledWake
  <2> QED BY <2>1, <2>2
<1>10. CASE (\E t \in Trigger : Send(t)) \/ SecondPasses \/ Crash \/ UNCHANGED vars
  <2>1. used' = used /\ failed' = failed /\ verdict' = verdict
    BY <1>10 DEF Send, SecondPasses, Crash, vars, control
  <2>2. pc' = pc \/ pc' = "down"
    BY <1>10 DEF Send, SecondPasses, Crash, vars, control
  <2> QED BY <2>1, <2>2 DEF Exceeds
<1> QED
  BY <1>1, <1>2, <1>3, <1>4, <1>5, <1>6, <1>7, <1>8, <1>9, <1>10
     DEF Next, AgentStep, BatchFails, NeedsCorrection

\* A cycle ends on its retry budget exactly if its own failures of some kind exceed
\* the allowance of that kind (Agent::run, record_cycle_failure), for every budget,
\* fuse and size of batch.
THEOREM BudgetExact == Spec => []BudgetIsOfTheCycle
<1>1. Init => BudgetInv
  BY LimitAssumption DEF Init, BudgetInv, NoFailures, Exceeds
<1>2. BudgetInv => BudgetIsOfTheCycle
  BY LimitAssumption DEF BudgetInv, BudgetIsOfTheCycle, Exceeds
<1> QED BY <1>1, <1>2, BudgetInductive, PTL DEF Spec

-----------------------------------------------------------------------------
(* The health record and its archive.                                      *)

Outstanding == LastIncident # 0 /\ LastIncident \notin recovered

\* The live file holds the last incident until it is recovered from, and the process
\* agrees with it; between the two writes of a recovery the archive has the incident.
HealthInv ==
    /\ stamps \in Seq(Second) /\ clock \in Second
    /\ recovered \subseteq 1 .. Len(stamps)
    /\ archive \in [Second -> Nat]
    /\ live = IF Outstanding THEN LastIncident ELSE Healthy
    /\ pc # "down" => health = live
    /\ pc = "recovering" => live # Healthy /\ archive[stamps[live]] = live

ArchiveInv == HealthInv /\ RecoveredAreArchived

\* The incident that is live is the last one, and has a second.
LEMMA LiveIncident ==
    ASSUME HealthInv, live # Healthy
    PROVE  /\ live = Len(stamps) /\ live \in DOMAIN stamps
           /\ stamps[live] \in Second /\ live \notin recovered
BY DEF HealthInv, Outstanding, LastIncident, Healthy

\* A step that touches no part of the record keeps the invariant, if it stays out
\* of a recovery and starts no process.
LEMMA RecordUntouched ==
    ASSUME ArchiveInv, UNCHANGED record, clock' \in Second,
           pc' = "down" \/ (pc # "down" /\ (pc' = "recovering" => pc = "recovering"))
                \/ pc' = pc
    PROVE  ArchiveInv'
BY DEF ArchiveInv, HealthInv, RecoveredAreArchived, Outstanding, LastIncident, record

\* transition_to_unhealthy keeps the invariant: the new incident is the last one,
\* and the archive is left alone.
LEMMA UnhealthyKeepsArchive ==
    ASSUME ArchiveInv, BecomeUnhealthy, pc' # "recovering", clock' = clock
    PROVE  ArchiveInv'
<1> DEFINE i == Len(stamps) + 1
<1>1. /\ stamps' = Append(stamps, clock) /\ health' = i /\ live' = i
      /\ archive' = archive /\ recovered' = recovered
      /\ stamps \in Seq(Second) /\ clock \in Second /\ recovered \subseteq 1 .. Len(stamps)
  BY DEF BecomeUnhealthy, ArchiveInv, HealthInv
<1>2. /\ stamps' \in Seq(Second) /\ Len(stamps') = i
      /\ \A j \in 1 .. Len(stamps) : stamps'[j] = stamps[j]
  BY <1>1, AppendProperties
<1>3. Len(stamps) \in Nat /\ i \notin recovered /\ i # 0
  BY <1>1, LenProperties
<1>4. HealthInv'
  BY <1>1, <1>2, <1>3 DEF ArchiveInv, HealthInv, Outstanding, LastIncident, Healthy
<1>5. RecoveredAreArchived'
  <2> SUFFICES ASSUME NEW j \in recovered
               PROVE  \/ archive[stamps'[j]] = j
                      \/ \E l \in DOMAIN stamps' : l > j /\ stamps'[l] = stamps'[j]
    BY <1>1 DEF RecoveredAreArchived
  <2>1. j \in 1 .. Len(stamps) /\ stamps'[j] = stamps[j]
    BY <1>1, <1>2
  <2>2. \/ archive[stamps[j]] = j
        \/ \E l \in DOMAIN stamps : l > j /\ stamps[l] = stamps[j]
    BY DEF ArchiveInv, RecoveredAreArchived
  <2>3. DOMAIN stamps = 1 .. Len(stamps) /\ DOMAIN stamps' = 1 .. i
    BY <1>1, <1>2
  <2>4. DOMAIN stamps \subseteq DOMAIN stamps'
    BY <1>3, <2>3
  <2> QED BY <1>2, <2>1, <2>2, <2>3, <2>4
<1> QED BY <1>4, <1>5 DEF ArchiveInv

\* archive_current keeps the invariant: it may only replace an incident that an
\* earlier recovery archived under the same second.
LEMMA ArchivingKeepsArchive ==
    ASSUME ArchiveInv, ArchiveCurrent
    PROVE  ArchiveInv'
<1>0. health = live
  BY DEF ArchiveCurrent, ArchiveInv, HealthInv
<1>1. /\ live # Healthy /\ health = live /\ pc' = "recovering"
      /\ archive' = [archive EXCEPT ![stamps[live]] = live]
      /\ UNCHANGED <<health, live, stamps, recovered, clock>>
  BY <1>0 DEF ArchiveCurrent, world
<1>2. /\ live = Len(stamps) /\ live \in DOMAIN stamps /\ live \in Nat
      /\ stamps[live] \in Second /\ live \notin recovered
  BY <1>1, LiveIncident, LenProperties DEF ArchiveInv, HealthInv
<1>3. archive' \in [Second -> Nat] /\ archive'[stamps[live]] = live
  BY <1>1, <1>2 DEF ArchiveInv, HealthInv
<1>4. HealthInv'
  BY <1>1, <1>3 DEF ArchiveInv, HealthInv, Outstanding, LastIncident
<1>5. RecoveredAreArchived'
  <2> SUFFICES ASSUME NEW j \in recovered
               PROVE  \/ archive'[stamps[j]] = j
                      \/ \E l \in DOMAIN stamps : l > j /\ stamps[l] = stamps[j]
    BY <1>1 DEF RecoveredAreArchived
  <2>1. j \in 1 .. Len(stamps) /\ stamps[j] \in Second
    BY DEF ArchiveInv, HealthInv
  <2>2. CASE stamps[j] = stamps[live]
    BY <1>2, <2>1, <2>2
  <2>3. CASE stamps[j] # stamps[live]
    <3>1. archive'[stamps[j]] = archive[stamps[j]]
      BY <1>1, <2>1, <2>3 DEF ArchiveInv, HealthInv
    <3> QED BY <3>1 DEF ArchiveInv, RecoveredAreArchived
  <2> QED BY <2>2, <2>3
<1> QED BY <1>4, <1>5 DEF ArchiveInv

\* write_healthy keeps the invariant: what it ends is in the archive already.
LEMMA RecoveryKeepsArchive ==
    ASSUME ArchiveInv, WriteHealthy
    PROVE  ArchiveInv'
<1>1. /\ pc = "recovering" /\ live # Healthy /\ health = live
      /\ archive[stamps[live]] = live
  BY DEF WriteHealthy, ArchiveInv, HealthInv
<1>2. /\ live' = Healthy /\ health' = Healthy /\ recovered' = recovered \cup {live}
      /\ pc' = "top" /\ UNCHANGED <<archive, stamps, clock>>
  BY <1>1 DEF WriteHealthy, Conclude, world
<1>3. live = Len(stamps) /\ live \in 1 .. Len(stamps)
  BY <1>1, LiveIncident DEF ArchiveInv, HealthInv
<1>4. HealthInv'
  BY <1>2, <1>3 DEF ArchiveInv, HealthInv, Outstanding, LastIncident
<1>5. RecoveredAreArchived'
  BY <1>1, <1>2 DEF ArchiveInv, RecoveredAreArchived
<1> QED BY <1>4, <1>5 DEF ArchiveInv

\* The record's invariant is inductive.
LEMMA ArchiveInductive == ArchiveInv /\ [Next]_vars => ArchiveInv'
<1> SUFFICES ASSUME ArchiveInv, [Next]_vars PROVE ArchiveInv'
  OBVIOUS
<1>0. clock \in Second
  BY DEF ArchiveInv, HealthInv
<1>1. CASE DecideFails
  <2>1. BecomeUnhealthy /\ pc' = "top" /\ clock' = clock
    BY <1>1 DEF DecideFails, Conclude, world
  <2> QED BY <2>1, UnhealthyKeepsArchive
<1>2. ASSUME NEW k, NEW n, ExecuteFails(k, n) PROVE ArchiveInv'
  <2>1. pc = "decide" /\ clock' = clock
    BY <1>2 DEF ExecuteFails, world
  <2>2. CASE BecomeUnhealthy /\ Conclude("budget")
    BY <2>1, <2>2, UnhealthyKeepsArchive DEF Conclude
  <2>3. CASE Stepped /\ UNCHANGED record
    <3>1. pc' \in {"top", "decide"}
      BY <2>1, <2>3 DEF Stepped, Conclude
    <3> QED BY <1>0, <2>1, <2>3, <3>1, RecordUntouched
  <2> QED BY <1>2, <2>2, <2>3 DEF ExecuteFails
<1>3. CASE ArchiveCurrent
  BY <1>3, ArchivingKeepsArchive
<1>4. CASE WriteHealthy
  BY <1>4, RecoveryKeepsArchive
<1>5. CASE Restart
  <2>1. /\ health' = live /\ pc' = "top"
        /\ UNCHANGED <<live, archive, stamps, recovered, clock>>
    BY <1>5 DEF Restart, OpenHealth, world
  <2> QED
    BY <2>1 DEF ArchiveInv, HealthInv, RecoveredAreArchived, Outstanding, LastIncident
<1>6. CASE ExecuteOk \/ IdleHealthy
  <2>1. UNCHANGED record /\ clock' = clock /\ pc = "decide" /\ pc' \in {"top", "decide"}
    BY <1>6 DEF ExecuteOk, IdleHealthy, Stepped, Conclude, world
  <2> QED BY <1>0, <2>1, RecordUntouched
<1>7. CASE \/ RetireAtCap \/ BeginWait \/ WokenByTrigger \/ SelfWakes \/ PushScheduledWake
           \/ BeginCycle
  <2>1. UNCHANGED record /\ clock' = clock /\ pc # "down" /\ pc' # "recovering"
    BY <1>7 DEF RetireAtCap, BeginWait, WokenByTrigger, SelfWakes, PushScheduledWake,
                BeginCycle, world
  <2> QED BY <1>0, <2>1, RecordUntouched
<1>8. CASE (\E t \in Trigger : Send(t)) \/ UNCHANGED vars
  <2>1. UNCHANGED record /\ clock' = clock /\ pc' = pc
    BY <1>8 DEF Send, vars, control, world
  <2> QED BY <1>0, <2>1, RecordUntouched
<1>9. CASE SecondPasses
  <2>1. UNCHANGED record /\ pc' = pc /\ clock' \in Second
    BY <1>0, <1>9, BoundAssumption DEF SecondPasses, control, Second
  <2> QED BY <2>1, RecordUntouched
<1>10. CASE Crash
  <2>1. UNCHANGED record /\ pc' = "down" /\ clock' = clock
    BY <1>10 DEF Crash
  <2> QED BY <1>0, <2>1, RecordUntouched
<1> QED
  BY <1>1, <1>2, <1>3, <1>4, <1>5, <1>6, <1>7, <1>8, <1>9, <1>10
     DEF Next, AgentStep, BatchFails, NeedsCorrection

\* A new agent is healthy, on disk as in memory.
LEMMA ArchiveInvInit == Init => ArchiveInv
<1> SUFFICES ASSUME Init PROVE ArchiveInv
  OBVIOUS
<1>1. stamps = <<>> /\ stamps \in Seq(Second) /\ Len(stamps) = 0 /\ recovered = {}
  BY EmptySeq DEF Init
<1>2. clock \in Second
  BY BoundAssumption DEF Init, Second
<1> QED
  BY <1>1, <1>2 DEF Init, ArchiveInv, HealthInv, RecoveredAreArchived, Outstanding,
                    LastIncident, Healthy

\* An agent that became Unhealthy is so, in memory and on disk, until an Idle ends
\* that incident, whatever crashes and restarts intervene (HealthTracker).
THEOREM HealthRestartSafe == Spec => []HealthOutlivesProcess
<1>1. ArchiveInv => HealthOutlivesProcess
  BY DEF ArchiveInv, HealthInv, Outstanding, HealthOutlivesProcess, Alive
<1> QED BY <1>1, ArchiveInvInit, ArchiveInductive, PTL DEF Spec

\* An incident that was recovered from stays in the archive, but for one of the same
\* second that replaced it (archive_current), for any number of incidents.
THEOREM ArchiveComplete == Spec => []RecoveredAreArchived
<1>1. ArchiveInv => RecoveredAreArchived
  BY DEF ArchiveInv
<1> QED BY <1>1, ArchiveInvInit, ArchiveInductive, PTL DEF Spec

\* health.json never turns Healthy before its incident is in the archive
\* (mark_tick_success), wherever a crash falls.
THEOREM ArchiveFirst == Spec => ArchivedBeforeHealthy
<1>1. ArchiveInv /\ [Next]_vars =>
          [live # Healthy /\ live' = Healthy => archive'[stamps[live]] = live]_vars
  <2> SUFFICES ASSUME ArchiveInv, Next, live # Healthy, live' = Healthy
               PROVE  archive'[stamps[live]] = live
    BY DEF ArchiveInv
  <2>1. Len(stamps) \in Nat
    BY LenProperties DEF ArchiveInv, HealthInv
  <2>2. ~BecomeUnhealthy
    BY <2>1 DEF BecomeUnhealthy, Healthy
  <2>3. ~UNCHANGED record
    BY DEF record
  <2>4. WriteHealthy
    BY <2>2, <2>3 DEF Next, AgentStep, RetireAtCap, BeginWait, WokenByTrigger, SelfWakes,
          PushScheduledWake, BeginCycle, ExecuteOk, DecideFails, BatchFails, NeedsCorrection,
          ExecuteFails, IdleHealthy, ArchiveCurrent, Send, SecondPasses, Crash, Restart
  <2> QED BY <2>4 DEF WriteHealthy, ArchiveInv, HealthInv
<1> QED BY <1>1, ArchiveInvInit, ArchiveInductive, PTL DEF Spec, ArchivedBeforeHealthy

-----------------------------------------------------------------------------
(* The order of triggers.                                                  *)

\* What may be in the queue.
Item == Trigger \cup {ScheduledWake}

\* Each trigger has a place in the order of classes.
LEMMA PriorityIs == \A t \in Item : Priority(t) \in Nat
BY TriggerAssumption DEF Item, Priority, ClassPriority, Class

\* The places of a sort are those of a sequence, each taken once, and whatever goes
\* first has a lower one.
LEMMA PlacesAre ==
    ASSUME NEW s \in Seq(Item)
    PROVE  /\ \A k \in DOMAIN s : PlaceOf(s, k) \in 1 .. Len(s)
           /\ \A j \in DOMAIN s, k \in DOMAIN s : GoesFirst(s, j, k) => PlaceOf(s, j) < PlaceOf(s, k)
           /\ \A i \in 1 .. Len(s) : \E k \in DOMAIN s : PlaceOf(s, k) = i
<1> DEFINE D == 1 .. Len(s)
           Ahead(k) == {j \in D : GoesFirst(s, j, k)}
           place == [k \in D |-> PlaceOf(s, k)]
<1>1. DOMAIN s = D /\ Len(s) \in Nat /\ \A k \in D : Priority(s[k]) \in Nat
  BY LenProperties, PriorityIs
<1>2. IsFiniteSet(D) /\ Cardinality(D) = Len(s)
  BY <1>1, FS_Interval
<1>3. \A k \in D : ~GoesFirst(s, k, k)
  BY <1>1 DEF GoesFirst
<1>4. \A j, k, l \in D : GoesFirst(s, j, k) /\ GoesFirst(s, k, l) => GoesFirst(s, j, l)
  BY <1>1 DEF GoesFirst
<1>5. \A j, k \in D : j # k => GoesFirst(s, j, k) \/ GoesFirst(s, k, j)
  BY <1>1 DEF GoesFirst
<1>6. \A k \in D : PlaceOf(s, k) = 1 + Cardinality(Ahead(k))
  BY <1>1 DEF PlaceOf
<1>7. \A k \in D : IsFiniteSet(Ahead(k)) /\ Cardinality(Ahead(k)) \in Nat
  BY <1>2, FS_Subset, FS_CardinalityType
<1>8. ASSUME NEW k \in D PROVE PlaceOf(s, k) \in D
  <2>1. /\ IsFiniteSet(D \ {k}) /\ Cardinality(D \ {k}) = Cardinality(D) - 1
    BY <1>2, FS_RemoveElement
  <2>2. Ahead(k) \in SUBSET (D \ {k})
    BY <1>3
  <2>3. Cardinality(Ahead(k)) <= Cardinality(D \ {k})
    <3> HIDE DEF Ahead, D
    <3> QED BY <2>1, <2>2, FS_Subset
  <2>4. Cardinality(Ahead(k)) <= Len(s) - 1
    BY <1>2, <2>1, <2>3
  <2> HIDE DEF Ahead
  <2>5. PlaceOf(s, k) = 1 + Cardinality(Ahead(k)) /\ Cardinality(Ahead(k)) \in Nat
    BY <1>6, <1>7
  <2> QED BY <1>1, <2>4, <2>5
<1>9. ASSUME NEW j \in D, NEW k \in D, GoesFirst(s, j, k)
      PROVE  PlaceOf(s, j) < PlaceOf(s, k)
  <2>1. Ahead(j) \in SUBSET Ahead(k) /\ Ahead(j) # Ahead(k)
    BY <1>3, <1>4, <1>9
  <2>2. Cardinality(Ahead(j)) < Cardinality(Ahead(k))
    <3> HIDE DEF Ahead
    <3> QED BY <1>7, <2>1, FS_Subset
  <2> HIDE DEF Ahead
  <2> QED BY <1>6, <1>7, <2>2
<1>10. ASSUME NEW j \in D, NEW k \in D, PlaceOf(s, j) = PlaceOf(s, k) PROVE j = k
  <2>1. PlaceOf(s, j) \in Nat /\ PlaceOf(s, k) \in Nat
    <3>1. D \subseteq Nat
      BY <1>1
    <3> HIDE DEF D
    <3> QED BY <1>8, <3>1
  <2>2. ~(PlaceOf(s, j) < PlaceOf(s, k)) /\ ~(PlaceOf(s, k) < PlaceOf(s, j))
    BY <1>10, <2>1
  <2> QED BY <1>5, <1>9, <2>2
<1>11. place \in Injection(D, D)
  <2>1. place \in [D -> D]
    BY <1>8
  <2>2. \A j, k \in D : place[j] = place[k] => j = k
    BY <1>10
  <2> HIDE DEF place, D
  <2> QED BY <2>1, <2>2 DEF Injection, IsInjective
<1>12. place \in Surjection(D, D)
  <2> HIDE DEF place, D
  <2> QED BY <1>2, <1>11, FS_Injection
<1>13. \A i \in D : \E k \in D : PlaceOf(s, k) = i
  BY <1>12 DEF Surjection
<1> QED BY <1>1, <1>8, <1>9, <1>13

\* A sorted sequence has the triggers it had, and each pair as it goes first.
LEMMA SortIs ==
    ASSUME NEW s \in Seq(Item), NEW d, d = SortByClass(s)
    PROVE  /\ d \in Seq(Item) /\ Len(d) = Len(s)
           /\ \A k \in DOMAIN s : \E i \in DOMAIN d : d[i] = s[k]
           /\ \A i \in DOMAIN d : \E k \in DOMAIN s : d[i] = s[k]
           /\ \A i \in DOMAIN d, j \in DOMAIN d : i < j =>
                 \E k \in DOMAIN s, l \in DOMAIN s :
                    d[i] = s[k] /\ d[j] = s[l] /\ GoesFirst(s, k, l)
<1> DEFINE D == 1 .. Len(s)
           from(i) == CHOOSE k \in D : PlaceOf(s, k) = i
<1>1. DOMAIN s = D /\ Len(s) \in Nat /\ \A k \in D : s[k] \in Item /\ Priority(s[k]) \in Nat
  BY LenProperties, PriorityIs
<1>2. /\ \A k \in D : PlaceOf(s, k) \in D
      /\ \A j, k \in D : GoesFirst(s, j, k) => PlaceOf(s, j) < PlaceOf(s, k)
      /\ \A i \in D : \E k \in D : PlaceOf(s, k) = i
  BY <1>1, PlacesAre
<1>3. \A i \in D : from(i) \in D /\ PlaceOf(s, from(i)) = i
  BY <1>2
<1>4. d = [i \in D |-> s[from(i)]]
  BY <1>1 DEF SortByClass
<1> HIDE DEF from
<1>5. \A j, k \in D : PlaceOf(s, j) = PlaceOf(s, k) => j = k
  <2>1. \A j, k \in D : j # k => GoesFirst(s, j, k) \/ GoesFirst(s, k, j)
    BY <1>1 DEF GoesFirst
  <2>2. \A j, k \in D : PlaceOf(s, j) = PlaceOf(s, k) =>
            ~(PlaceOf(s, j) < PlaceOf(s, k)) /\ ~(PlaceOf(s, k) < PlaceOf(s, j))
    BY <1>1, <1>2
  <2> QED BY <1>2, <2>1, <2>2
<1>6. DOMAIN d = D /\ \A i \in D : d[i] = s[from(i)] /\ d[i] \in Item
  BY <1>1, <1>3, <1>4
<1>7. d \in Seq(Item) /\ Len(d) = Len(s)
  <2>1. d \in [1 .. Len(s) -> Item]
    BY <1>4, <1>6
  <2> QED BY <1>1, <2>1, SeqDef
<1>8. ASSUME NEW k \in D PROVE d[PlaceOf(s, k)] = s[k]
  <2>1. PICK i \in D : i = PlaceOf(s, k)
    BY <1>2
  <2>2. from(i) \in D /\ PlaceOf(s, from(i)) = i
    BY <1>3
  <2>3. from(i) = k
    BY <1>5, <2>1, <2>2
  <2>4. d[i] = s[from(i)]
    BY <1>6
  <2> QED BY <2>1, <2>3, <2>4
<1>9. ASSUME NEW i \in D, NEW j \in D, i < j
      PROVE  GoesFirst(s, from(i), from(j))
  <2>1. from(i) \in D /\ from(j) \in D /\ PlaceOf(s, from(i)) = i /\ PlaceOf(s, from(j)) = j
    BY <1>3
  <2>2. from(i) # from(j) /\ ~(PlaceOf(s, from(j)) < PlaceOf(s, from(i)))
    BY <1>1, <1>9, <2>1
  <2>3. GoesFirst(s, from(i), from(j)) \/ GoesFirst(s, from(j), from(i))
    BY <1>1, <2>1, <2>2 DEF GoesFirst
  <2> QED BY <1>2, <2>1, <2>2, <2>3
<1> QED BY <1>1, <1>2, <1>3, <1>6, <1>7, <1>8, <1>9

\* What was sent, waits and was handed out, as three sequences: what waits is in the
\* order it was sent in, and may follow all that was handed out.
Precedent(s, t, u) == \E p, q \in DOMAIN s : p < q /\ s[p] = t /\ s[q] = u
MayFollow(s, t, u) ==
    \/ ScheduledWake \in {t, u}
    \/ Precedent(s, t, u)
    \/ Precedent(s, u, t) /\ Priority(t) < Priority(u)
MailIs(s, waiting, out) ==
    /\ s \in Seq(Trigger) /\ waiting \in Seq(Item) /\ out \in Seq(Item)
    /\ \A p, q \in DOMAIN s : s[p] = s[q] => p = q
    /\ \A p \in DOMAIN s : InRange(out, s[p]) \/ InRange(waiting, s[p])
    /\ \A i \in DOMAIN waiting : waiting[i] = ScheduledWake \/ InRange(s, waiting[i])
    /\ \A i \in DOMAIN out : out[i] = ScheduledWake \/ InRange(s, out[i])
    /\ \A i \in DOMAIN waiting, j \in DOMAIN waiting :
          i < j => ScheduledWake \in {waiting[i], waiting[j]} \/ Precedent(s, waiting[i], waiting[j])
    /\ \A i \in DOMAIN out, j \in DOMAIN waiting : MayFollow(s, out[i], waiting[j])
    /\ \A i \in DOMAIN out, j \in DOMAIN out : i < j => MayFollow(s, out[i], out[j])

MailInv == MailIs(sent, inbox, handed)

\* A sequence with one item more.
LEMMA OneMore ==
    ASSUME NEW S, NEW s \in Seq(S), NEW x \in S, NEW r, r = Append(s, x)
    PROVE  /\ r \in Seq(S) /\ DOMAIN r = DOMAIN s \cup {Len(s) + 1}
           /\ Len(s) + 1 \notin DOMAIN s /\ r[Len(s) + 1] = x
           /\ \A i \in DOMAIN s : r[i] = s[i] /\ i < Len(s) + 1
BY AppendProperties

\* The newest trigger comes after all that were sent.
LEMMA SendKeepsMail ==
    ASSUME NEW s, NEW waiting, NEW out, MailIs(s, waiting, out),
           NEW t \in Trigger, ~InRange(s, t)
    PROVE  MailIs(Append(s, t), Append(waiting, t), out)
<1> DEFINE n == Len(s) + 1
           m == Len(waiting) + 1
           r == Append(s, t)
           more == Append(waiting, t)
<1>1. /\ \A p \in DOMAIN s : s[p] # t
      /\ t # ScheduledWake /\ t \in Item
  BY TriggerAssumption DEF InRange, Item
<1>2. /\ r \in Seq(Trigger) /\ DOMAIN r = DOMAIN s \cup {n} /\ n \notin DOMAIN s
      /\ r[n] = t /\ \A p \in DOMAIN s : r[p] = s[p] /\ p < n
  BY <1>1, OneMore DEF MailIs
<1>3. /\ more \in Seq(Item) /\ DOMAIN more = DOMAIN waiting \cup {m} /\ m \notin DOMAIN waiting
      /\ more[m] = t /\ \A i \in DOMAIN waiting : more[i] = waiting[i] /\ i < m
  BY <1>1, OneMore DEF MailIs
<1>4. \A j \in DOMAIN more : ~(m < j)
  <2>1. m \in Nat /\ \A j \in DOMAIN waiting : j \in Nat
    BY LenProperties DEF MailIs
  <2> QED BY <1>3, <2>1
<1> HIDE DEF n, m, r, more
<1>5. \A u, v : Precedent(s, u, v) => Precedent(r, u, v)
  BY <1>2 DEF Precedent
<1>6. \A u, v : MayFollow(s, u, v) => MayFollow(r, u, v)
  BY <1>5 DEF MayFollow
<1>7. \A u : InRange(s, u) => InRange(r, u) /\ Precedent(r, u, t)
  BY <1>2 DEF InRange, Precedent
<1>8. InRange(r, t)
  BY <1>2 DEF InRange
<1>9. \A p, q \in DOMAIN r : r[p] = r[q] => p = q
  BY <1>1, <1>2 DEF MailIs
<1>10. ASSUME NEW p \in DOMAIN r PROVE InRange(out, r[p]) \/ InRange(more, r[p])
  <2>1. InRange(more, t) /\ \A u : InRange(waiting, u) => InRange(more, u)
    BY <1>3 DEF InRange
  <2>2. CASE p = n
    BY <1>2, <2>1, <2>2
  <2>3. CASE p \in DOMAIN s
    <3>1. InRange(out, s[p]) \/ InRange(waiting, s[p])
      BY <2>3 DEF MailIs
    <3> QED BY <1>2, <2>1, <2>3, <3>1
  <2> QED BY <1>2, <2>2, <2>3
<1>11. \A i \in DOMAIN more : more[i] = ScheduledWake \/ InRange(r, more[i])
  BY <1>3, <1>7, <1>8 DEF MailIs
<1>12. \A i \in DOMAIN out : out[i] = ScheduledWake \/ InRange(r, out[i])
  BY <1>7 DEF MailIs
<1>13. ASSUME NEW i \in DOMAIN more, NEW j \in DOMAIN more, i < j
       PROVE  ScheduledWake \in {more[i], more[j]} \/ Precedent(r, more[i], more[j])
  <2>1. i \in DOMAIN waiting
    BY <1>3, <1>4, <1>13
  <2>2. CASE j = m
    BY <1>3, <1>7, <2>1, <2>2 DEF MailIs
  <2>3. CASE j \in DOMAIN waiting
    BY <1>3, <1>5, <1>13, <2>1, <2>3 DEF MailIs
  <2> QED BY <1>3, <2>2, <2>3
<1>14. ASSUME NEW i \in DOMAIN out, NEW j \in DOMAIN more
       PROVE  MayFollow(r, out[i], more[j])
  <2>1. CASE j = m
    BY <1>3, <1>7, <2>1 DEF MailIs, MayFollow
  <2>2. CASE j \in DOMAIN waiting
    BY <1>3, <1>6, <2>2 DEF MailIs
  <2> QED BY <1>3, <2>1, <2>2
<1>15. \A i \in DOMAIN out, j \in DOMAIN out : i < j => MayFollow(r, out[i], out[j])
  BY <1>6 DEF MailIs
<1>16. out \in Seq(Item)
  BY DEF MailIs
<1> QED BY <1>2, <1>3, <1>9, <1>10, <1>11, <1>12, <1>13, <1>14, <1>15, <1>16 DEF MailIs, r, more

\* The timer's trigger has no place in the order of those sent.
LEMMA PushKeepsMail ==
    ASSUME NEW s, NEW waiting, NEW out, MailIs(s, waiting, out)
    PROVE  MailIs(s, Append(waiting, ScheduledWake), out)
<1> DEFINE m == Len(waiting) + 1
           more == Append(waiting, ScheduledWake)
<1>1. /\ more \in Seq(Item) /\ DOMAIN more = DOMAIN waiting \cup {m}
      /\ more[m] = ScheduledWake /\ \A i \in DOMAIN waiting : more[i] = waiting[i]
  BY OneMore DEF MailIs, Item
<1> HIDE DEF m, more
<1>2. \A u : MayFollow(s, u, ScheduledWake)
  BY DEF MayFollow
<1>3. \A p \in DOMAIN s : InRange(out, s[p]) \/ InRange(more, s[p])
  BY <1>1 DEF MailIs, InRange
<1> QED BY <1>1, <1>2, <1>3 DEF MailIs, more

\* A batch keeps to the order among its own, and all of it follows what was handed
\* out before.
LEMMA DrainKeepsMail ==
    ASSUME NEW s, NEW waiting, NEW out, MailIs(s, waiting, out)
    PROVE  MailIs(s, <<>>, out \o SortByClass(waiting))
<1> DEFINE d == SortByClass(waiting)
           n == Len(out)
           all == out \o d
<1>1. waiting \in Seq(Item)
  BY DEF MailIs
<1>2. /\ d \in Seq(Item) /\ Len(d) = Len(waiting)
      /\ \A k \in DOMAIN waiting : \E i \in DOMAIN d : d[i] = waiting[k]
      /\ \A i \in DOMAIN d : \E k \in DOMAIN waiting : d[i] = waiting[k]
      /\ \A i \in DOMAIN d, j \in DOMAIN d : i < j =>
            \E k \in DOMAIN waiting, l \in DOMAIN waiting :
               d[i] = waiting[k] /\ d[j] = waiting[l] /\ GoesFirst(waiting, k, l)
  BY <1>1, SortIs
<1> HIDE DEF d
<1>3. /\ out \in Seq(Item) /\ n \in Nat /\ DOMAIN out = 1 .. n
      /\ Len(d) \in Nat /\ DOMAIN d = 1 .. Len(d)
      /\ DOMAIN waiting = 1 .. Len(waiting) /\ Len(waiting) \in Nat
      /\ \A k \in DOMAIN waiting : waiting[k] \in Item
  BY <1>1, <1>2, LenProperties DEF MailIs
<1>4. /\ all \in Seq(Item) /\ Len(all) = n + Len(d)
      /\ \A i \in 1 .. n + Len(d) : all[i] = IF i <= n THEN out[i] ELSE d[i - n]
  <2>1. /\ all \in Seq(Item) /\ Len(all) = Len(out) + Len(d)
        /\ \A i \in 1 .. Len(out) + Len(d) :
              all[i] = IF i <= Len(out) THEN out[i] ELSE d[i - Len(out)]
    <3>1. d \in Seq(Item) /\ out \in Seq(Item)
      BY <1>2, <1>3
    <3> QED BY <3>1, ConcatProperties
  <2> QED BY <2>1
<1> HIDE DEF all
<1>5. DOMAIN all = 1 .. n + Len(d)
  BY <1>4, LenProperties
<1> HIDE DEF n
<1>6. \A i \in DOMAIN all :
         \/ i \in DOMAIN out /\ all[i] = out[i]
         \/ i \notin DOMAIN out /\ i - n \in DOMAIN d /\ all[i] = d[i - n]
  BY <1>3, <1>4, <1>5
<1>7. /\ \A i \in DOMAIN out : i \in DOMAIN all /\ all[i] = out[i]
      /\ \A i \in DOMAIN d : n + i \in DOMAIN all /\ all[n + i] = d[i]
  <2>1. \A i \in 1 .. n : i \in 1 .. n + Len(d) /\ i <= n
    BY <1>3
  <2>2. \A i \in 1 .. Len(d) : n + i \in 1 .. n + Len(d) /\ ~(n + i <= n) /\ (n + i) - n = i
    BY <1>3
  <2> QED BY <1>3, <1>4, <1>5, <2>1, <2>2
<1>8. ASSUME NEW i \in DOMAIN d, NEW j \in DOMAIN d, i < j
      PROVE  MayFollow(s, d[i], d[j])
  <2>1. PICK k \in DOMAIN waiting, l \in DOMAIN waiting :
            d[i] = waiting[k] /\ d[j] = waiting[l] /\ GoesFirst(waiting, k, l)
    BY <1>2, <1>8
  <2>2. /\ k < l => ScheduledWake \in {waiting[k], waiting[l]}
                    \/ Precedent(s, waiting[k], waiting[l])
        /\ l < k => ScheduledWake \in {waiting[k], waiting[l]}
                    \/ Precedent(s, waiting[l], waiting[k])
    BY DEF MailIs
  <2>3. Priority(waiting[k]) \in Nat /\ Priority(waiting[l]) \in Nat
    BY <1>3, PriorityIs
  <2>4. k < l \/ (l < k /\ Priority(waiting[k]) < Priority(waiting[l]))
    BY <1>3, <2>1, <2>3 DEF GoesFirst
  <2> QED BY <2>1, <2>2, <2>4 DEF MayFollow
<1>9. ASSUME NEW i \in DOMAIN all, NEW j \in DOMAIN all, i < j
      PROVE  MayFollow(s, all[i], all[j])
  <2>1. CASE i \in DOMAIN out /\ j \in DOMAIN out
    BY <1>7, <1>9, <2>1 DEF MailIs
  <2>2. CASE i \in DOMAIN out /\ j \notin DOMAIN out
    <3>1. j - n \in DOMAIN d /\ all[j] = d[j - n]
      BY <1>6, <2>2
    <3>2. PICK k \in DOMAIN waiting : d[j - n] = waiting[k]
      BY <1>2, <3>1
    <3> QED BY <1>7, <2>2, <3>1, <3>2 DEF MailIs
  <2>3. CASE i \notin DOMAIN out /\ j \notin DOMAIN out
    <3>1. i - n \in DOMAIN d /\ j - n \in DOMAIN d /\ i - n < j - n
      BY <1>3, <1>5, <1>6, <1>9, <2>3
    <3>2. all[i] = d[i - n] /\ all[j] = d[j - n]
      BY <1>6, <2>3
    <3> QED BY <1>8, <3>1, <3>2
  <2>4. ~(i \notin DOMAIN out /\ j \in DOMAIN out)
    BY <1>3, <1>5, <1>9
  <2> QED BY <2>1, <2>2, <2>3, <2>4
<1>10. \A p \in DOMAIN s : InRange(all, s[p])
  BY <1>2, <1>7 DEF MailIs, InRange
<1>11. \A i \in DOMAIN all : all[i] = ScheduledWake \/ InRange(s, all[i])
  BY <1>2, <1>6 DEF MailIs
<1>12. <<>> \in Seq(Item) /\ DOMAIN <<>> = {}
  OBVIOUS
<1>13. s \in Seq(Trigger) /\ \A p, q \in DOMAIN s : s[p] = s[q] => p = q
  BY DEF MailIs
<1> QED BY <1>4, <1>9, <1>10, <1>11, <1>12, <1>13 DEF MailIs, all, d

\* A new process was sent nothing.
LEMMA NoMail == MailIs(<<>>, <<>>, <<>>)
<1>1. DOMAIN <<>> = {} /\ <<>> \in Seq(Trigger) /\ <<>> \in Seq(Item)
  OBVIOUS
<1> QED BY <1>1 DEF MailIs

\* The order of the mail is inductive.
LEMMA MailInductive == MailInv /\ [Next]_vars => MailInv'
<1> SUFFICES ASSUME MailInv, [Next]_vars PROVE MailInv'
  OBVIOUS
<1>1. CASE UNCHANGED mail
  BY <1>1 DEF mail, MailInv
<1>2. ASSUME NEW t \in Trigger, Send(t) PROVE MailInv'
  BY <1>2, SendKeepsMail DEF Send, MailInv
<1>3. CASE Restart
  BY <1>3, NoMail DEF Restart, MailInv
<1>4. CASE AgentStep
  <2>1. PushScheduledWake \/ BeginCycle \/ UNCHANGED mail
    BY <1>4
    DEF AgentStep, RetireAtCap, BeginWait, WokenByTrigger, SelfWakes, ExecuteOk, DecideFails,
        BatchFails, NeedsCorrection, ExecuteFails, IdleHealthy, ArchiveCurrent, WriteHealthy
  <2>2. CASE PushScheduledWake
    BY <2>2, PushKeepsMail DEF PushScheduledWake, MailInv
  <2>3. CASE BeginCycle
    BY <2>3, DrainKeepsMail DEF BeginCycle, DrainOrdered, MailInv
  <2> QED BY <1>1, <2>1, <2>2, <2>3
<1>5. CASE SecondPasses \/ Crash \/ UNCHANGED vars
  BY <1>1, <1>5 DEF SecondPasses, Crash, vars
<1> QED BY <1>2, <1>3, <1>4, <1>5 DEF Next

\* Whatever is sent, when, and from however many threads: a trigger reaches one cycle
\* at most, waits in the queue until it does, and is overtaken only by one of a class
\* that goes first (trigger_queue.rs drain_ordered, agent.rs run).
THEOREM TriggersKeepOrder == Spec => []HandedInOrder
<1>1. Init => MailInv
  BY NoMail DEF Init, MailInv
<1>2. MailInv => HandedInOrder
  BY DEF MailInv, MailIs, HandedInOrder, MayFollow, MayPrecede, SentBefore, Precedent
<1> QED BY <1>1, <1>2, MailInductive, PTL DEF Spec

-----------------------------------------------------------------------------
(* The directories of hosts.                                               *)

\* A root that has been taken is there, and is named for its moment, and for its
\* invocation if another was before it.
RootsAreTaken ==
    \A i \in Invocation : root[i] # <<>> =>
        root[i] \in dirs /\ \E moment : root[i] \in {<<moment>>, <<moment, i>>}

LEMMA MakeDirStep ==
    ASSUME RootsAreTaken, OwnDirectory, NEW i \in Invocation, MakeDir(i)
    PROVE  RootsAreTaken' /\ OwnDirectory'
<1>1. PICK name \in {Subdir(i), WithUlid(i)} :
          /\ root' = [root EXCEPT ![i] = name] /\ dirs' = dirs \cup {name}
          /\ name = Subdir(i) => Subdir(i) \notin dirs
  <2>1. Subdir(i) # WithUlid(i)
    BY DEF Subdir, WithUlid
  <2>2. CASE Subdir(i) \in dirs
    BY <2>1, <2>2 DEF MakeDir
  <2>3. CASE Subdir(i) \notin dirs
    BY <2>3 DEF MakeDir
  <2> QED BY <2>2, <2>3
<1>2. /\ name = <<stamp[i]>> \/ name = <<stamp[i], i>>
      /\ \A j \in Invocation \ {i} : root'[j] = root[j]
      /\ root'[i] = name \/ root'[i] = root[i]
      /\ name \in dirs' /\ dirs \subseteq dirs'
  BY <1>1 DEF Subdir, WithUlid
<1>3. RootsAreTaken'
  BY <1>2 DEF RootsAreTaken
<1>4. ASSUME NEW j \in Invocation \ {i}, root[j] # <<>>
      PROVE  name # root[j]
  <2>1. PICK moment : root[j] = <<moment>> \/ root[j] = <<moment, j>>
    BY <1>4 DEF RootsAreTaken
  <2>2. root[j] \in dirs
    BY <1>4 DEF RootsAreTaken
  <2>3. CASE name = <<stamp[i]>>
    BY <1>1, <2>2, <2>3 DEF Subdir
  <2>4. CASE name = <<stamp[i], i>>
    BY <2>1, <2>4
  <2> QED BY <1>2, <2>3, <2>4
<1>5. OwnDirectory'
  BY <1>2, <1>4 DEF OwnDirectory
<1> QED BY <1>3, <1>5

\* Two hosts that are started in one millisecond, or one after the other, write to
\* directories of their own: create_dir is what decides between them
\* (node_run_llm.rs resolve_fs_root).
THEOREM DirectoriesAreOwn == HostSpec => []OwnDirectory
<1>1. HostInit => RootsAreTaken /\ OwnDirectory
  BY DEF HostInit, RootsAreTaken, OwnDirectory
<1>2. RootsAreTaken /\ OwnDirectory /\ [HostNext]_hostVars => RootsAreTaken' /\ OwnDirectory'
  <2> SUFFICES ASSUME RootsAreTaken, OwnDirectory, [HostNext]_hostVars
               PROVE  RootsAreTaken' /\ OwnDirectory'
    OBVIOUS
  <2>1. ASSUME NEW i \in Invocation, ResolveFsRoot(i)
        PROVE  RootsAreTaken' /\ OwnDirectory'
    BY <2>1, MakeDirStep DEF ResolveFsRoot
  <2>2. CASE UNCHANGED <<root, dirs>>
    BY <2>2 DEF RootsAreTaken, OwnDirectory
  <2>3. ASSUME NEW i \in Invocation, Start(i) \/ Parse(i) \/ HostStep(i) \/ AgentRetires(i)
        PROVE  ResolveFsRoot(i) \/ UNCHANGED <<root, dirs>>
    BY <2>3
    DEF Start, Parse, AgentRetires, HostStep, Abort, CheckFeatures, Load, Stamp, Open, Connect,
        Register, BuildClient, SleepEnds, SendLine, Join, Shutdown, PrintTree, ReadPrompt,
        Dispatch, Compute
  <2>4. MillisecondPasses \/ UNCHANGED hostVars => UNCHANGED <<root, dirs>>
    BY DEF MillisecondPasses, hostVars, process
  <2> QED BY <2>1, <2>2, <2>3, <2>4 DEF HostNext
<1> QED BY <1>1, <1>2, PTL DEF HostSpec

-----------------------------------------------------------------------------
(* The command lines of hosts: one pass over the tokens is the usage.      *)

\* A set of numbers that is not empty has a least one.
LEMMA Least ==
    ASSUME NEW S \in SUBSET Nat, S # {}
    PROVE  \E least \in S : \A other \in S : least <= other
<1> DEFINE Less == OpToRel(<, Nat)
<1>1. IsWellFoundedOn(Less, Nat)
  BY NatLessThanWellFounded
<1>2. \A x, y \in Nat : y < x => <<y, x>> \in Less
  BY DEF OpToRel
<1> HIDE DEF Less
<1>3. PICK x \in S : \A y \in S : ~(<<y, x>> \in Less)
  BY <1>1, WFMin
<1>4. \A y \in S : ~(y < x)
  BY <1>2, <1>3, Zenon
<1> QED BY <1>4

\* Induction up to a bound, over a set of numbers.
LEMMA Induction ==
    ASSUME NEW n \in Nat, NEW S, 0 \in S, \A i \in 1 .. n : i - 1 \in S => i \in S
    PROVE  \A i \in 0 .. n : i \in S
<1> DEFINE Others == {i \in 0 .. n : i \notin S}
<1> SUFFICES ASSUME Others # {} PROVE FALSE
  OBVIOUS
<1>1. PICK least \in Others : \A other \in Others : least <= other
  <2>1. Others \in SUBSET Nat
    OBVIOUS
  <2> HIDE DEF Others
  <2> QED BY <2>1, Least
<1>2. least \in 1 .. n
  BY <1>1
<1>3. least - 1 \in 0 .. n /\ least - 1 \in Nat /\ ~(least <= least - 1)
  BY <1>2
<1>4. least - 1 \notin Others
  BY <1>1, <1>3
<1> QED BY <1>1, <1>2, <1>3, <1>4

\* The loop is defined: what it has gathered by a token is what that token adds.
LEMMA GatheredIs ==
    ASSUME NEW p, NEW line, Len(line) \in Nat
    PROVE  /\ Gathered(p, line)[0] = Nothing
           /\ \A i \in 1 .. Len(line) :
                 Gathered(p, line)[i] =
                    Take(p, Gathered(p, line)[i - 1], line[i])
<1> DEFINE n == Len(line)
           TakeAt(g, i) == Take(p, g, line[i])
           Runs(f, m) == f = [i \in 0 .. m |-> IF i = 0 THEN Nothing ELSE TakeAt(f[i - 1], i)]
           S == {m \in 0 .. n : \E f : Runs(f, m)}
<1> HIDE DEF TakeAt
<1>1. 0 \in S
  <2>1. Runs([i \in 0 .. 0 |-> Nothing], 0)
    OBVIOUS
  <2> HIDE DEF Runs
  <2> QED BY <2>1
<1>2. ASSUME NEW m \in 1 .. n, m - 1 \in S PROVE m \in S
  <2>1. PICK f : Runs(f, m - 1)
    BY <1>2
  <2> DEFINE g == [i \in 0 .. m |-> IF i = m THEN TakeAt(f[m - 1], m) ELSE f[i]]
  <2>2. Runs(g, m)
    <3>1. \A i \in 0 .. m : g[i] = IF i = 0 THEN Nothing ELSE TakeAt(g[i - 1], i)
      <4> SUFFICES ASSUME NEW i \in 0 .. m
                   PROVE  g[i] = IF i = 0 THEN Nothing ELSE TakeAt(g[i - 1], i)
        OBVIOUS
      <4>1. CASE i = m
        BY <4>1
      <4>2. CASE i # m
        BY <2>1, <4>2
      <4> QED BY <4>1, <4>2
    <3> HIDE DEF TakeAt
    <3> QED BY <3>1
  <2> HIDE DEF Runs, g
  <2> QED BY <2>2
<1>3. n \in S
  <2>1. n \in Nat
    OBVIOUS
  <2> HIDE DEF S, n
  <2>2. \A i \in 0 .. n : i \in S
    BY <1>1, <1>2, <2>1, Induction
  <2> QED BY <2>1, <2>2
<1>4. PICK f : Runs(f, n)
  BY <1>3
<1> DEFINE w == Gathered(p, line)
<1>5. w = CHOOSE x : Runs(x, n)
  BY DEF Gathered, TakeAt
<1>6. Runs(w, n)
  <2> HIDE DEF Runs, w
  <2> QED BY <1>4, <1>5
<1> HIDE DEF w
<1> QED BY <1>6 DEF w, TakeAt

\* The programs with flags.
Parser == {"model_call", "node_run_llm"}

\* The flags of the two parsers are told apart by name.
LEMMA FlagsAre ==
    ASSUME NEW p \in Parser
    PROVE  /\ ValueFlags[p] \cap Switches[p] = {}
           /\ NoFlag \notin ValueFlags[p]
           /\ "--vendor" \in ValueFlags[p]
           /\ \A token \in ValueFlags[p] \cup Switches[p] : Dashed(token)
           /\ \A token \in Switches[p] : ValidValue(token, token)
           /\ p = "node_run_llm" => Switches[p] = {}
<1>1. p = "model_call" \/ p = "node_run_llm"
  BY DEF Parser
<1>2. DOMAIN ValueFlags = {"model_call", "node_run_llm"}
  BY DEF ValueFlags
<1>3. \A token \in ValueFlags[p] \cup Switches[p] : Dashed(token)
  BY <1>1, <1>2 DEF Dashed, DashedTokens
<1>4. CASE p = "model_call"
  BY <1>3, <1>4 DEF ValueFlags, Switches, NoFlag, ValidValue
<1>5. CASE p = "node_run_llm"
  BY <1>3, <1>5 DEF ValueFlags, Switches, NoFlag, ValidValue
<1> QED BY <1>1, <1>4, <1>5

\* The shape of what is gathered.
IsGathered(g) ==
    /\ g = [waits |-> g.waits, given |-> g.given, positional |-> g.positional,
            refused |-> g.refused]
    /\ g.refused \in BOOLEAN

\* What one token adds, by what the loop waits for.
LEMMA TakeIs ==
    ASSUME NEW p \in Parser, NEW g, IsGathered(g), NEW token,
           NEW h, h = Take(p, g, token)
    PROVE  /\ IsGathered(h)
           /\ g.waits # NoFlag =>
                /\ h.waits = NoFlag /\ h.positional = g.positional
                /\ DOMAIN h.given = DOMAIN g.given \cup {g.waits}
                /\ h.refused <=> g.refused \/ g.waits \in DOMAIN g.given
                                           \/ ~ValidValue(g.waits, token)
           /\ g.waits = NoFlag /\ token \in ValueFlags[p] =>
                /\ h.waits = token /\ h.positional = g.positional
                /\ h.given = g.given /\ h.refused = g.refused
           /\ g.waits = NoFlag /\ token \in Switches[p] =>
                /\ h.waits = NoFlag /\ h.positional = g.positional
                /\ DOMAIN h.given = DOMAIN g.given \cup {token}
                /\ h.refused <=> g.refused \/ token \in DOMAIN g.given
           /\ g.waits = NoFlag /\ token \notin ValueFlags[p] \cup Switches[p] =>
                IF p = "node_run_llm" /\ ~Dashed(token)
                THEN /\ h.waits = NoFlag /\ h.positional = g.positional + 1
                     /\ h.given = g.given /\ h.refused = g.refused
                ELSE h.refused
<1> DEFINE give(flag, value) == Give(g, flag, value)
<1>1. ASSUME NEW flag, NEW value
      PROVE  /\ IsGathered(give(flag, value))
             /\ give(flag, value).waits = NoFlag
             /\ give(flag, value).positional = g.positional
             /\ DOMAIN give(flag, value).given = DOMAIN g.given \cup {flag}
             /\ give(flag, value).refused <=> g.refused \/ flag \in DOMAIN g.given
                                               \/ ~ValidValue(flag, value)
  BY DEF Give, IsGathered
<1>2. CASE g.waits # NoFlag
  <2>1. h = give(g.waits, token)
    BY <1>2 DEF Take, TakeFlag
  <2> HIDE DEF give
  <2> QED BY <1>1, <1>2, <2>1
<1>3. CASE g.waits = NoFlag /\ token \in ValueFlags[p]
  <2>1. h = [g EXCEPT !.waits = token]
    BY <1>3 DEF Take, TakeFlag
  <2>2. h = [waits |-> token, given |-> g.given, positional |-> g.positional, refused |-> g.refused]
    BY <2>1 DEF IsGathered
  <2>3. token \notin Switches[p]
    BY <1>3, FlagsAre
    <2> QED BY <1>3, <2>2, <2>3 DEF IsGathered
<1>4. CASE g.waits = NoFlag /\ token \in Switches[p]
  <2>1. token \notin ValueFlags[p] /\ ValidValue(token, token)
    BY <1>4, FlagsAre
  <2>2. h = give(token, token)
    BY <1>4, <2>1 DEF Take, TakeFlag
  <2> HIDE DEF give
  <2> QED BY <1>1, <1>4, <2>1, <2>2
<1>5. CASE g.waits = NoFlag /\ token \notin ValueFlags[p] \cup Switches[p]
  <2>1. CASE p = "node_run_llm" /\ ~Dashed(token)
    <3>1. h = [g EXCEPT !.positional = g.positional + 1]
      BY <1>5, <2>1 DEF Take, TakeFlag
    <3>2. h = [waits |-> g.waits, given |-> g.given, positional |-> g.positional + 1,
               refused |-> g.refused]
      BY <3>1 DEF IsGathered
    <3> QED BY <1>5, <2>1, <3>2 DEF IsGathered
  <2>2. CASE ~(p = "node_run_llm" /\ ~Dashed(token))
    <3>1. h = [g EXCEPT !.refused = TRUE]
      BY <1>5, <2>2 DEF Take, TakeFlag
    <3>2. h = [waits |-> g.waits, given |-> g.given, positional |-> g.positional,
               refused |-> TRUE]
      BY <3>1 DEF IsGathered
    <3>3. h.refused = TRUE /\ IsGathered(h)
      BY <3>2 DEF IsGathered
    <3>4. h.refused
      BY <3>3
    <3> QED BY <1>5, <2>2, <3>3, <3>4
  <2> QED BY <2>1, <2>2
<1> QED BY <1>2, <1>3, <1>4, <1>5

\* A reading of a line: F are the flags that take the next token as their value.
ValuesOf(F) == {p + 1 : p \in F}
RestOf(line, F) == DOMAIN line \ (F \cup ValuesOf(F))
OptionsOf(p, line, F) == F \cup {k \in RestOf(line, F) : line[k] \in Switches[p]}

\* A reading that the loop can follow.
Reads(p, line, F) ==
    /\ F \in SUBSET DOMAIN line /\ ValuesOf(F) \cap F = {}
    /\ \A k \in F : line[k] \in ValueFlags[p]
    /\ \A k \in RestOf(line, F) :
          line[k] \in Switches[p] \/ (p = "node_run_llm" /\ ~Dashed(line[k]))

\* The options that the loop has by token i, and what is wrong with them.
TakenAt(F, k) == IF k \in F THEN k + 1 ELSE k
TakenBy(p, line, F, i) == {k \in OptionsOf(p, line, F) : TakenAt(F, k) <= i}
Twice(line, S) == \E k, l \in S : k # l /\ line[k] = line[l]
BadValue(line, F, i) == \E k \in F : k + 1 <= i /\ ~ValidValue(line[k], line[k + 1])
PlainBy(p, line, F, i) == {k \in RestOf(line, F) \ OptionsOf(p, line, F) : k <= i}

\* What the loop has gathered by token i.
Agrees(p, line, F, i) ==
    LET g == Gathered(p, line)[i]
    IN /\ IsGathered(g)
       /\ g.waits = IF i \in F THEN line[i] ELSE NoFlag
       /\ DOMAIN g.given = {line[k] : k \in TakenBy(p, line, F, i)}
       /\ g.positional = Cardinality(PlainBy(p, line, F, i))
       /\ g.refused <=> BadValue(line, F, i) \/ Twice(line, TakenBy(p, line, F, i))

\* One option more is given twice if it was given before.
LEMMA TwiceGrows ==
    ASSUME NEW line, NEW S, NEW x, x \notin S
    PROVE  Twice(line, S \cup {x}) <=> Twice(line, S) \/ line[x] \in {line[k] : k \in S}
BY DEF Twice

\* Each token is a flag, the value of one, a switch, or another.
LEMMA TokenIs ==
    ASSUME NEW p \in Parser, NEW line, DOMAIN line = 1 .. Len(line), Len(line) \in Nat,
           NEW F, Reads(p, line, F), NEW i \in 1 .. Len(line)
    PROVE  LET taken(j) == TakenBy(p, line, F, j)
               plain(j) == PlainBy(p, line, F, j)
           IN \/ /\ i - 1 \in F /\ i \notin F /\ i - 1 \in 1 .. Len(line)
                 /\ taken(i) = taken(i - 1) \cup {i - 1} /\ i - 1 \notin taken(i - 1)
                 /\ plain(i) = plain(i - 1)
                 /\ BadValue(line, F, i) <=>
                      BadValue(line, F, i - 1) \/ ~ValidValue(line[i - 1], line[i])
              \/ /\ i - 1 \notin F
                 /\ BadValue(line, F, i) <=> BadValue(line, F, i - 1)
                 /\ \/ /\ i \in F
                       /\ taken(i) = taken(i - 1) /\ plain(i) = plain(i - 1)
                    \/ /\ i \notin F /\ line[i] \in Switches[p]
                       /\ taken(i) = taken(i - 1) \cup {i} /\ i \notin taken(i - 1)
                       /\ plain(i) = plain(i - 1)
                    \/ /\ i \notin F /\ line[i] \notin ValueFlags[p] \cup Switches[p]
                       /\ p = "node_run_llm" /\ ~Dashed(line[i])
                       /\ taken(i) = taken(i - 1)
                       /\ plain(i) = plain(i - 1) \cup {i} /\ i \notin plain(i - 1)
<1> DEFINE n == Len(line)
           taken(j) == TakenBy(p, line, F, j)
           plain(j) == PlainBy(p, line, F, j)
           options == OptionsOf(p, line, F)
           rest == RestOf(line, F)
<1>1. F \in SUBSET (1 .. n) /\ n \in Nat /\ \A k \in F : k + 1 \notin F
  BY DEF Reads, ValuesOf
<1>2. \A k \in rest : k \in 1 .. n /\ k \notin F /\ k - 1 \notin F
  <2> SUFFICES ASSUME NEW k \in rest PROVE k \in 1 .. n /\ k \notin F /\ k - 1 \notin F
    OBVIOUS
  <2>1. k \in 1 .. n /\ k \notin F /\ k \notin ValuesOf(F)
    BY DEF RestOf
  <2>2. k - 1 \in F => k \in ValuesOf(F)
    BY <2>1 DEF ValuesOf
  <2> QED BY <2>1, <2>2
<1>3. i \in rest <=> i \notin F /\ i - 1 \notin F
  <2>1. i \in ValuesOf(F) => i - 1 \in F
    BY <1>1 DEF ValuesOf
  <2> QED BY <1>2, <2>1 DEF RestOf
<1>4. \A k \in options : k \in 1 .. n /\ (k \in F \/ (k \in rest /\ line[k] \in Switches[p]))
  BY <1>1, <1>2 DEF OptionsOf
<1>5. /\ F \subseteq options
      /\ \A k \in rest : k \in options <=> line[k] \in Switches[p]
  BY <1>2 DEF OptionsOf
<1>6. \A j : taken(j) = {k \in options : (IF k \in F THEN k + 1 ELSE k) <= j}
  BY DEF TakenBy, TakenAt
<1>7. \A j : plain(j) = {k \in rest \ options : k <= j}
  BY DEF PlainBy
<1> HIDE DEF taken, plain, options, rest, n
<1>8. i \in 1 .. n
  BY DEF n
<1>9. CASE i - 1 \in F
  <2>1. i \notin F /\ i - 1 \in 1 .. n /\ i \notin rest
    BY <1>1, <1>3, <1>8, <1>9
  <2>2. taken(i) = taken(i - 1) \cup {i - 1} /\ i - 1 \notin taken(i - 1)
    <3>1. ASSUME NEW k \in options
          PROVE  (IF k \in F THEN k + 1 ELSE k) <= i <=>
                    (IF k \in F THEN k + 1 ELSE k) <= i - 1 \/ k = i - 1
      BY <1>1, <1>4, <1>8, <1>9, <2>1
    <3>2. i - 1 \in options /\ ~(IF i - 1 \in F THEN i - 1 + 1 ELSE i - 1) <= i - 1
      BY <1>5, <1>8, <1>9
    <3> QED BY <1>6, <3>1, <3>2
  <2>3. plain(i) = plain(i - 1)
    <3>1. \A k \in rest \ options : k <= i <=> k <= i - 1
      BY <1>2, <1>8, <2>1
    <3> QED BY <1>7, <3>1
  <2>4. BadValue(line, F, i) <=>
            BadValue(line, F, i - 1) \/ ~ValidValue(line[i - 1], line[i])
    <3>1. \A k \in F : k + 1 <= i <=> k + 1 <= i - 1 \/ k = i - 1
      BY <1>1, <1>8
    <3>2. (i - 1) + 1 = i
      BY <1>8
    <3> QED BY <1>9, <3>1, <3>2 DEF BadValue
  <2> QED BY <1>9, <2>1, <2>2, <2>3, <2>4 DEF n, taken, plain
<1>10. CASE i - 1 \notin F
  <2>1. BadValue(line, F, i) <=> BadValue(line, F, i - 1)
    <3>1. \A k \in F : k + 1 <= i <=> k + 1 <= i - 1
      BY <1>1, <1>8, <1>10
    <3> QED BY <3>1 DEF BadValue
  <2>2. CASE i \in F
    <3>1. taken(i) = taken(i - 1)
      <4>1. ASSUME NEW k \in options
            PROVE  (IF k \in F THEN k + 1 ELSE k) <= i <=>
                    (IF k \in F THEN k + 1 ELSE k) <= i - 1
        BY <1>1, <1>4, <1>8, <1>10, <2>2
      <4> QED BY <1>6, <4>1
    <3>2. plain(i) = plain(i - 1)
      <4>1. \A k \in rest \ options : k <= i <=> k <= i - 1
        BY <1>2, <1>8, <2>2
      <4> QED BY <1>7, <4>1
    <3> QED BY <1>10, <2>1, <2>2, <3>1, <3>2 DEF taken, plain
  <2>3. CASE i \notin F /\ line[i] \in Switches[p]
    <3>1. i \in rest /\ i \in options
      BY <1>3, <1>5, <1>10, <2>3
    <3>2. taken(i) = taken(i - 1) \cup {i} /\ i \notin taken(i - 1)
      <4>1. ASSUME NEW k \in options
            PROVE  (IF k \in F THEN k + 1 ELSE k) <= i <=>
                    (IF k \in F THEN k + 1 ELSE k) <= i - 1 \/ k = i
        BY <1>1, <1>4, <1>8, <1>10, <2>3
      <4>2. ~((IF i \in F THEN i + 1 ELSE i) <= i - 1)
        BY <1>8
      <4> QED BY <1>6, <3>1, <4>1, <4>2
    <3>3. plain(i) = plain(i - 1)
      <4>1. \A k \in rest \ options : k <= i <=> k <= i - 1
        BY <1>2, <1>8, <3>1
      <4> QED BY <1>7, <4>1
    <3> QED BY <1>10, <2>1, <2>3, <3>2, <3>3 DEF taken, plain
  <2>4. CASE i \notin F /\ line[i] \notin Switches[p]
    <3>1. i \in rest /\ i \notin options
      BY <1>3, <1>5, <1>10, <2>4
    <3>2. p = "node_run_llm" /\ ~Dashed(line[i])
      BY <2>4, <3>1 DEF Reads, rest
    <3>3. line[i] \notin ValueFlags[p] \cup Switches[p]
      BY <3>2, FlagsAre
    <3>4. taken(i) = taken(i - 1)
      <4>1. ASSUME NEW k \in options
            PROVE  (IF k \in F THEN k + 1 ELSE k) <= i <=>
                    (IF k \in F THEN k + 1 ELSE k) <= i - 1
        BY <1>1, <1>4, <1>8, <1>10, <3>1
      <4> QED BY <1>6, <4>1
    <3>5. plain(i) = plain(i - 1) \cup {i} /\ i \notin plain(i - 1)
      <4>1. \A k \in rest \ options : k <= i <=> k <= i - 1 \/ k = i
        BY <1>2, <1>8
      <4>2. ~(i <= i - 1)
        BY <1>8
      <4> QED BY <1>7, <3>1, <4>1, <4>2
    <3> QED BY <1>10, <2>1, <2>4, <3>2, <3>3, <3>4, <3>5 DEF taken, plain
  <2> QED BY <2>2, <2>3, <2>4
<1> QED BY <1>9, <1>10

\* The positional arguments can be counted.
LEMMA PlainIsFinite ==
    ASSUME NEW p, NEW line, DOMAIN line = 1 .. Len(line), Len(line) \in Nat, NEW F, NEW i
    PROVE  IsFiniteSet(PlainBy(p, line, F, i))
<1>1. IsFiniteSet(1 .. Len(line))
  BY FS_Interval
<1>2. PlainBy(p, line, F, i) \subseteq 1 .. Len(line)
  BY DEF PlainBy, RestOf
<1> QED BY <1>1, <1>2, FS_Subset

\* A token keeps the loop to the reading.
LEMMA StepAgrees ==
    ASSUME NEW p \in Parser, NEW line, DOMAIN line = 1 .. Len(line), Len(line) \in Nat,
           NEW F, Reads(p, line, F), NEW i \in 1 .. Len(line), Agrees(p, line, F, i - 1)
    PROVE  Agrees(p, line, F, i)
<1> DEFINE g == Gathered(p, line)[i - 1]
           h == Gathered(p, line)[i]
           taken(j) == TakenBy(p, line, F, j)
           plain(j) == PlainBy(p, line, F, j)
           twice(j) == Twice(line, TakenBy(p, line, F, j))
           bad(j) == BadValue(line, F, j)
           given(j) == {line[k] : k \in TakenBy(p, line, F, j)}
<1>1. h = Take(p, g, line[i])
  BY GatheredIs
<1>2. /\ IsGathered(g)
      /\ g.waits = IF i - 1 \in F THEN line[i - 1] ELSE NoFlag
      /\ DOMAIN g.given = given(i - 1)
      /\ g.positional = Cardinality(plain(i - 1))
      /\ g.refused <=> bad(i - 1) \/ twice(i - 1)
  BY DEF Agrees
<1>3. SUFFICES /\ IsGathered(h)
               /\ h.waits = IF i \in F THEN line[i] ELSE NoFlag
               /\ DOMAIN h.given = given(i)
               /\ h.positional = Cardinality(plain(i))
               /\ h.refused <=> bad(i) \/ twice(i)
  BY DEF Agrees
<1>4. ASSUME NEW x, taken(i) = taken(i - 1) \cup {x}, x \notin taken(i - 1)
      PROVE  /\ given(i) = given(i - 1) \cup {line[x]}
             /\ twice(i) <=> twice(i - 1) \/ line[x] \in given(i - 1)
  <2>1. given(i) = given(i - 1) \cup {line[x]}
    BY <1>4
  <2>2. Twice(line, taken(i - 1) \cup {x}) <=> twice(i - 1) \/ line[x] \in given(i - 1)
    <3> HIDE DEF taken
    <3>1. Twice(line, taken(i - 1) \cup {x}) <=>
             Twice(line, taken(i - 1)) \/ line[x] \in {line[k] : k \in taken(i - 1)}
      BY <1>4, TwiceGrows
    <3> QED BY <3>1 DEF taken
  <2>3. twice(i) <=> Twice(line, taken(i - 1) \cup {x})
    BY <1>4, Zenon
  <2> QED BY <2>1, <2>2, <2>3
<1>5. taken(i) = taken(i - 1) => given(i) = given(i - 1) /\ (twice(i) <=> twice(i - 1))
  OBVIOUS
<1>6. ASSUME plain(i) = plain(i - 1) \cup {i}, i \notin plain(i - 1)
      PROVE  Cardinality(plain(i)) = Cardinality(plain(i - 1)) + 1
  BY <1>6, PlainIsFinite, FS_AddElement
<1>7. /\ \A k \in F : line[k] \in ValueFlags[p] /\ line[k] # NoFlag
      /\ \A token : ~(token \in ValueFlags[p] /\ token \in Switches[p])
  BY FlagsAre DEF Reads
<1>8. \/ /\ i - 1 \in F /\ i \notin F
         /\ taken(i) = taken(i - 1) \cup {i - 1} /\ i - 1 \notin taken(i - 1)
         /\ plain(i) = plain(i - 1)
         /\ bad(i) <=> bad(i - 1) \/ ~ValidValue(line[i - 1], line[i])
      \/ /\ i - 1 \notin F
         /\ bad(i) <=> bad(i - 1)
         /\ \/ i \in F /\ taken(i) = taken(i - 1) /\ plain(i) = plain(i - 1)
            \/ /\ i \notin F /\ line[i] \in Switches[p]
               /\ taken(i) = taken(i - 1) \cup {i} /\ i \notin taken(i - 1)
               /\ plain(i) = plain(i - 1)
            \/ /\ i \notin F /\ line[i] \notin ValueFlags[p] \cup Switches[p]
               /\ p = "node_run_llm" /\ ~Dashed(line[i])
               /\ taken(i) = taken(i - 1)
               /\ plain(i) = plain(i - 1) \cup {i} /\ i \notin plain(i - 1)
  BY TokenIs
<1> HIDE DEF g, h, taken, plain, twice, bad, given
<1>9. CASE i - 1 \in F
  <2>1. g.waits = line[i - 1] /\ g.waits # NoFlag
    BY <1>2, <1>7, <1>9
  <2>2. /\ IsGathered(h) /\ h.waits = NoFlag /\ h.positional = g.positional
        /\ DOMAIN h.given = DOMAIN g.given \cup {g.waits}
        /\ h.refused <=> g.refused \/ g.waits \in DOMAIN g.given \/ ~ValidValue(g.waits, line[i])
    BY <1>1, <1>2, <2>1, TakeIs
  <2> QED BY <1>2, <1>4, <1>8, <1>9, <2>1, <2>2
<1>10. CASE i - 1 \notin F /\ i \in F
  <2>1. g.waits = NoFlag /\ line[i] \in ValueFlags[p]
    BY <1>2, <1>7, <1>10
  <2>2. /\ IsGathered(h) /\ h.waits = line[i] /\ h.positional = g.positional
        /\ h.given = g.given /\ h.refused = g.refused
    BY <1>1, <1>2, <2>1, TakeIs
  <2> QED BY <1>2, <1>5, <1>8, <1>10, <2>2
<1>11. CASE i - 1 \notin F /\ i \notin F /\ line[i] \in Switches[p]
  <2>1. g.waits = NoFlag
    BY <1>2, <1>11
  <2>2. /\ IsGathered(h) /\ h.waits = NoFlag /\ h.positional = g.positional
        /\ DOMAIN h.given = DOMAIN g.given \cup {line[i]}
        /\ h.refused <=> g.refused \/ line[i] \in DOMAIN g.given
    BY <1>1, <1>2, <1>11, <2>1, TakeIs
  <2> QED BY <1>2, <1>4, <1>8, <1>11, <2>2
<1>12. CASE i - 1 \notin F /\ i \notin F /\ line[i] \notin Switches[p]
  <2>1. g.waits = NoFlag /\ line[i] \notin ValueFlags[p] \cup Switches[p]
    BY <1>2, <1>8, <1>12
  <2>2. p = "node_run_llm" /\ ~Dashed(line[i])
    BY <1>8, <1>12
  <2>3. /\ IsGathered(h) /\ h.waits = NoFlag /\ h.positional = g.positional + 1
        /\ h.given = g.given /\ h.refused = g.refused
    BY <1>1, <1>2, <2>1, <2>2, TakeIs
  <2> QED BY <1>2, <1>5, <1>6, <1>8, <1>12, <2>3
<1> QED BY <1>9, <1>10, <1>11, <1>12

\* Whatever reading a line has, the loop follows it from the first token to the last.
LEMMA LoopAgrees ==
    ASSUME NEW p \in Parser, NEW line, DOMAIN line = 1 .. Len(line), Len(line) \in Nat,
           NEW F, Reads(p, line, F)
    PROVE  \A i \in 0 .. Len(line) : Agrees(p, line, F, i)
<1> DEFINE S == {i \in 0 .. Len(line) : Agrees(p, line, F, i)}
<1>1. Agrees(p, line, F, 0)
  <2>1. Gathered(p, line)[0] = Nothing
    BY GatheredIs
  <2>2. IsGathered(Nothing) /\ Nothing.waits = NoFlag /\ Nothing.positional = 0
        /\ DOMAIN Nothing.given = {} /\ Nothing.refused = FALSE
    BY DEF Nothing, IsGathered
  <2>3. F \subseteq 1 .. Len(line)
    BY DEF Reads
  <2>4. 0 \notin F /\ TakenBy(p, line, F, 0) = {} /\ PlainBy(p, line, F, 0) = {}
        /\ \A k \in F : ~(k + 1 <= 0)
    <3>1. \A k \in OptionsOf(p, line, F) \cup RestOf(line, F) : k \in 1 .. Len(line)
      BY <2>3 DEF OptionsOf, RestOf
    <3> QED BY <2>3, <3>1 DEF TakenBy, TakenAt, PlainBy
  <2>5. Cardinality({}) = 0
    BY FS_EmptySet
  <2> QED BY <2>1, <2>2, <2>4, <2>5 DEF Agrees, BadValue, Twice
<1>2. \A i \in 1 .. Len(line) : i - 1 \in S => i \in S
  BY StepAgrees
<1>3. 0 \in S
  BY <1>1
<1>4. Len(line) \in Nat /\ \A i \in S : Agrees(p, line, F, i)
  OBVIOUS
<1> HIDE DEF S
<1> QED BY <1>2, <1>3, <1>4, Induction

\* A refusal lasts, so a line that is accepted was never refused.
LEMMA NeverRefused ==
    ASSUME NEW p \in Parser, NEW line, DOMAIN line = 1 .. Len(line), Len(line) \in Nat,
           ~Gather(p, line).refused
    PROVE  \A i \in 0 .. Len(line) :
              IsGathered(Gathered(p, line)[i]) /\ ~Gathered(p, line)[i].refused
<1> DEFINE n == Len(line)
           w == Gathered(p, line)
           Good == {i \in 0 .. n : IsGathered(w[i])}
           Kept == {j \in 0 .. n : ~w[n - j].refused}
<1>1. w[0] = Nothing /\ \A i \in 1 .. n : w[i] = Take(p, w[i - 1], line[i])
  BY GatheredIs
<1>2. n \in Nat /\ ~w[n].refused
  BY DEF Gather
<1> HIDE DEF n, w
<1>3. ASSUME NEW i \in 1 .. n, IsGathered(w[i - 1])
      PROVE  IsGathered(w[i]) /\ (w[i - 1].refused => w[i].refused)
  <2>1. w[i] = Take(p, w[i - 1], line[i])
    BY <1>1
  <2> QED BY <1>3, <2>1, TakeIs
<1>4. \A i \in 0 .. n : IsGathered(w[i])
  <2>1. 0 \in Good
    <3>1. IsGathered(Nothing)
      BY DEF Nothing, IsGathered
    <3> QED BY <1>1, <1>2, <3>1
  <2>2. \A i \in 1 .. n : i - 1 \in Good => i \in Good
    BY <1>2, <1>3
  <2>3. \A i \in Good : IsGathered(w[i])
    OBVIOUS
  <2> HIDE DEF Good
  <2> QED BY <1>2, <2>1, <2>2, <2>3, Induction
<1>5. \A i \in 0 .. n : ~w[i].refused
  <2>1. 0 \in Kept
    BY <1>2
  <2>2. \A j \in 1 .. n : j - 1 \in Kept => j \in Kept
    <3> SUFFICES ASSUME NEW j \in 1 .. n, j - 1 \in Kept PROVE j \in Kept
      OBVIOUS
    <3>1. n - j + 1 \in 1 .. n /\ (n - j + 1) - 1 = n - j /\ n - (j - 1) = n - j + 1
          /\ n - j \in 0 .. n /\ j \in 0 .. n
      BY <1>2
    <3>2. ~w[n - j + 1].refused
      BY <3>1
    <3>3. w[n - j].refused => w[n - j + 1].refused
      BY <1>3, <1>4, <3>1
    <3> QED BY <3>1, <3>2, <3>3
  <2>3. \A j \in Kept : ~w[n - j].refused
    OBVIOUS
  <2> HIDE DEF Kept
  <2>4. \A j \in 0 .. n : ~w[n - j].refused
    BY <1>2, <2>1, <2>2, <2>3, Induction
  <2>5. \A i \in 0 .. n : n - i \in 0 .. n /\ n - (n - i) = i
    BY <1>2
  <2> QED BY <2>4, <2>5
<1> QED BY <1>4, <1>5 DEF n, w

\* The loop finds a reading.
LEMMA FindsReading ==
    ASSUME NEW p \in Parser, NEW line, DOMAIN line = 1 .. Len(line), Len(line) \in Nat,
           Complete(Gather(p, line))
    PROVE  \E F : Reads(p, line, F) /\ Len(line) \notin F
<1> DEFINE n == Len(line)
           w == Gathered(p, line)
           F == {i \in 1 .. n : w[i].waits # NoFlag}
<1>1. w[0] = Nothing /\ \A i \in 1 .. n : w[i] = Take(p, w[i - 1], line[i])
  BY GatheredIs
<1>2. \A i \in 0 .. n : IsGathered(w[i]) /\ ~w[i].refused
  BY NeverRefused DEF Complete
<1>3. n \in Nat /\ DOMAIN line = 1 .. n /\ w[n].waits = NoFlag /\ w[0].waits = NoFlag
  BY <1>1 DEF Complete, Gather, Nothing
<1> HIDE DEF n, w
<1>4. ASSUME NEW i \in 1 .. n
      PROVE  /\ w[i - 1].waits # NoFlag => w[i].waits = NoFlag
             /\ w[i].waits # NoFlag => line[i] \in ValueFlags[p]
             /\ w[i - 1].waits = NoFlag /\ w[i].waits = NoFlag =>
                   line[i] \in Switches[p] \/ (p = "node_run_llm" /\ ~Dashed(line[i]))
  <2>1. w[i] = Take(p, w[i - 1], line[i]) /\ IsGathered(w[i - 1]) /\ ~w[i].refused
    <3>1. i - 1 \in 0 .. n /\ i \in 0 .. n
      BY <1>3
    <3> QED BY <1>1, <1>2, <3>1
  <2>2. NoFlag \notin ValueFlags[p]
    BY FlagsAre
  <2> QED BY <2>1, <2>2, TakeIs
<1>5. \A i \in 1 .. n : i \in F <=> w[i].waits # NoFlag
  OBVIOUS
<1>6. F \subseteq 1 .. n
  OBVIOUS
<1> HIDE DEF F
<1>7. ValuesOf(F) \cap F = {}
  <2> SUFFICES ASSUME NEW k \in F, k + 1 \in F PROVE FALSE
    BY DEF ValuesOf
  <2>1. k + 1 \in 1 .. n /\ (k + 1) - 1 = k /\ k \in 1 .. n
    BY <1>3, <1>6
  <2> QED BY <1>4, <1>5, <2>1
<1>8. \A k \in F : line[k] \in ValueFlags[p]
  BY <1>4, <1>5, <1>6
<1>9. ASSUME NEW k \in RestOf(line, F)
      PROVE  line[k] \in Switches[p] \/ (p = "node_run_llm" /\ ~Dashed(line[k]))
  <2>1. k \in 1 .. n /\ k \notin F /\ k \notin ValuesOf(F)
    BY <1>3 DEF RestOf
  <2>2. k - 1 \notin F
    BY <2>1 DEF ValuesOf
  <2>3. w[k - 1].waits = NoFlag
    <3>1. CASE k = 1
      BY <1>3, <3>1
    <3>2. CASE k # 1
      <4>1. k - 1 \in 1 .. n
        BY <1>3, <2>1, <3>2
      <4> QED BY <1>5, <2>2, <4>1
    <3> QED BY <3>1, <3>2
  <2> QED BY <1>4, <1>5, <2>1, <2>3
<1>10. Reads(p, line, F)
  BY <1>3, <1>6, <1>7, <1>8, <1>9 DEF Reads
<1>11. n \notin F
  BY <1>3, <1>5, <1>6
<1> QED BY <1>10, <1>11 DEF n

\* What a command line that was gathered whole has.
Supplies(p, g) ==
    /\ Complete(g) /\ "--vendor" \in DOMAIN g.given
    /\ IF p = "node_run_llm" THEN g.positional = 3
       ELSE Cardinality({"--prompt", "--from-stdin"} \cap DOMAIN g.given) = 1

\* A reading divides the line exactly if the loop was supplied.
LEMMA ReadingDivides ==
    ASSUME NEW p \in Parser, NEW line, DOMAIN line = 1 .. Len(line), Len(line) \in Nat,
           NEW F, Reads(p, line, F), Len(line) \notin F
    PROVE  Supplies(p, Gather(p, line)) <=> Divides(p, line, F)
<1> DEFINE n == Len(line)
           g == Gather(p, line)
           options == OptionsOf(p, line, F)
           rest == RestOf(line, F)
           values == ValuesOf(F)
           found == {line[k] : k \in options}
<1>1. F \subseteq 1 .. n /\ n \notin F /\ n \in Nat
  BY DEF Reads
<1>2. TakenBy(p, line, F, n) = options /\ PlainBy(p, line, F, n) = rest \ options
  <2>1. \A k \in options \cup rest : k \in 1 .. n
    BY <1>1 DEF OptionsOf, RestOf
  <2>2. \A k \in options : TakenAt(F, k) <= n
    BY <1>1, <2>1 DEF TakenAt
  <2> QED BY <2>1, <2>2 DEF TakenBy, PlainBy
<1>3. BadValue(line, F, n) <=> \E k \in F : ~ValidValue(line[k], line[k + 1])
  BY <1>1 DEF BadValue
<1>4. values \subseteq DOMAIN line /\ values \cap F = {}
  BY <1>1 DEF ValuesOf, Reads
<1>5. /\ IsGathered(g) /\ g.waits = NoFlag /\ DOMAIN g.given = found
      /\ g.positional = Cardinality(rest \ options)
      /\ g.refused <=> (\E k \in F : ~ValidValue(line[k], line[k + 1])) \/ Twice(line, options)
  <2>1. Agrees(p, line, F, n)
    BY <1>1, LoopAgrees
  <2> QED BY <1>1, <1>2, <1>3, <2>1 DEF Agrees, Gather
<1>6. "--vendor" \in found <=> "--vendor" \in {line[k] : k \in F}
  BY FlagsAre DEF OptionsOf
<1>7. /\ \A k \in rest : line[k] \in Switches[p] \/ (p = "node_run_llm" /\ ~Dashed(line[k]))
      /\ p = "node_run_llm" => Switches[p] = {}
      /\ \A k \in rest : k \in options <=> line[k] \in Switches[p]
  <2>1. \A k \in rest : k \notin F
    BY DEF RestOf
  <2> QED BY <2>1, FlagsAre DEF Reads, OptionsOf
<1>8. Divides(p, line, F) <=>
         /\ values \subseteq DOMAIN line /\ values \cap F = {}
         /\ \A k \in F : ValidValue(line[k], line[k + 1])
         /\ \A k, l \in options : line[k] = line[l] => k = l
         /\ {"--vendor"} \subseteq {line[k] : k \in F}
         /\ IF p = "node_run_llm"
            THEN Cardinality(rest) = 3 /\ \A k \in rest : ~Dashed(line[k])
            ELSE /\ rest \subseteq options
                 /\ Cardinality(found \cap {"--prompt", "--from-stdin"}) = 1
  BY DEF Divides, OptionsOf, RestOf, ValuesOf
<1>9. Twice(line, options) <=> ~(\A k, l \in options : line[k] = line[l] => k = l)
  BY DEF Twice
<1> HIDE DEF n, g, options, rest, values, found
<1>10. p = "node_run_llm" =>
         rest \ options = rest /\ \A k \in rest : ~Dashed(line[k])
  BY <1>7
<1>11. p # "node_run_llm" => rest \subseteq options
  BY <1>7
<1>12. {"--prompt", "--from-stdin"} \cap DOMAIN g.given = found \cap {"--prompt", "--from-stdin"}
  BY <1>5
<1>13. Complete(g) <=> /\ \A k \in F : ValidValue(line[k], line[k + 1])
                       /\ \A k, l \in options : line[k] = line[l] => k = l
  BY <1>5, <1>9 DEF Complete
<1>14. "--vendor" \in DOMAIN g.given <=> {"--vendor"} \subseteq {line[k] : k \in F}
  BY <1>5, <1>6
<1>15. g.positional = Cardinality(rest \ options)
  BY <1>5
<1>16. CASE p = "node_run_llm"
  <2>1. Supplies(p, g) <=>
           Complete(g) /\ "--vendor" \in DOMAIN g.given /\ g.positional = 3
    BY <1>16 DEF Supplies
  <2> QED BY <1>4, <1>8, <1>10, <1>13, <1>14, <1>15, <1>16, <2>1 DEF g
<1>17. CASE p # "node_run_llm"
  <2>1. Supplies(p, g) <=>
           /\ Complete(g) /\ "--vendor" \in DOMAIN g.given
           /\ Cardinality({"--prompt", "--from-stdin"} \cap DOMAIN g.given) = 1
    BY <1>17 DEF Supplies
  <2> QED BY <1>4, <1>8, <1>11, <1>12, <1>13, <1>14, <1>17, <2>1 DEF g
<1> QED BY <1>16, <1>17

\* A division is a reading that the loop can follow.
LEMMA DivisionReads ==
    ASSUME NEW p \in Parser, NEW line, DOMAIN line = 1 .. Len(line), Len(line) \in Nat,
           NEW F \in SUBSET FlagLike(p, line), Divides(p, line, F)
    PROVE  Reads(p, line, F) /\ Len(line) \notin F
<1>1. ValuesOf(F) \subseteq DOMAIN line /\ ValuesOf(F) \cap F = {}
  BY DEF Divides, ValuesOf
<1>2. IF p = "node_run_llm"
      THEN \A k \in RestOf(line, F) : ~Dashed(line[k])
      ELSE RestOf(line, F) \subseteq OptionsOf(p, line, F)
  BY DEF Divides, ValuesOf, RestOf, OptionsOf
<1>3. F \in SUBSET DOMAIN line /\ \A k \in F : line[k] \in ValueFlags[p]
  BY DEF FlagLike
<1>4. \A k \in RestOf(line, F) :
         line[k] \in Switches[p] \/ (p = "node_run_llm" /\ ~Dashed(line[k]))
  BY <1>2 DEF RestOf, OptionsOf
<1>5. Len(line) \notin F
  BY <1>1 DEF ValuesOf
<1> QED BY <1>1, <1>3, <1>4, <1>5 DEF Reads

\* The loop and the usage agree.
LEMMA LoopIsUsage ==
    ASSUME NEW p \in Parser, NEW line, DOMAIN line = 1 .. Len(line), Len(line) \in Nat
    PROVE  Supplies(p, Gather(p, line)) <=> Divisible(p, line)
<1>1. ASSUME Supplies(p, Gather(p, line)) PROVE Divisible(p, line)
  <2>1. PICK F : Reads(p, line, F) /\ Len(line) \notin F
    BY <1>1, FindsReading DEF Supplies
  <2>2. Divides(p, line, F)
    BY <1>1, <2>1, ReadingDivides
  <2>3. F \in SUBSET FlagLike(p, line)
    BY <2>1 DEF Reads, FlagLike
  <2> QED BY <2>2, <2>3 DEF Divisible
<1>2. ASSUME Divisible(p, line) PROVE Supplies(p, Gather(p, line))
  <2>1. PICK F \in SUBSET FlagLike(p, line) : Divides(p, line, F)
    BY <1>2 DEF Divisible
  <2>2. Reads(p, line, F) /\ Len(line) \notin F
    BY <2>1, DivisionReads
  <2> QED BY <2>1, <2>2, ReadingDivides
<1> QED BY <1>1, <1>2

\* The first separator, and what is before it.
LEMMA SeparatorIs ==
    ASSUME NEW line \in Seq(STRING), Separator \in Range(line)
    PROVE  /\ SeparatorAt(line) \in 1 .. Len(line)
           /\ Len(Before(line)) = SeparatorAt(line) - 1
           /\ Len(Before(line)) \in Nat
           /\ DOMAIN Before(line) = 1 .. Len(Before(line))
<1> DEFINE S == {i \in DOMAIN line : line[i] = Separator}
           First(i) == line[i] = Separator /\ \A j \in 1 .. (i - 1) : line[j] # Separator
           mark == SeparatorAt(line)
<1>1. DOMAIN line = 1 .. Len(line) /\ Len(line) \in Nat
  BY LenProperties
<1>2. \E i \in DOMAIN line : First(i)
  <2>1. S # {} /\ S \in SUBSET Nat
    BY <1>1 DEF Range
  <2>2. PICK i \in S : \A j \in S : i <= j
    <3> HIDE DEF S
    <3> QED BY <2>1, Least
  <2>3. \A j \in 1 .. (i - 1) : j \in DOMAIN line /\ ~(i <= j)
    BY <1>1, <2>2
  <2> QED BY <2>2, <2>3
<1>3. mark = CHOOSE i \in DOMAIN line : First(i)
  BY DEF SeparatorAt
<1>4. mark \in 1 .. Len(line)
  <2> HIDE DEF First, mark
  <2> QED BY <1>1, <1>2, <1>3
<1>5. Before(line) = SubSeq(line, 1, mark - 1)
  BY DEF Before
<1> HIDE DEF mark
<1>6. mark - 1 \in 0 .. Len(line) /\ mark \in Nat
  BY <1>1, <1>4
<1>7. SubSeq(line, 1, mark - 1) \in Seq(STRING) /\ Len(SubSeq(line, 1, mark - 1)) = mark - 1
  <2> DEFINE m == mark - 1
  <2>1. m \in 0 .. Len(line) /\ m \in Int
    BY <1>1, <1>6
  <2>2. \A i \in 1 .. m : line[i] \in STRING
    BY <1>1, <2>1
  <2> HIDE DEF m
  <2>3. SubSeq(line, 1, m) \in Seq(STRING)
        /\ Len(SubSeq(line, 1, m)) = IF 1 <= m THEN m - 1 + 1 ELSE 0
    BY <1>1, <2>1, <2>2, SubSeqProperties
  <2> QED BY <2>1, <2>3 DEF m
<1> QED BY <1>1, <1>4, <1>5, <1>6, <1>7, LenProperties DEF mark

\* A program runs on a line exactly if its usage describes the line, and no help flag is on it.
LEMMA ParsesItsUsage ==
    ASSUME NEW p \in {"node_run", "node_run_mcp", "node_run_llm", "model_call",
                      "compute_evidence_id"},
           NEW line \in Seq(STRING)
    PROVE  ParseArgs(p, line) = "ok" <=> WellFormed(p, line) /\ Help \cap Range(line) = {}
<1> DEFINE helps == Help \cap Range(line) # {}
<1>1. DOMAIN line = 1 .. Len(line) /\ Len(line) \in Nat
  BY LenProperties
<1>2. CASE helps
  BY <1>2 DEF ParseArgs
<1>3. CASE ~helps
  <2>1. ASSUME p = "node_run" PROVE ParseArgs(p, line) = "ok" <=> WellFormed(p, line)
    BY <1>3, <2>1 DEF ParseArgs, WellFormed, ParseNodeRun
  <2>2. ASSUME p = "compute_evidence_id" PROVE ParseArgs(p, line) = "ok" <=> WellFormed(p, line)
    <3>1. ParseArgs(p, line) = ParseComputeEvidenceId(line)
      BY <1>3, <2>2 DEF ParseArgs
    <3>2. WellFormed(p, line) <=>
             Len(line) = 3 \/ (Len(line) = 2 /\ line[1] = "--from-file")
      BY <2>2 DEF WellFormed
    <3>3. ParseComputeEvidenceId(line) = "ok" <=>
             Len(line) = 3 \/ (Len(line) = 2 /\ line[1] = "--from-file")
      BY Zenon DEF ParseComputeEvidenceId
    <3> QED BY <3>1, <3>2, <3>3
  <2>3. ASSUME p = "node_run_mcp" PROVE ParseArgs(p, line) = "ok" <=> WellFormed(p, line)
    <3>1. ParseArgs(p, line) = ParseNodeRunMcp(line)
      BY <1>3, <2>3 DEF ParseArgs
    <3>2. WellFormed(p, line) <=> HasSpawn(line) /\ SeparatorAt(line) = 4
      BY <2>3 DEF WellFormed
    <3>3. ParseNodeRunMcp(line) = "ok" <=> HasSpawn(line) /\ Len(Before(line)) = 3
      BY DEF ParseNodeRunMcp
    <3>4. HasSpawn(line) => (Len(Before(line)) = 3 <=> SeparatorAt(line) = 4)
      <4> SUFFICES ASSUME HasSpawn(line)
                   PROVE  Len(Before(line)) = 3 <=> SeparatorAt(line) = 4
        OBVIOUS
      <4> DEFINE before == Len(Before(line))
                 mark == SeparatorAt(line)
      <4>1. mark \in 1 .. Len(line) /\ before = mark - 1
        BY SeparatorIs DEF HasSpawn
      <4> HIDE DEF before, mark
      <4>2. before = 3 <=> mark = 4
        BY <1>1, <4>1
      <4> QED BY <4>2 DEF before, mark
    <3> QED BY <3>1, <3>2, <3>3, <3>4
  <2>4. ASSUME p = "node_run_llm" PROVE ParseArgs(p, line) = "ok" <=> WellFormed(p, line)
    <3>1. ParseArgs(p, line) = ParseNodeRunLlm(line)
      BY <1>3, <2>4 DEF ParseArgs
    <3>2. WellFormed(p, line) <=> HasSpawn(line) /\ Divisible(p, Before(line))
      BY <2>4 DEF WellFormed
    <3>3. ParseNodeRunLlm(line) = "ok" <=>
             HasSpawn(line) /\ Supplies(p, Gather(p, Before(line)))
      BY <2>4 DEF ParseNodeRunLlm, Supplies
    <3>4. HasSpawn(line) =>
             (Supplies(p, Gather(p, Before(line))) <=> Divisible(p, Before(line)))
      BY <2>4, SeparatorIs, LoopIsUsage DEF HasSpawn, Parser
    <3> QED BY <3>1, <3>2, <3>3, <3>4
  <2>5. ASSUME p = "model_call" PROVE ParseArgs(p, line) = "ok" <=> WellFormed(p, line)
    <3>1. ParseArgs(p, line) = ParseModelCall(line)
      BY <1>3, <2>5 DEF ParseArgs
    <3>2. WellFormed(p, line) <=> Divisible(p, line)
      BY <2>5 DEF WellFormed
    <3>3. ParseModelCall(line) = "ok" <=> Supplies(p, Gather(p, line))
      BY <2>5 DEF ParseModelCall, Supplies
    <3>4. Supplies(p, Gather(p, line)) <=> Divisible(p, line)
      BY <1>1, <2>5, LoopIsUsage DEF Parser
    <3> QED BY <3>1, <3>2, <3>3, <3>4
  <2> QED BY <1>3, <2>1, <2>2, <2>3, <2>4, <2>5
<1> QED BY <1>2, <1>3

\* An invocation keeps its program and its command line, and runs a known program.
HostInv ==
    /\ DOMAIN at = Invocation
    /\ \A i \in Invocation :
          argv[i] \in Seq(STRING) /\ (at[i] # "idle" => program[i] \in DOMAIN Script)

\* Every argv is answered.
LEMMA Outcomes ==
    ASSUME NEW p \in DOMAIN Script, NEW line
    PROVE  ParseArgs(p, line) \in {"ok", "help", "usage", "error"}
<1>1. p \in {"node_run", "node_run_mcp", "node_run_llm", "model_call", "compute_evidence_id"}
  BY DEF Script
<1>2. ParseComputeEvidenceId(line) \in {"ok", "usage"}
  BY Zenon DEF ParseComputeEvidenceId
<1>3. /\ ParseNodeRun(line) \in {"ok", "usage"}
      /\ ParseNodeRunMcp(line) \in {"ok", "error"}
      /\ ParseNodeRunLlm(line) \in {"ok", "error"}
      /\ ParseModelCall(line) \in {"ok", "error"}
  BY DEF ParseNodeRun, ParseNodeRunMcp, ParseNodeRunLlm, ParseModelCall
<1> QED BY <1>1, <1>2, <1>3 DEF ParseArgs

LEMMA HostInvInductive == HostInv /\ [HostNext]_hostVars => HostInv'
<1> SUFFICES ASSUME HostInv, [HostNext]_hostVars PROVE HostInv'
  OBVIOUS
<1>1. CASE MillisecondPasses \/ UNCHANGED hostVars
  BY <1>1 DEF MillisecondPasses, hostVars, process, HostInv
<1>2. ASSUME NEW i \in Invocation, Start(i)
      PROVE  HostInv'
  BY <1>2 DEF Start, HostInv
<1>3. ASSUME NEW i \in Invocation, Parse(i) \/ HostStep(i) \/ AgentRetires(i)
      PROVE  /\ at[i] # "idle" /\ UNCHANGED <<program, argv>>
             /\ at' = at \/ \E next : at' = [at EXCEPT ![i] = next]
  <2>1. CASE Parse(i)
    <3>1. at[i] = "args" /\ UNCHANGED <<program, argv>>
      BY <2>1 DEF Parse
    <3>2. ParseArgs(program[i], argv[i]) \in {"ok", "help", "usage", "error"}
      BY <3>1, Outcomes DEF HostInv
    <3>3. Advance(i) \/ \E c : ExitWith(i, c)
      BY <2>1, <3>2 DEF Parse
    <3> QED BY <3>1, <3>3 DEF Advance, ExitWith
  <2>2. CASE AgentRetires(i) \/ SleepEnds(i) \/ SendLine(i)
    BY <2>2 DEF AgentRetires, Advance, SleepEnds, SendLine, Feeding
  <2>3. CASE Abort(i) \/ CheckFeatures(i) \/ Load(i) \/ Stamp(i) \/ ResolveFsRoot(i)
    BY <2>3 DEF Abort, Fallible, CheckFeatures, Load, Stamp, ResolveFsRoot, Advance, ExitWith
  <2>4. CASE Open(i) \/ Connect(i) \/ Register(i) \/ BuildClient(i)
    BY <2>4 DEF Open, Connect, Register, BuildClient, Advance, ExitWith
  <2>5. CASE Join(i) \/ Shutdown(i) \/ PrintTree(i) \/ ReadPrompt(i) \/ Dispatch(i)
    BY <2>5 DEF Join, Shutdown, PrintTree, ReadPrompt, Dispatch, Advance
  <2>6. CASE Compute(i)
    BY <2>6 DEF Compute, Advance, ExitWith
  <2> QED BY <1>3, <2>1, <2>2, <2>3, <2>4, <2>5, <2>6 DEF HostStep
<1>4. ASSUME NEW i \in Invocation, Parse(i) \/ HostStep(i) \/ AgentRetires(i)
      PROVE  HostInv'
  BY <1>3, <1>4 DEF HostInv
<1> QED BY <1>1, <1>2, <1>4 DEF HostNext

\* Every program of crates/coral_node/src/bin runs on exactly the command lines its
\* USAGE describes, however long and in whatever order their flags are, and answers a
\* help flag before all else: the one pass of parse_args misses nothing that a reading
\* of the whole line would find.
THEOREM UsageIsAccepted == HostSpec => []AcceptsItsUsage
<1>1. HostInit => HostInv
  BY ArgvAssumption DEF HostInit, HostInv
<1>2. HostInv => AcceptsItsUsage
  <2>1. DOMAIN Script = {"node_run", "node_run_mcp", "node_run_llm", "model_call",
                         "compute_evidence_id"}
    BY DEF Script
  <2> QED BY <2>1, ParsesItsUsage DEF HostInv, AcceptsItsUsage
<1> QED BY <1>1, <1>2, HostInvInductive, PTL DEF HostSpec

-----------------------------------------------------------------------------
(* The daemons.                                                            *)

Binaries == {"none", "worker", "smoke"}
Mains == {"off", "boot", "serving", "draining", "joining", "exited"}
Drivers == {"idle", "start", "signal", "await_loop", "start_chain", "await_chain", "done"}
Loops == {"none", "warmup", "racing", "activities", "start_child", "completed", "failed"}
Providers == {"cohere", "anthropic"}

DaemonTypes ==
    /\ daemon \in Binaries /\ (main = "off" <=> daemon = "none")
    /\ booted \in Nat /\ main \in Mains /\ status \in Nat /\ keys \subseteq Providers
    /\ driver \in Drivers /\ outcome \in {"none", "ok", "error"} /\ loop \in Loops

\* What is installed is what has been booted, in the order of the code; the default
\* provider is one that has a key.
BootInv ==
    /\ main = "off" => booted = 0
    /\ main \in {"boot", "serving", "draining"} /\ daemon = "worker" =>
          /\ booted \in 0 .. Len(Boot["worker"])
          /\ installed = {Boot["worker"][i] : i \in 1 .. booted} \cap Handle
    /\ main = "off" => installed = {}
    /\ main = "serving" => booted = Len(Boot[daemon])
    /\ main = "joining" => daemon = "smoke"
    /\ main = "draining" /\ daemon = "worker" => booted = Len(Boot["worker"])
    /\ "decide" \in installed => default \in Available
    /\ status # Panic

\* The driver is never ahead of the workflows it has waited for.
SmokeInv ==
    /\ driver # "idle" => daemon = "smoke" /\ booted = Len(Boot["smoke"])
    /\ driver \in {"idle", "start"} => loop = "none" /\ race = "none"
    /\ loop = "completed" => child
    /\ driver \in {"start_chain", "await_chain"} \/ outcome = "ok" =>
          loop = "completed" /\ race = "signal"
    /\ outcome = "ok" => chain = 4
    /\ driver = "done" <=> outcome # "none"
    /\ main = "exited" /\ status = 0 /\ daemon = "smoke" => outcome = "ok" /\ ~died

DaemonInv == DaemonTypes /\ BootInv /\ SmokeInv

LEMMA BootOrder ==
    /\ Len(Boot["worker"]) = 13 /\ Len(Boot["smoke"]) = 4
    /\ DOMAIN Boot["worker"] = 1 .. 13 /\ DOMAIN Boot["smoke"] = 1 .. 4
    /\ \A i \in 1 .. 13, j \in 1 .. 13 : Boot["worker"][i] = Boot["worker"][j] => i = j
    /\ \A i \in 1 .. 4 : Boot["smoke"][i] \notin Handle
    /\ \A i \in 1 .. 4 : Boot["smoke"][i] = "driver" => i = 4
    /\ \A i \in 1 .. 13 : Boot["worker"][i] # "driver"
    /\ Handle \subseteq {Boot["worker"][i] : i \in 1 .. 13}
BY DEF Boot, Handle

LEMMA BootingFacts ==
    ASSUME DaemonInv, NEW step, Booting(step)
    PROVE  /\ main = "boot" /\ booted \in Nat /\ booted + 1 \in DOMAIN Boot[daemon]
           /\ Boot[daemon][booted + 1] = step /\ daemon \in {"worker", "smoke"}
           /\ daemon = "worker" => booted + 1 \in 1 .. 13
           /\ daemon = "smoke" => step \notin Handle
           /\ step \notin installed \/ step \notin Handle
           /\ driver = "idle"
           /\ step = "driver" => daemon = "smoke" /\ booted = 3
<1>1. /\ main = "boot" /\ booted \in Nat /\ daemon \in {"worker", "smoke"}
      /\ booted < Len(Boot[daemon]) /\ Boot[daemon][booted + 1] = step
  BY DEF Booting, DaemonInv, DaemonTypes, Binaries
<1>2. DOMAIN Boot[daemon] = 1 .. Len(Boot[daemon]) /\ Len(Boot[daemon]) \in Nat
  <2>1. CASE daemon = "worker"
    BY <2>1, BootOrder
  <2>2. CASE daemon = "smoke"
    BY <2>2, BootOrder
  <2> QED BY <1>1, <2>1, <2>2
<1>3. booted + 1 \in 1 .. Len(Boot[daemon])
  BY <1>1, <1>2
<1>4. CASE daemon = "worker"
  <2>1. /\ booted + 1 \in 1 .. 13 /\ Boot["worker"][booted + 1] = step
        /\ installed = {Boot["worker"][i] : i \in 1 .. booted} \cap Handle
    BY <1>1, <1>3, <1>4, BootOrder DEF DaemonInv, BootInv
  <2>2. \A i \in 1 .. booted : i \in 1 .. 13 /\ i # booted + 1
    BY <2>1, <1>1
  <2>3. step \notin installed
    BY <2>1, <2>2, BootOrder
  <2>4. driver = "idle"
    BY <1>4 DEF DaemonInv, SmokeInv
  <2> QED BY <1>1, <1>3, <1>4, <2>1, <2>3, <2>4, BootOrder
<1>5. CASE daemon = "smoke"
  <2>1. booted + 1 \in 1 .. 4 /\ Boot["smoke"][booted + 1] = step
    BY <1>1, <1>3, <1>5, BootOrder
  <2>2. driver = "idle"
    BY <1>1, <1>5, BootOrder DEF DaemonInv, SmokeInv
  <2> QED BY <1>1, <1>3, <1>5, <2>1, <2>2, BootOrder
<1> QED BY <1>1, <1>4, <1>5

\* A step of the boot installs its own handle, if it has one, and nothing else.
LEMMA BootGoesOn ==
    ASSUME DaemonInv, NEW step, Booting(step), booted' = booted + 1, UNCHANGED <<daemon, main>>,
           installed' = installed \cup ({step} \cap Handle)
    PROVE  /\ booted' \in Nat
           /\ daemon = "worker" => /\ booted' \in 0 .. Len(Boot["worker"])
                                   /\ installed' = {Boot["worker"][i] : i \in 1 .. booted'} \cap Handle
<1>1. /\ main = "boot" /\ booted \in Nat
      /\ daemon = "worker" => booted + 1 \in 1 .. 13 /\ Boot["worker"][booted + 1] = step
  BY BootingFacts
<1>2. ASSUME daemon = "worker"
      PROVE  installed' = {Boot["worker"][i] : i \in 1 .. booted'} \cap Handle
  <2>1. installed = {Boot["worker"][i] : i \in 1 .. booted} \cap Handle
    BY <1>1, <1>2 DEF DaemonInv, BootInv
  <2>2. 1 .. booted' = (1 .. booted) \cup {booted + 1}
    BY <1>1
  <2>3. {Boot["worker"][i] : i \in 1 .. booted'} = {Boot["worker"][i] : i \in 1 .. booted} \cup {step}
    BY <1>1, <1>2, <2>2
  <2> QED BY <2>1, <2>3
<1> QED BY <1>1, <1>2, BootOrder

\* The boot leaves alone what only the smoke's driver and workflows change.
LEMMA BootStepInv == ASSUME DaemonInv, BootStep PROVE DaemonInv'
<1> USE DEF DaemonInv
<1>1. ASSUME NEW handle \in Handle, Install(handle) PROVE DaemonInv'
  <2>1. Booting(handle) /\ handle # "decide" /\ handle \notin installed
        /\ main = "boot" /\ daemon \in {"worker", "smoke"}
    BY <1>1, BootingFacts DEF Install
  <2>2. /\ booted' = booted + 1 /\ installed' = installed \cup ({handle} \cap Handle)
        /\ UNCHANGED <<main, status>>
        /\ UNCHANGED <<environment, default, running, interrupt, died, smokeVars>>
    BY <1>1, <2>1 DEF Install, Done
  <2>3. DaemonTypes'
    BY <2>1, <2>2, BootGoesOn DEF DaemonTypes, environment, smokeVars
  <2>4. BootInv'
    BY <2>1, <2>2, BootGoesOn DEF BootInv, environment, Available
  <2>5. SmokeInv'
    BY <2>1, <2>2, BootingFacts DEF SmokeInv, environment, smokeVars
  <2> QED BY <2>3, <2>4, <2>5
<1>2. CASE InstallDecide
  <2>1. /\ Booting("decide") /\ main = "boot" /\ daemon \in {"worker", "smoke"}
        /\ "decide" \notin installed /\ "decide" \in Handle
    BY <1>2, BootingFacts DEF InstallDecide, Handle
  <2>2. /\ UNCHANGED <<environment, running, interrupt, died, smokeVars>>
        /\ \/ /\ Available = {} /\ main' = "exited" /\ status' = 1
              /\ UNCHANGED <<booted, installed, default>>
           \/ /\ Available # {} /\ booted' = booted + 1 /\ UNCHANGED <<main, status>>
              /\ installed' = installed \cup ({"decide"} \cap Handle) /\ default' = Preferred
    BY <1>2, <2>1 DEF InstallDecide, Fail, Exit, Done
  <2>3. Available # {} => Preferred \in Available
    BY DEF Available, Preferred, DaemonTypes, Providers
  <2>4. DaemonTypes'
    BY <2>1, <2>2, BootGoesOn DEF DaemonTypes, environment, smokeVars, Mains
  <2>5. BootInv'
    BY <2>1, <2>2, <2>3, BootGoesOn DEF BootInv, environment, Available, Panic
  <2>6. SmokeInv'
    BY <2>1, <2>2, BootingFacts DEF SmokeInv, environment, smokeVars
  <2> QED BY <2>4, <2>5, <2>6
<1>3. CASE RequireDatabaseUrl \/ Reach
  <2>1. PICK step \in {"database_url", "open_storage", "connect_db", "runtime", "client",
                       "build_worker"} :
          /\ Booting(step)
          /\ UNCHANGED <<environment, installed, default, running, interrupt, died, smokeVars>>
          /\ Done \/ Fail(1)
    BY <1>3 DEF RequireDatabaseUrl, Reach
  <2>2. main = "boot" /\ daemon \in {"worker", "smoke"} /\ {step} \cap Handle = {}
    BY <2>1, BootingFacts DEF Handle
  <2>3. \/ main' = "exited" /\ status' = 1 /\ UNCHANGED booted
        \/ booted' = booted + 1 /\ UNCHANGED <<main, status>>
    BY <2>1 DEF Done, Fail, Exit
  <2>4. installed' = installed \cup ({step} \cap Handle) /\ UNCHANGED daemon
    BY <2>1, <2>2 DEF environment
  <2>5. DaemonTypes'
    BY <2>1, <2>2, <2>3, <2>4, BootGoesOn DEF DaemonTypes, environment, smokeVars, Mains
  <2>6. BootInv'
    BY <2>1, <2>2, <2>3, <2>4, BootGoesOn DEF BootInv, environment, Available, Panic
  <2>7. SmokeInv'
    BY <2>1, <2>2, <2>3, BootingFacts DEF SmokeInv, environment, smokeVars
  <2> QED BY <2>5, <2>6, <2>7
<1>4. CASE SpawnTask
  <2>1. PICK step \in {"reaper", "ctrl_c", "driver"} : Booting(step)
    BY <1>4 DEF SpawnTask
  <2>2. /\ main = "boot" /\ daemon \in {"worker", "smoke"} /\ {step} \cap Handle = {}
        /\ booted' = booted + 1 /\ UNCHANGED <<main, status>>
        /\ driver' = IF Booting("driver") THEN "start" ELSE driver
        /\ UNCHANGED <<environment, installed, default, running, interrupt, died>>
        /\ UNCHANGED <<outcome, loop, signalled, timedOut, race, child, chain>>
    BY <1>4, <2>1, BootingFacts DEF SpawnTask, Done, Handle
  <2>3. installed' = installed \cup ({step} \cap Handle) /\ UNCHANGED daemon
    BY <2>2 DEF environment
  <2>4. /\ driver = "idle"
        /\ Booting("driver") => daemon = "smoke" /\ booted' = Len(Boot["smoke"])
    BY <2>1, <2>2, BootingFacts, BootOrder
  <2>5. DaemonTypes'
    BY <2>1, <2>2, <2>3, BootGoesOn DEF DaemonTypes, environment, Drivers
  <2>6. BootInv'
    BY <2>1, <2>2, <2>3, BootGoesOn DEF BootInv, environment, Available
  <2>7. SmokeInv'
    BY <2>1, <2>2, <2>4, BootingFacts DEF SmokeInv, environment
  <2> QED BY <2>5, <2>6, <2>7
<1>5. CASE Serve
  BY <1>5, BootOrder
  DEF Serve, DaemonTypes, BootInv, SmokeInv, environment, workerState, smokeVars, Mains, Available
<1> QED BY <1>1, <1>2, <1>3, <1>4, <1>5 DEF BootStep

\* Serving and shutting down, and the ways a process ends.
LEMMA ServeStepInv ==
    ASSUME DaemonInv,
           \/ \E activity \in Activities : BeginActivity(activity)
           \/ ServeStep \/ CtrlC \/ WorkerDies
    PROVE  DaemonInv'
<1> USE DEF DaemonInv
<1>1. ASSUME NEW activity \in Activities, BeginActivity(activity) PROVE DaemonInv'
  <2>1. Needs(activity) \subseteq Handle
    BY DEF Activities, Needs, Handle
  <2>2. installed = {Boot["worker"][i] : i \in 1 .. 13} \cap Handle
    BY <1>1, BootOrder DEF BeginActivity, BootInv
  <2>3. Needs(activity) \subseteq installed
    BY <2>1, <2>2, BootOrder
  <2>4. /\ UNCHANGED <<main, status>>
        /\ UNCHANGED <<environment, booted, installed, default, interrupt, died, smokeVars>>
    BY <1>1, <2>3 DEF BeginActivity
  <2> QED BY <2>4 DEF DaemonTypes, BootInv, SmokeInv, environment, smokeVars, Available
<1>2. CASE EndActivity
  BY <1>2 DEF EndActivity, DaemonTypes, BootInv, SmokeInv, environment, smokeVars, Available
<1>3. CASE WorkerReturns
  BY <1>3
  DEF WorkerReturns, Over, Exit, DaemonTypes, BootInv, SmokeInv, environment, workerState,
      smokeVars, Available, Mains, Binaries, Panic
<1>4. CASE JoinDriver
  BY <1>4
  DEF JoinDriver, Exit, DaemonTypes, BootInv, SmokeInv, environment, workerState, smokeVars,
      Available, Mains, Panic
<1>5. CASE CtrlC
  <2>1. /\ main \notin {"off", "exited"}
        /\ UNCHANGED <<environment, booted, installed, default, running, died, smokeVars>>
        /\ \/ HasHandler /\ main' = "draining" /\ UNCHANGED status
           \/ main' = "exited" /\ status' = 130
    BY <1>5 DEF CtrlC, Exit, Killed
  <2>2. main' = "draining" => daemon = "worker" /\ booted = Len(Boot["worker"])
    BY <2>1 DEF HasHandler
  <2>3. DaemonTypes'
    BY <2>1 DEF DaemonTypes, environment, smokeVars, Mains
  <2>4. BootInv'
    <3>1. /\ status' # Panic /\ UNCHANGED <<daemon, booted, installed, default, Available>>
          /\ main' \in {"draining", "exited"}
      BY <2>1 DEF environment, BootInv, Panic, Available
    <3>2. CASE main' = "exited"
      BY <3>1, <3>2 DEF BootInv
    <3>3. CASE main' = "draining"
      <4>1. main \in {"boot", "serving", "draining"} /\ daemon = "worker"
        BY <2>1, <2>2, <3>3 DEF BootInv, DaemonTypes, Mains
      <4> QED BY <2>2, <3>1, <3>3, <4>1 DEF BootInv
    <3> QED BY <3>1, <3>2, <3>3
  <2>5. SmokeInv'
    BY <2>1 DEF SmokeInv, environment, smokeVars
  <2> QED BY <2>3, <2>4, <2>5
<1>6. CASE WorkerDies
  BY <1>6
  DEF WorkerDies, Over, Exit, DaemonTypes, BootInv, SmokeInv, environment, smokeVars,
      Available, Mains, Binaries, Panic
<1> QED BY <1>1, <1>2, <1>3, <1>4, <1>5, <1>6 DEF ServeStep

\* The driver, in its order, and the workflows it waits for.
LEMMA DriverStepInv == ASSUME DaemonInv, DriverStep \/ GetResultFails PROVE DaemonInv'
<1> USE DEF DaemonInv
<1>1. /\ Driving /\ UNCHANGED <<environment, workerState, status>>
      /\ main' = main \/ (main \in {"boot", "serving"} /\ main' = "draining")
      /\ driver' \in Drivers /\ outcome' \in {"none", "ok", "error"} /\ loop' \in Loops
      /\ driver \notin {"idle", "done"}
  BY DEF DriverStep, StartLoop, SignalLoop, AwaitLoop, StartChain, AwaitChain, GetResultFails,
         Call, Return, DaemonTypes, Drivers, Loops, environment, workerState, Driving
<1>2. DaemonTypes'
  BY <1>1 DEF DaemonTypes, Driving, environment, workerState, Mains
<1>3. BootInv'
  BY <1>1 DEF BootInv, Driving, environment, workerState, Available
<1>4. CASE StartLoop
  BY <1>1, <1>2, <1>3, <1>4 DEF StartLoop, Call, Return, SmokeInv, environment, workerState, Driving
<1>5. CASE SignalLoop
  BY <1>1, <1>2, <1>3, <1>5 DEF SignalLoop, Call, Return, SmokeInv, environment, workerState, Driving
<1>6. CASE AwaitLoop
  BY <1>1, <1>2, <1>3, <1>6
  DEF AwaitLoop, RaceAsExpected, Return, SmokeInv, environment, workerState, Driving
<1>7. CASE StartChain
  BY <1>1, <1>2, <1>3, <1>7 DEF StartChain, Call, Return, SmokeInv, environment, workerState, Driving
<1>8. CASE AwaitChain
  BY <1>1, <1>2, <1>3, <1>8 DEF AwaitChain, Return, SmokeInv, environment, workerState, Driving
<1>9. CASE GetResultFails
  BY <1>1, <1>2, <1>3, <1>9
  DEF GetResultFails, Return, SmokeInv, environment, workerState, Driving
<1> QED BY <1>2, <1>3, <1>4, <1>5, <1>6, <1>7, <1>8, <1>9 DEF DriverStep

LEMMA WorkflowStepInv == ASSUME DaemonInv, WorkflowStep PROVE DaemonInv'
<1> USE DEF DaemonInv
<1>1. UNCHANGED <<workerVars, driver, outcome>> /\ loop' \in Loops
  BY DEF WorkflowStep, WarmUp, RaceTimerFires, Race, RunActivities, StartChild, ContinueAsNew,
         LoopStep, DaemonTypes, Loops
<1>2. DaemonTypes' /\ BootInv'
  BY <1>1 DEF DaemonTypes, BootInv, workerVars, environment, workerState, Available
<1>3. CASE WarmUp \/ Race \/ RunActivities
  BY <1>1, <1>2, <1>3
  DEF WarmUp, Race, RunActivities, LoopStep, SmokeInv, workerVars, environment, workerState
<1>4. CASE RaceTimerFires
  BY <1>1, <1>2, <1>4 DEF RaceTimerFires, SmokeInv, workerVars, environment, workerState
<1>5. CASE StartChild
  BY <1>1, <1>2, <1>5 DEF StartChild, LoopStep, SmokeInv, workerVars, environment, workerState
<1>6. CASE ContinueAsNew
  BY <1>1, <1>2, <1>6 DEF ContinueAsNew, SmokeInv, workerVars, environment, workerState
<1> QED BY <1>2, <1>3, <1>4, <1>5, <1>6 DEF WorkflowStep

LEMMA StartDaemonInv ==
    ASSUME DaemonInv, NEW binary \in {"worker", "smoke"}, NEW providers \in SUBSET Providers,
           NEW hasUrl, StartDaemon(binary, providers, hasUrl)
    PROVE  DaemonInv'
<1> USE DEF DaemonInv
<1>1. /\ main = "off" /\ daemon' = binary /\ keys' = providers /\ main' = "boot"
      /\ UNCHANGED <<workerState, status, smokeVars>>
  BY DEF StartDaemon
<1>2. {Boot["worker"][i] : i \in 1 .. 0} = {}
  OBVIOUS
<1>3. BootInv'
  <2>1. /\ booted = 0 /\ installed = {} /\ status # Panic
    BY <1>1 DEF BootInv
  <2>2. booted' = 0 /\ installed' = {} /\ status' # Panic
    BY <1>1, <2>1 DEF workerState
  <2>3. 0 \in 0 .. Len(Boot["worker"])
    BY BootOrder
  <2> QED BY <1>1, <1>2, <2>2, <2>3 DEF BootInv
<1>4. DaemonTypes' /\ SmokeInv'
  BY <1>1, BootOrder DEF DaemonTypes, SmokeInv, workerState, smokeVars, Binaries, Mains
<1> QED BY <1>3, <1>4

LEMMA DaemonStep == ASSUME DaemonInv, [DaemonNext]_daemonVars PROVE DaemonInv'
<1>1. CASE UNCHANGED daemonVars
  BY <1>1
  DEF daemonVars, workerVars, workerState, environment, smokeVars, DaemonInv, DaemonTypes,
      BootInv, SmokeInv, Available
<1>2. ASSUME NEW binary \in {"worker", "smoke"}, NEW providers \in SUBSET Providers, NEW hasUrl,
             StartDaemon(binary, providers, hasUrl)
      PROVE  DaemonInv'
  BY <1>2, StartDaemonInv
<1>3. {} \in SUBSET Providers
  OBVIOUS
<1> QED BY <1>1, <1>2, <1>3, BootStepInv, ServeStepInv, DriverStepInv, WorkflowStepInv
    DEF DaemonNext, Providers

\* The handles are installed once each and before anything is served, so that no
\* getter and no second install panics: "every install must happen before worker.run"
\* (worker.rs); and an agent that names no provider gets one that can answer.
ReadyToServe ==
    /\ main = "exited" => status # Panic
    /\ daemon = "worker" /\ main \in {"serving", "draining"} =>
          Handle \subseteq installed /\ default \in Available

\* Exit code 0 of the smoke is earned, wherever an error, an interrupt or the death
\* of its worker falls; and no activity of the worker meets a handle that is not there.
THEOREM ExitsAreEarned == DaemonSpec => [](SuccessIsEarned /\ ReadyToServe)
<1>1. DaemonInit => DaemonInv
  <2>1. {Boot["worker"][i] : i \in 1 .. 0} = {}
    OBVIOUS
  <2> QED BY <2>1, BootOrder
    DEF DaemonInit, DaemonInv, DaemonTypes, BootInv, SmokeInv, Binaries, Mains, Drivers, Loops,
        Panic
<1>2. DaemonInv /\ [DaemonNext]_daemonVars => DaemonInv'
  BY DaemonStep
<1>3. DaemonInv => SuccessIsEarned /\ ReadyToServe
  <2> SUFFICES ASSUME DaemonInv PROVE SuccessIsEarned /\ ReadyToServe
    OBVIOUS
  <2>1. SuccessIsEarned
    BY DEF SuccessIsEarned, DaemonInv, SmokeInv
  <2>2. ASSUME daemon = "worker", main \in {"serving", "draining"}
        PROVE  Handle \subseteq installed
    BY <2>2, BootOrder DEF DaemonInv, BootInv
  <2>3. "decide" \in Handle
    BY DEF Handle
  <2> QED BY <2>1, <2>2, <2>3 DEF ReadyToServe, DaemonInv, BootInv
<1> QED BY <1>1, <1>2, <1>3, PTL DEF DaemonSpec

-----------------------------------------------------------------------------
(* The walk of a document.                                                 *)

Position == {n \in Seq(Nat) : n # <<>>}

\* Precedes is a strict order of the positions of a file, and a total one.
LEMMA PrecedesIsStrict ==
    ASSUME NEW a \in Position, NEW b \in Position, NEW c \in Position
    PROVE  /\ ~Precedes(a, a)
           /\ Precedes(a, b) /\ Precedes(b, c) => Precedes(a, c)
<1>1. /\ Len(a) \in Nat /\ Len(b) \in Nat /\ Len(c) \in Nat
      /\ DOMAIN a = 1 .. Len(a) /\ DOMAIN b = 1 .. Len(b) /\ DOMAIN c = 1 .. Len(c)
      /\ \A j \in DOMAIN a : a[j] \in Nat
      /\ \A j \in DOMAIN b : b[j] \in Nat
      /\ \A j \in DOMAIN c : c[j] \in Nat
  BY DEF Position
<1>2. ~Precedes(a, a)
  BY <1>1 DEF Precedes, Above, LeftOf
<1>3. ASSUME Above(a, b), Above(b, c) PROVE Precedes(a, c)
  BY <1>1, <1>3 DEF Precedes, Above
<1>4. ASSUME Above(a, b), LeftOf(b, c) PROVE Precedes(a, c)
  <2>1. PICK j \in DOMAIN b \cap DOMAIN c : b[j] < c[j] /\ \A h \in 1 .. j - 1 : b[h] = c[h]
    BY <1>4 DEF LeftOf
  <2>2. CASE j \in DOMAIN a
    <3>1. j \in DOMAIN a \cap DOMAIN c /\ a[j] = b[j]
      BY <1>4, <2>1, <2>2 DEF Above
    <3>2. \A h \in 1 .. j - 1 : a[h] = c[h]
      BY <1>1, <1>4, <2>1, <2>2 DEF Above
    <3> QED BY <2>1, <3>1, <3>2 DEF Precedes, LeftOf
  <2>3. CASE j \notin DOMAIN a
    <3>1. Len(a) < j /\ j <= Len(c)
      BY <1>1, <2>1, <2>3
    <3>2. \A h \in DOMAIN a : h \in 1 .. j - 1 /\ a[h] = b[h]
      BY <1>1, <1>4, <3>1 DEF Above
    <3> QED BY <1>1, <2>1, <3>1, <3>2 DEF Precedes, Above
  <2> QED BY <2>2, <2>3
<1>5. ASSUME LeftOf(a, b), Above(b, c) PROVE Precedes(a, c)
  <2>1. PICK j \in DOMAIN a \cap DOMAIN b : a[j] < b[j] /\ \A h \in 1 .. j - 1 : a[h] = b[h]
    BY <1>5 DEF LeftOf
  <2>2. j \in DOMAIN a \cap DOMAIN c /\ b[j] = c[j] /\ \A h \in 1 .. j - 1 : b[h] = c[h]
    BY <1>1, <1>5, <2>1 DEF Above
  <2> QED BY <2>1, <2>2 DEF Precedes, LeftOf
<1>6. ASSUME LeftOf(a, b), LeftOf(b, c) PROVE Precedes(a, c)
  <2>1. PICK j \in DOMAIN a \cap DOMAIN b : a[j] < b[j] /\ \A h \in 1 .. j - 1 : a[h] = b[h]
    BY <1>6 DEF LeftOf
  <2>2. PICK i \in DOMAIN b \cap DOMAIN c : b[i] < c[i] /\ \A h \in 1 .. i - 1 : b[h] = c[h]
    BY <1>6 DEF LeftOf
  <2>3. CASE j < i
    <3>1. j \in DOMAIN a \cap DOMAIN c /\ b[j] = c[j]
      BY <1>1, <2>1, <2>2, <2>3
    <3>2. \A h \in 1 .. j - 1 : a[h] = c[h]
      BY <1>1, <2>1, <2>2, <2>3
    <3> QED BY <2>1, <3>1, <3>2 DEF Precedes, LeftOf
  <2>4. CASE i < j
    <3>1. i \in DOMAIN a \cap DOMAIN c /\ a[i] = b[i]
      BY <1>1, <2>1, <2>2, <2>4
    <3>2. \A h \in 1 .. i - 1 : a[h] = c[h]
      BY <1>1, <2>1, <2>2, <2>4
    <3> QED BY <2>2, <3>1, <3>2 DEF Precedes, LeftOf
  <2>5. CASE i = j
    <3>1. i \in DOMAIN a \cap DOMAIN c /\ a[i] < c[i]
      BY <1>1, <2>1, <2>2, <2>5
    <3>2. \A h \in 1 .. i - 1 : a[h] = c[h]
      BY <2>1, <2>2, <2>5
    <3> QED BY <3>1, <3>2 DEF Precedes, LeftOf
  <2> QED BY <1>1, <2>1, <2>2, <2>3, <2>4, <2>5
<1> QED BY <1>2, <1>3, <1>4, <1>5, <1>6 DEF Precedes

LEMMA PrecedesIsTotal ==
    ASSUME NEW a \in Position, NEW b \in Position, a # b
    PROVE  Precedes(a, b) \/ Precedes(b, a)
<1>1. /\ Len(a) \in Nat /\ Len(b) \in Nat
      /\ DOMAIN a = 1 .. Len(a) /\ DOMAIN b = 1 .. Len(b)
      /\ \A j \in DOMAIN a : a[j] \in Nat
      /\ \A j \in DOMAIN b : b[j] \in Nat
  BY DEF Position
<1> DEFINE D == {j \in DOMAIN a \cap DOMAIN b : a[j] # b[j]}
<1>2. CASE D = {}
  <2>1. \A j \in DOMAIN a \cap DOMAIN b : a[j] = b[j]
    BY <1>2
  <2>2. CASE Len(a) = Len(b)
    <3>1. a \in Seq(Nat) /\ b \in Seq(Nat)
      BY DEF Position
    <3>2. \A j \in 1 .. Len(a) : a[j] = b[j]
      BY <1>1, <2>1, <2>2
    <3> QED BY <2>2, <3>1, <3>2, SeqEqual
  <2>3. ASSUME Len(a) < Len(b) PROVE Above(a, b)
    BY <1>1, <2>1, <2>3 DEF Above
  <2>4. ASSUME Len(b) < Len(a) PROVE Above(b, a)
    <3>1. \A j \in DOMAIN b : b[j] = a[j]
      BY <1>1, <2>1, <2>4
    <3> QED BY <2>4, <3>1 DEF Above
  <2>5. Len(a) < Len(b) \/ Len(b) < Len(a) \/ Len(a) = Len(b)
    <3>1. Len(a) \in Nat /\ Len(b) \in Nat
      BY <1>1
    <3> QED BY <3>1
  <2> QED BY <2>2, <2>3, <2>4, <2>5, Zenon DEF Precedes
<1>3. CASE D # {}
  <2>1. D \in SUBSET Nat
    BY <1>1
  <2>2. PICK least \in D : \A other \in D : least <= other
    BY <1>3, <2>1, Least
  <2>3. \A h \in 1 .. least - 1 : h \in DOMAIN a \cap DOMAIN b /\ h \notin D
    BY <1>1, <2>2
  <2>4. \A h \in 1 .. least - 1 : a[h] = b[h] /\ b[h] = a[h]
    BY <2>3
  <2>5. a[least] < b[least] \/ b[least] < a[least]
    BY <1>1, <2>2
  <2>6. least \in DOMAIN a \cap DOMAIN b
    BY <2>2
  <2>7. LeftOf(a, b) \/ LeftOf(b, a)
    <3> HIDE DEF D
    <3> QED BY <2>4, <2>5, <2>6 DEF LeftOf
  <2> QED BY <2>7 DEF Precedes
<1> QED BY <1>2, <1>3

LEMMA RankOrders ==
    ASSUME NEW g, IsGraphYaml(g), NEW n \in Nodes(g)
    PROVE  /\ Rank(g, n) \in 1 .. Cardinality(Nodes(g))
           /\ \A m \in Nodes(g) : Precedes(m, n) => Rank(g, m) < Rank(g, n)
<1> DEFINE Earlier(x) == {m \in Nodes(g) : Precedes(m, x)}
<1>1. IsFiniteSet(Nodes(g)) /\ \A x \in Nodes(g) : x \in Position
  BY DEF IsGraphYaml, Position
<1>2. /\ IsFiniteSet(Nodes(g) \ {n})
      /\ Cardinality(Nodes(g) \ {n}) = Cardinality(Nodes(g)) - 1
      /\ Cardinality(Nodes(g)) \in Nat
  BY <1>1, FS_RemoveElement, FS_CardinalityType
<1>3. \A x \in Nodes(g) : IsFiniteSet(Earlier(x)) /\ Cardinality(Earlier(x)) \in Nat
  BY <1>1, FS_Subset, FS_CardinalityType
<1>4. Earlier(n) \in SUBSET (Nodes(g) \ {n})
  BY <1>1, PrecedesIsStrict
<1>5. Cardinality(Earlier(n)) <= Cardinality(Nodes(g)) - 1
  BY <1>2, <1>4, FS_Subset
<1>6. Rank(g, n) \in 1 .. Cardinality(Nodes(g))
  BY <1>2, <1>3, <1>5 DEF Rank
<1>7. ASSUME NEW m \in Nodes(g), Precedes(m, n) PROVE Rank(g, m) < Rank(g, n)
  <2>1. Earlier(m) \in SUBSET Earlier(n)
    BY <1>1, <1>7, PrecedesIsStrict
  <2>2. m \in Earlier(n) /\ m \notin Earlier(m)
    BY <1>1, <1>7, PrecedesIsStrict
  <2>3. Earlier(m) # Earlier(n)
    BY <2>2
  <2>4. Cardinality(Earlier(m)) < Cardinality(Earlier(n))
    <3> HIDE DEF Earlier
    <3> QED BY <1>3, <2>1, <2>3, FS_Subset
  <2> QED BY <1>3, <2>4 DEF Rank
<1> QED BY <1>6, <1>7

\* The walk visits every agent of the file once, and a parent before its children.
LEMMA WalkOrder ==
    ASSUME NEW g, IsGraphYaml(g)
    PROVE  LET order == Preorder(g)
               size == Cardinality(Nodes(g))
           IN  /\ size \in Nat /\ DOMAIN order = 1 .. size
               /\ \A i \in 1 .. size : order[i] \in Nodes(g)
               /\ \A i \in 1 .. size, j \in 1 .. size : order[i] = order[j] => i = j
               /\ \A n \in Nodes(g) : \E i \in 1 .. size : order[i] = n
               /\ \A i \in 1 .. size : Len(order[i]) > 1 =>
                     \E j \in 1 .. i - 1 : order[j] = Front(order[i])
<1> DEFINE order == Preorder(g)
           size == Cardinality(Nodes(g))
           rank == [n \in Nodes(g) |-> Rank(g, n)]
<1>1. IsFiniteSet(Nodes(g)) /\ size \in Nat /\ \A x \in Nodes(g) : x \in Position
  BY FS_CardinalityType DEF IsGraphYaml, Position
<1>2. IsFiniteSet(1 .. size) /\ Cardinality(1 .. size) = size
  BY <1>1, FS_Interval
<1>3. \A m \in Nodes(g), n \in Nodes(g) : Rank(g, m) = Rank(g, n) => m = n
  <2> SUFFICES ASSUME NEW m \in Nodes(g), NEW n \in Nodes(g), m # n
               PROVE  Rank(g, m) # Rank(g, n)
    OBVIOUS
  <2>1. Rank(g, m) < Rank(g, n) \/ Rank(g, n) < Rank(g, m)
    BY <1>1, PrecedesIsTotal, RankOrders
  <2>2. Rank(g, m) \in Nat /\ Rank(g, n) \in Nat
    BY <1>1, RankOrders
  <2> QED BY <2>1, <2>2
<1>4. rank \in Injection(Nodes(g), 1 .. size)
  <2>1. rank \in [Nodes(g) -> 1 .. size]
    BY RankOrders
  <2>2. \A m, n \in Nodes(g) : rank[m] = rank[n] => m = n
    BY <1>3
  <2> HIDE DEF rank
  <2> QED BY <2>1, <2>2 DEF Injection, IsInjective
<1>5. rank \in Surjection(Nodes(g), 1 .. size)
  BY <1>1, <1>2, <1>4, FS_Injection
<1>6. \A i \in 1 .. size : \E n \in Nodes(g) : Rank(g, n) = i
  BY <1>5 DEF Surjection
<1>7. \A i \in 1 .. size : order[i] \in Nodes(g) /\ Rank(g, order[i]) = i
  BY <1>6 DEF Preorder
<1>8. \A n \in Nodes(g) : Rank(g, n) \in 1 .. size /\ order[Rank(g, n)] = n
  BY <1>3, <1>7, RankOrders
<1>9. ASSUME NEW i \in 1 .. size, Len(order[i]) > 1
      PROVE  \E j \in 1 .. i - 1 : order[j] = Front(order[i])
  <2> DEFINE n == order[i]
             m == Front(n)
  <2>1. n \in Nodes(g) /\ n \in Position /\ Rank(g, n) = i /\ m \in Nodes(g)
    BY <1>1, <1>7, <1>9 DEF IsGraphYaml
  <2>2. Above(m, n)
    <3> HIDE DEF n
    <3> QED BY <1>9, <2>1 DEF Above, Front, Position, n
  <2>3. Rank(g, m) < i /\ Rank(g, m) \in 1 .. size
    BY <2>1, <2>2, RankOrders DEF Precedes
  <2>4. Rank(g, m) \in 1 .. i - 1
    BY <1>1, <2>3
  <2> QED BY <1>8, <2>1, <2>4
<1>10. DOMAIN order = 1 .. size
  BY DEF Preorder
<1> HIDE DEF rank
<1> QED BY <1>1, <1>7, <1>8, <1>9, <1>10

-----------------------------------------------------------------------------
(* What a document that passes the checks is like, and what is derived.    *)

LEMMA NoError ==
    ASSUME NEW verdicts, DOMAIN verdicts \subseteq Nat, FirstError(verdicts) = "Ok"
    PROVE  \A i \in DOMAIN verdicts : verdicts[i] = "Ok"
<1> DEFINE wrong == {i \in DOMAIN verdicts : verdicts[i] # "Ok"}
<1>1. wrong \in SUBSET Nat
  OBVIOUS
<1>2. ASSUME wrong # {} PROVE FALSE
  <2>1. PICK least \in wrong : \A other \in wrong : least <= other
    BY <1>1, <1>2, Least
  <2>2. Min(wrong) \in wrong
    BY <2>1 DEF Min
  <2> QED BY <1>2, <2>2 DEF FirstError
<1> QED BY <1>2

LEMMA CheckIs == ASSUME NEW wrong, NEW error, error # "Ok"
                 PROVE  Check(wrong, error) = "Ok" => ~wrong
BY DEF Check

LEMMA ValidIs ==
    ASSUME NEW g, IsGraphYaml(g), ParseAndValidate(g) = "Ok"
    PROVE  /\ Nodes(g) # {} /\ g.triggers # <<>>
           /\ \A n \in Nodes(g) : ResolvesMandate(g, n)
           /\ \A m \in Nodes(g), n \in Nodes(g) : g.id[m] = g.id[n] => m = n
           /\ \A t \in DOMAIN g.triggers : \E n \in Nodes(g) : g.id[n] = g.triggers[t].agent
<1> DEFINE order == Preorder(g)
           size == Cardinality(Nodes(g))
           all == << Check(g.api # "v1alpha1", "UnsupportedApiVersion"),
                     Check(g.kind # "Graph", "UnsupportedKind"),
                     Check(g.name \notin SafeName, "InvalidName"),
                     Check(Nodes(g) = {}, "NoAgents"),
                     ValidateTools(g), ValidateAgentTree(g),
                     Check(g.triggers = <<>>, "EmptySeedTriggers"),
                     ValidateTriggers(g) >>
<1>1. Validate(g) = "Ok"
  BY DEF ParseAndValidate
<1>2. /\ Check(Nodes(g) = {}, "NoAgents") = "Ok" /\ ValidateAgentTree(g) = "Ok"
      /\ Check(g.triggers = <<>>, "EmptySeedTriggers") = "Ok" /\ ValidateTriggers(g) = "Ok"
  <2>1. FirstError(all) = "Ok"
    BY <1>1 DEF Validate
  <2>2. /\ DOMAIN all = 1 .. 8
        /\ all[4] = Check(Nodes(g) = {}, "NoAgents") /\ all[6] = ValidateAgentTree(g)
        /\ all[7] = Check(g.triggers = <<>>, "EmptySeedTriggers")
        /\ all[8] = ValidateTriggers(g)
    OBVIOUS
  <2>3. \A i \in DOMAIN all : all[i] = "Ok"
    <3> HIDE DEF all
    <3> QED BY <2>1, <2>2, NoError
  <2> HIDE DEF all
  <2> QED BY <2>2, <2>3
<1>3. Nodes(g) # {} /\ g.triggers # <<>>
  BY <1>2, CheckIs
<1>4. \A i \in 1 .. size : ValidateAgent(g, order, i) = "Ok"
  <2> DEFINE each == [i \in DOMAIN order |-> ValidateAgent(g, order, i)]
  <2>1. DOMAIN each = 1 .. size /\ size \in Nat
    BY WalkOrder
  <2>2. FirstError(each) = "Ok"
    BY <1>2 DEF ValidateAgentTree
  <2>3. \A i \in DOMAIN each : each[i] = "Ok"
    <3> HIDE DEF each
    <3> QED BY <2>1, <2>2, NoError
  <2> QED BY <2>1, <2>3
<1>5. ASSUME NEW i \in 1 .. size
      PROVE  /\ ~ \E j \in 1 .. i - 1 : g.id[order[j]] = g.id[order[i]]
             /\ ResolvesMandate(g, order[i])
  <2> DEFINE twice == \E j \in 1 .. i - 1 : g.id[order[j]] = g.id[order[i]]
             bare == g.cadence[order[i]] = Absent /\ g.default = Absent
             five == << Check(\E m \in Nodes(g) : m = ParentOf(order[i])
                                                  /\ g.id[m] = g.id[order[i]], "CyclicChildren"),
                        Check(g.id[order[i]] \notin SafeName, "InvalidName"),
                        Check(twice, "DuplicateAgentId"),
                        Check(bare, "MissingMandateIdlePeriod"),
                        Check(~ g.grants[order[i]] \subseteq Registered(g),
                              "UnknownToolReference") >>
  <2>1. FirstError(five) = "Ok"
    BY <1>4 DEF ValidateAgent
  <2>2. /\ DOMAIN five = 1 .. 5 /\ five[3] = Check(twice, "DuplicateAgentId")
        /\ five[4] = Check(bare, "MissingMandateIdlePeriod")
    OBVIOUS
  <2>3. \A j \in DOMAIN five : five[j] = "Ok"
    <3> HIDE DEF five
    <3> QED BY <2>1, <2>2, NoError
  <2>4. ~twice /\ ~bare
    <3> HIDE DEF five, twice, bare
    <3> QED BY <2>2, <2>3, CheckIs
  <2> QED BY <2>4 DEF ResolvesMandate
<1>6. \A i \in 1 .. size, j \in 1 .. size : g.id[order[i]] = g.id[order[j]] => i = j
  <2> SUFFICES ASSUME NEW i \in 1 .. size, NEW j \in 1 .. size, i # j
               PROVE  g.id[order[i]] # g.id[order[j]]
    OBVIOUS
  <2>1. i \in 1 .. j - 1 \/ j \in 1 .. i - 1
    BY WalkOrder
  <2> QED BY <1>5, <2>1
<1>7. ASSUME NEW t \in DOMAIN g.triggers
      PROVE  \E n \in Nodes(g) : g.id[n] = g.triggers[t].agent
  <2> DEFINE unknown == g.triggers[t].agent \notin Range(g.id)
             two == << Check(unknown, "UnknownTriggerAgent"),
                       Check(g.triggers[t].at # "start", "UnsupportedTriggerAt") >>
             each == [i \in DOMAIN g.triggers |-> FirstError(
                        << Check(g.triggers[i].agent \notin Range(g.id), "UnknownTriggerAgent"),
                           Check(g.triggers[i].at # "start", "UnsupportedTriggerAt") >>)]
  <2>1. FirstError(each) = "Ok"
    BY <1>2 DEF ValidateTriggers
  <2>2. DOMAIN each \subseteq Nat
    BY DEF IsGraphYaml
  <2>3. each[t] = "Ok"
    <3>1. t \in DOMAIN each
      OBVIOUS
    <3> HIDE DEF each
    <3> QED BY <2>1, <2>2, <3>1, NoError
  <2>4. FirstError(two) = "Ok"
    BY <2>3
  <2>5. DOMAIN two = 1 .. 2 /\ two[1] = Check(unknown, "UnknownTriggerAgent")
    OBVIOUS
  <2>6. two[1] = "Ok"
    <3> HIDE DEF two
    <3> QED BY <2>4, <2>5, NoError
  <2>7. ~unknown
    <3> HIDE DEF two, unknown
    <3> QED BY <2>5, <2>6, CheckIs
  <2> QED BY <2>7 DEF Range, Nodes
<1> QED BY <1>3, <1>5, <1>6, <1>7, WalkOrder

Up(i, n) == IF ParentOf(n) = Absent THEN Absent ELSE <<i, ParentOf(n)>>

\* What coral-apply has of agent n of its document.
StartOf(i, n) ==
    [workflow |-> <<i, n>>, agent |-> <<i, n>>, mandate |-> ResolveMandate(doc[i], n),
     parent |-> Up(i, n)]

WalkAt(i, j) ==
    LET n == Preorder(doc[i])[j]
    IN  [operator_id |-> doc[i].id[n], agent |-> <<i, n>>, parent |-> Up(i, n)]

Good(i) == IsGraphYaml(doc[i]) /\ ParseAndValidate(doc[i]) = "Ok"
Size(i) == Cardinality(Nodes(doc[i]))

LEMMA Singles == ASSUME NEW r \in Nat PROVE Max({r}) = r /\ Min({r}) = r
BY DEF Max, Min

\* Every id of a valid file is one agent's, so each map holds that agent.
LEMMA Lookups ==
    ASSUME NEW i \in Apply, Good(i), NEW n \in Nodes(doc[i])
    PROVE  /\ IdMap(Walk(i), doc[i].id[n]) = <<i, n>>
           /\ OperatorId(Walk(i), <<i, n>>) = doc[i].id[n]
           /\ IndexAgents(doc[i], doc[i].id[n]) = n
<1> DEFINE g == doc[i]
           order == Preorder(g)
<1>1. /\ IsGraphYaml(g) /\ Size(i) \in Nat
      /\ \A x \in Nodes(g), y \in Nodes(g) : g.id[x] = g.id[y] => x = y
  BY ValidIs, WalkOrder DEF Good, Size
<1>2. /\ DOMAIN order = 1 .. Size(i) /\ \A j \in 1 .. Size(i) : order[j] \in Nodes(g)
      /\ \A j \in 1 .. Size(i), k \in 1 .. Size(i) : order[j] = order[k] => j = k
  BY <1>1, WalkOrder DEF Size
<1>3. PICK r \in 1 .. Size(i) : order[r] = n
  BY <1>1, WalkOrder DEF Size
<1>4. DOMAIN Walk(i) = 1 .. Size(i) /\ \A j \in 1 .. Size(i) : Walk(i)[j] = WalkAt(i, j)
  BY <1>2 DEF Walk, WalkAt, Up
<1> HIDE DEF g, order
<1>5. \A j \in 1 .. Size(i) : g.id[order[j]] = g.id[n] <=> j = r
  BY <1>1, <1>2, <1>3
<1>6. \A j \in 1 .. Size(i) : /\ Walk(i)[j].operator_id = g.id[order[j]]
                              /\ Walk(i)[j].agent = <<i, order[j]>>
  BY <1>4 DEF WalkAt, g, order
<1>7. {j \in DOMAIN Walk(i) : Walk(i)[j].operator_id = g.id[n]} = {r}
  BY <1>4, <1>5, <1>6
<1>8. {j \in DOMAIN Walk(i) : Walk(i)[j].agent = <<i, n>>} = {r}
  BY <1>2, <1>3, <1>4, <1>6
<1>9. {j \in DOMAIN order : g.id[order[j]] = g.id[n]} = {r}
  BY <1>2, <1>5
<1>10. Max({r}) = r /\ Min({r}) = r
  BY <1>1, Singles
<1> QED BY <1>3, <1>6, <1>7, <1>8, <1>9, <1>10
        DEF IdMap, OperatorId, IndexAgents, g, order

\* The parent of an agent of the file is an agent of the file.
LEMMA UpIs ==
    ASSUME NEW i \in Apply, Good(i), NEW n \in Nodes(doc[i]), DocAssumption, doc[i] \in Docs
    PROVE  /\ Up(i, n) = Absent <=> Len(n) = 1
           /\ Len(n) # 1 => ParentOf(n) \in Nodes(doc[i]) /\ Up(i, n) = <<i, ParentOf(n)>>
<1>1. n \in Position /\ (Len(n) > 1 => Front(n) \in Nodes(doc[i]))
  BY DEF Good, IsGraphYaml, Position
<1>2. Len(n) \in Nat /\ Len(n) # 0
  BY <1>1 DEF Position
<1>3. \A m \in Nodes(doc[i]) : m # Absent /\ Absent # <<i, m>>
  BY DEF DocAssumption, IsGraphYaml
<1>4. ASSUME Len(n) # 1 PROVE ParentOf(n) = Front(n) /\ Front(n) \in Nodes(doc[i])
  <2>1. Len(n) \in Nat /\ Len(n) # 0 /\ Len(n) # 1
    BY <1>2, <1>4, Zenon
  <2>2. \A l \in Nat : l # 0 /\ l # 1 => l > 1
    OBVIOUS
  <2>3. Len(n) > 1
    BY <2>1, <2>2, Zenon
  <2>4. ParentOf(n) = Front(n)
    BY <1>4, Zenon DEF ParentOf
  <2> QED BY <1>1, <2>3, <2>4
<1>5. Len(n) = 1 => ParentOf(n) = Absent
  BY DEF ParentOf
<1>6. CASE Len(n) = 1
  <2>1. Up(i, n) = Absent
    BY <1>5, <1>6 DEF Up
  <2> QED BY <1>6, <2>1
<1>7. CASE Len(n) # 1
  <2>1. ParentOf(n) \in Nodes(doc[i]) /\ ParentOf(n) # Absent
    BY <1>3, <1>4, <1>7
  <2>2. Up(i, n) = <<i, ParentOf(n)>> /\ Up(i, n) # Absent
    BY <1>3, <2>1 DEF Up
  <2> QED BY <1>7, <2>1, <2>2
<1> QED BY <1>6, <1>7

\* What build_workflow_starts and yaml_seed_triggers make of the walk.
LEMMA Derived ==
    ASSUME NEW i \in Apply, Good(i), DocAssumption, doc[i] \in Docs
    PROVE  LET order == Preorder(doc[i])
               all == BuildWorkflowStarts(doc[i], Walk(i))
               seeds == YamlSeedTriggers(doc[i], Walk(i))
           IN  /\ DOMAIN all = 1 .. Size(i) /\ Len(all) = Size(i)
               /\ \A j \in 1 .. Size(i) : all[j] = StartOf(i, order[j])
               /\ Len(doc[i].triggers) \in Nat \ {0}
               /\ DOMAIN seeds = 1 .. Len(doc[i].triggers)
               /\ Len(seeds) = Len(doc[i].triggers)
               /\ \A t \in DOMAIN seeds :
                    /\ seeds[t].trigger = t
                    /\ \E n \in Nodes(doc[i]) : /\ doc[i].id[n] = doc[i].triggers[t].agent
                                                /\ seeds[t].workflow = <<i, n>>
<1> DEFINE g == doc[i]
           order == Preorder(g)
           all == BuildWorkflowStarts(g, Walk(i))
           seeds == YamlSeedTriggers(g, Walk(i))
<1>1. /\ Size(i) \in Nat /\ DOMAIN order = 1 .. Size(i)
      /\ \A j \in 1 .. Size(i) : order[j] \in Nodes(g)
  BY WalkOrder DEF Good, Size
<1>2. DOMAIN Walk(i) = 1 .. Size(i) /\ \A j \in 1 .. Size(i) : Walk(i)[j] = WalkAt(i, j)
  BY <1>1 DEF Walk, WalkAt, Up
<1>3. DOMAIN all = 1 .. Size(i)
  BY <1>2 DEF BuildWorkflowStarts
<1>4. ASSUME NEW j \in 1 .. Size(i) PROVE all[j] = StartOf(i, order[j])
  <2> DEFINE n == order[j]
  <2>1. n \in Nodes(g)
    BY <1>1
  <2>2. /\ Walk(i)[j].operator_id = g.id[n] /\ Walk(i)[j].agent = <<i, n>>
        /\ Walk(i)[j].parent = Up(i, n)
    BY <1>2 DEF WalkAt
  <2>3. /\ IdMap(Walk(i), g.id[n]) = <<i, n>> /\ IndexAgents(g, g.id[n]) = n
    BY <2>1, Lookups
  <2>4. Up(i, n) # Absent => /\ OperatorId(Walk(i), Up(i, n)) = g.id[ParentOf(n)]
                             /\ IdMap(Walk(i), g.id[ParentOf(n)]) = Up(i, n)
    <3>1. Up(i, n) # Absent => ParentOf(n) \in Nodes(g) /\ Up(i, n) = <<i, ParentOf(n)>>
      BY <2>1, UpIs
    <3> QED BY <3>1, Lookups
  <2>5. all[j] = [workflow |-> IdMap(Walk(i), Walk(i)[j].operator_id),
                  agent    |-> Walk(i)[j].agent,
                  mandate  |-> ResolveMandate(g, IndexAgents(g, Walk(i)[j].operator_id)),
                  parent   |-> IF Walk(i)[j].parent = Absent THEN Absent
                               ELSE IdMap(Walk(i), OperatorId(Walk(i), Walk(i)[j].parent))]
    BY <1>2 DEF BuildWorkflowStarts
  <2>6. (IF Walk(i)[j].parent = Absent THEN Absent
         ELSE IdMap(Walk(i), OperatorId(Walk(i), Walk(i)[j].parent))) = Up(i, n)
    BY <2>2, <2>4
  <2> HIDE DEF all, n
  <2> QED BY <2>2, <2>3, <2>5, <2>6, Zenon DEF StartOf, n
<1>5. Len(g.triggers) \in Nat \ {0} /\ DOMAIN g.triggers = 1 .. Len(g.triggers)
  <2>1. g.triggers \in Seq(Range(g.triggers)) /\ g.triggers # <<>>
    BY ValidIs DEF Good, IsGraphYaml
  <2> QED BY <2>1
<1>6. DOMAIN seeds = 1 .. Len(g.triggers)
  BY <1>5 DEF YamlSeedTriggers
<1>7. ASSUME NEW t \in DOMAIN seeds
      PROVE  /\ seeds[t].trigger = t
             /\ \E n \in Nodes(g) : g.id[n] = g.triggers[t].agent /\ seeds[t].workflow = <<i, n>>
  <2>1. seeds[t] = [workflow |-> IdMap(Walk(i), g.triggers[t].agent), trigger |-> t]
    BY <1>5, <1>6 DEF YamlSeedTriggers
  <2>2. PICK n \in Nodes(g) : g.id[n] = g.triggers[t].agent
    BY <1>5, <1>6, ValidIs DEF Good
  <2>3. IdMap(Walk(i), g.id[n]) = <<i, n>>
    BY <2>2, Lookups
  <2> HIDE DEF seeds
  <2> QED BY <2>1, <2>2, <2>3
<1>8. Len(all) = Size(i)
  BY <1>1, <1>3 DEF BuildWorkflowStarts
<1>9. Len(seeds) = Len(g.triggers)
  BY <1>5, <1>6 DEF YamlSeedTriggers
<1> QED BY <1>3, <1>4, <1>5, <1>6, <1>7, <1>8, <1>9, Zenon

-----------------------------------------------------------------------------
(* The invariants.                                                         *)

AgentAt(i, j) == <<i, Preorder(doc[i])[j]>>

Derives == {"materialize", "seed", "connect", "start", "signal", "done"}
Launches == {"start", "signal", "done", "failed"}

\* An invocation is past the validator with a valid file only, and has what is derived
\* of it when it uses it.
StageOf(i) ==
    /\ doc[i] \in Docs /\ validity[i] = ParseAndValidate(doc[i])
    /\ stage[i] \in {"load", "select", "insert", "walk", "commit", "build", "refused",
                     "invalid", "failed"} \cup Derives
    /\ stage[i] \notin {"load", "invalid", "failed"} => validity[i] = "Ok"
    /\ applied[i] \in {<<>>, Walk(i)}
    /\ stage[i] \in {"commit", "build"} \cup Derives => applied[i] = Walk(i)
    /\ stage[i] \in Derives =>
        /\ starts[i] = BuildWorkflowStarts(doc[i], Walk(i))
        /\ triggers[i] = YamlSeedTriggers(doc[i], Walk(i))
    /\ finished[i] \in Nat
    /\ stage[i] \in {"load", "select", "insert", "walk", "commit", "build", "connect"}
          => finished[i] = 0
    /\ stage[i] \in {"materialize", "seed", "start"} => finished[i] < Size(i)
    /\ stage[i] = "signal" => finished[i] < Len(doc[i].triggers)

StagesInv ==
    /\ DOMAIN doc = Apply /\ DOMAIN validity = Apply /\ DOMAIN stage = Apply
    /\ DOMAIN applied = Apply /\ DOMAIN starts = Apply /\ DOMAIN triggers = Apply
    /\ DOMAIN finished = Apply /\ DOMAIN tx = Apply
    /\ \A i \in Apply : StageOf(i)

NamedOnly(i) == [graphs |-> {GraphRow(i)}, agents |-> {}, edges |-> {}, tools |-> {}]

Holds(i) == GraphRow(i) \in rows.graphs \/ tx[i].graphs # {}

Written(i) ==
    /\ GraphRow(i) \in rows.graphs
    /\ RowsOf(i).agents \subseteq rows.agents /\ RowsOf(i).edges \subseteq rows.edges

\* Every row is one of an invocation's own.
OwnRows ==
    /\ \A g \in rows.graphs : g.id \in Apply /\ g = GraphRow(g.id)
    /\ \A r \in rows.agents : r.graph \in Apply /\ r \in RowsOf(r.graph).agents
    /\ \A e \in rows.edges : \E i \in Apply : e \in RowsOf(i).edges

\* What an invocation has written when, and until when its graph stays.
RowsAt(i) ==
    /\ tx[i] \in {NoRows, NamedOnly(i), RowsOf(i)}
    /\ stage[i] = "walk" => tx[i] = NamedOnly(i)
    /\ stage[i] = "commit" => tx[i] = RowsOf(i)
    /\ stage[i] \notin {"walk", "commit", "failed"} => tx[i] = NoRows
    /\ stage[i] \in {"build"} \cup Derives => Written(i)
    /\ i \in dropped => stage[i] = "failed"

\* One name is held by one graph.
NamesHeld == \A i, j \in Apply : Holds(i) /\ Holds(j) /\ doc[i].name = doc[j].name => i = j

RowsInv == OwnRows /\ NamesHeld /\ \A i \in Apply : RowsAt(i)

Committed(i) == \A n \in Nodes(doc[i]) : commits[<<i, n>>] # <<>>

\* Whoever opens a file system first, an agent's mandate.md is its own, and it is in the
\* first commit, which no tick makes.
FileOf(a) ==
    /\ mandate[a] \in {Absent, a[2]}
    /\ commits[a] \in Seq([mandate : {a[2]}, ticked : BOOLEAN])
    /\ commits[a] # <<>> => commits[a][1] = Baseline(a) /\ mandate[a] = a[2]

FilesAt(i) ==
    /\ stage[i] = "materialize" => \A j \in 1 .. finished[i] : mandate[AgentAt(i, j)] # Absent
    /\ stage[i] = "seed" => /\ \A n \in Nodes(doc[i]) : mandate[<<i, n>>] # Absent
                            /\ \A j \in 1 .. finished[i] : commits[AgentAt(i, j)] # <<>>
    /\ stage[i] \in {"connect", "start", "signal", "done"} => Committed(i)

FilesInv ==
    /\ DOMAIN mandate = Agent /\ DOMAIN commits = Agent
    /\ \A a \in Agent : FileOf(a)
    /\ \A i \in Apply : FilesAt(i)

\* A workflow is one of a graph whose rows and files are written, and its parent's is there.
FlowOf(w) ==
    /\ workflow[w] \in [input : {StartOf(w[1], w[2])},
                        state : {"started", "running", "closed"},
                        queue : Seq(Nat), first : Seq(Nat)]
    /\ workflow[w].state = "started" => workflow[w].first = <<>>
    /\ Up(w[1], w[2]) # Absent => Up(w[1], w[2]) \in DOMAIN workflow
    /\ validity[w[1]] = "Ok" /\ applied[w[1]] = Walk(w[1])
    /\ stage[w[1]] \in Launches
    /\ Committed(w[1])
    /\ w[1] \in dropped \/ Written(w[1])

FlowsAt(i) ==
    /\ stage[i] = "start" => \A j \in 1 .. finished[i] : AgentAt(i, j) \in DOMAIN workflow
    /\ stage[i] \in {"signal", "done"} =>
          \A n \in Nodes(doc[i]) : <<i, n>> \in DOMAIN workflow

FlowsInv ==
    /\ DOMAIN workflow \subseteq Agent
    /\ \A w \in DOMAIN workflow : FlowOf(w)
    /\ \A i \in Apply : FlowsAt(i)

SeedsDue(i, n, k) == {t \in 1 .. k : doc[i].triggers[t].agent = doc[i].id[n]}

\* The first k triggers have arrived, each at its agent.
Arrived(i, k) ==
    /\ k > 0 => \A n \in Nodes(doc[i]) : <<i, n>> \in DOMAIN workflow
    /\ \A n \in Nodes(doc[i]) : <<i, n>> \in DOMAIN workflow =>
        /\ InOrder(Received(<<i, n>>))
        /\ Range(Received(<<i, n>>)) = SeedsDue(i, n, k)

SeedsInv ==
    \A i \in Apply : \E k \in 0 .. Len(doc[i].triggers) :
        /\ Arrived(i, k)
        /\ stage[i] = "signal" => k = finished[i]
        /\ stage[i] \notin {"signal", "done", "failed"} => k = 0

-----------------------------------------------------------------------------
(* Frames.                                                                 *)

\* Nothing that is read off a document changes.
LEMMA DocsStay ==
    ASSUME doc' = doc
    PROVE  /\ Agent' = Agent
           /\ \A i : /\ Walk(i)' = Walk(i) /\ RowsOf(i)' = RowsOf(i)
                     /\ GraphRow(i)' = GraphRow(i) /\ NamedOnly(i)' = NamedOnly(i)
                     /\ Size(i)' = Size(i)
           /\ \A i, n : AgentAt(i, n)' = AgentAt(i, n) /\ StartOf(i, n)' = StartOf(i, n)
BY DEF Agent, Walk, RowsOf, GraphRow, NamedOnly, Size, AgentAt, StartOf, Walk

LEMMA AgentIs ==
    /\ \A i \in Apply : \A n \in Nodes(doc[i]) : <<i, n>> \in Agent
    /\ \A a \in Agent : a[1] \in Apply /\ a[2] \in Nodes(doc[a[1]]) /\ a = <<a[1], a[2]>>
BY DEF Agent

LEMMA RowsAre ==
    ASSUME NEW i \in Apply, IsGraphYaml(doc[i])
    PROVE  /\ RowsOf(i).graphs = {GraphRow(i)}
           /\ \A r \in RowsOf(i).agents : r.graph = i
           /\ \A n \in Nodes(doc[i]) : \E r \in RowsOf(i).agents : r.id = <<i, n>>
           /\ RowsOf(i).edges = {<<Up(i, n), <<i, n>>>> : n \in {m \in Nodes(doc[i]) :
                                                                    Up(i, m) # Absent}}
           /\ {r.agent : r \in Range(Walk(i))} = {<<i, n>> : n \in Nodes(doc[i])}
<1> DEFINE order == Preorder(doc[i])
           walked == Range(Walk(i))
<1>1. /\ DOMAIN order = 1 .. Size(i)
      /\ \A j \in 1 .. Size(i) : order[j] \in Nodes(doc[i])
      /\ \A n \in Nodes(doc[i]) : \E j \in 1 .. Size(i) : order[j] = n
  BY WalkOrder DEF Size
<1>2. DOMAIN Walk(i) = 1 .. Size(i) /\ \A j \in 1 .. Size(i) : Walk(i)[j] = WalkAt(i, j)
  BY <1>1 DEF Walk, WalkAt, Up
<1>3. walked = {WalkAt(i, j) : j \in 1 .. Size(i)}
  BY <1>2 DEF Range
<1> DEFINE row(n) == [operator_id |-> doc[i].id[n], agent |-> <<i, n>>, parent |-> Up(i, n)]
<1>4. walked = {row(n) : n \in Nodes(doc[i])}
  BY <1>1, <1>3 DEF WalkAt
<1>5. /\ RowsOf(i).graphs = {GraphRow(i)}
      /\ RowsOf(i).agents = {[id |-> r.agent, graph |-> i, name |-> r.operator_id] : r \in walked}
      /\ RowsOf(i).edges = {<<r.parent, r.agent>> : r \in {q \in walked : q.parent # Absent}}
  BY DEF RowsOf
<1>6. \A n \in Nodes(doc[i]) : /\ row(n).agent = <<i, n>> /\ row(n).parent = Up(i, n)
                               /\ row(n) \in walked
  BY <1>4
<1>7. \A r \in walked : \E n \in Nodes(doc[i]) : r = row(n)
  BY <1>4
<1> HIDE DEF walked, row
<1>8. \A r \in RowsOf(i).agents : r.graph = i
  BY <1>5
<1>9. \A n \in Nodes(doc[i]) : \E r \in RowsOf(i).agents : r.id = <<i, n>>
  <2> SUFFICES ASSUME NEW n \in Nodes(doc[i]) PROVE \E r \in RowsOf(i).agents : r.id = <<i, n>>
    OBVIOUS
  <2> DEFINE r == [id |-> row(n).agent, graph |-> i, name |-> row(n).operator_id]
  <2>1. r \in RowsOf(i).agents
    BY <1>5, <1>6
  <2>2. r.id = <<i, n>>
    BY <1>6
  <2> QED BY <2>1, <2>2
<1>10. RowsOf(i).edges = {<<Up(i, n), <<i, n>>>> : n \in {m \in Nodes(doc[i]) : Up(i, m) # Absent}}
  <2>1. ASSUME NEW e \in RowsOf(i).edges
        PROVE  \E n \in Nodes(doc[i]) : Up(i, n) # Absent /\ e = <<Up(i, n), <<i, n>>>>
    <3>1. PICK r \in walked : r.parent # Absent /\ e = <<r.parent, r.agent>>
      BY <1>5
    <3>2. PICK n \in Nodes(doc[i]) : r = row(n)
      BY <1>7
    <3> QED BY <1>6, <3>1, <3>2
  <2>2. ASSUME NEW n \in Nodes(doc[i]), Up(i, n) # Absent
        PROVE  <<Up(i, n), <<i, n>>>> \in RowsOf(i).edges
    <3>1. row(n) \in {q \in walked : q.parent # Absent}
      BY <1>6, <2>2
    <3>2. <<row(n).parent, row(n).agent>> = <<Up(i, n), <<i, n>>>>
      BY <1>6
    <3> QED BY <1>5, <3>1, <3>2
  <2> QED BY <2>1, <2>2
<1>11. {r.agent : r \in walked} = {<<i, n>> : n \in Nodes(doc[i])}
  <2>1. ASSUME NEW n \in Nodes(doc[i]) PROVE <<i, n>> \in {r.agent : r \in walked}
    BY <1>6
  <2>2. ASSUME NEW r \in walked PROVE r.agent \in {<<i, n>> : n \in Nodes(doc[i])}
    BY <1>6, <1>7
  <2> QED BY <2>1, <2>2
<1> QED BY <1>5, <1>8, <1>9, <1>10, <1>11 DEF walked

-----------------------------------------------------------------------------
(* Stages.                                                                 *)

LEMMA ValidFacts ==
    ASSUME DocAssumption, StagesInv, NEW i \in Apply, validity[i] = "Ok"
    PROVE  /\ doc[i] \in Docs /\ Good(i)
           /\ Size(i) \in Nat \ {0} /\ Len(doc[i].triggers) \in Nat \ {0}
           /\ \A n \in Nodes(doc[i]) : ResolvesMandate(doc[i], n)
           /\ \A t \in Range(doc[i].triggers) : t.agent \in Range(doc[i].id)
<1>1. doc[i] \in Docs /\ Good(i)
  BY DEF StagesInv, StageOf, Good, DocAssumption
<1>2. /\ Nodes(doc[i]) # {}
      /\ \A n \in Nodes(doc[i]) : ResolvesMandate(doc[i], n)
      /\ \A t \in DOMAIN doc[i].triggers :
            \E n \in Nodes(doc[i]) : doc[i].id[n] = doc[i].triggers[t].agent
  BY <1>1, ValidIs DEF Good
<1>3. Size(i) \in Nat \ {0}
  <2>1. IsFiniteSet(Nodes(doc[i]))
    BY <1>1 DEF Good, IsGraphYaml
  <2> QED BY <1>2, <2>1, FS_CardinalityType, FS_EmptySet DEF Size
<1>4. Len(doc[i].triggers) \in Nat \ {0}
  BY <1>1, Derived, Zenon
<1>5. \A t \in Range(doc[i].triggers) : t.agent \in Range(doc[i].id)
  BY <1>2 DEF Range, Nodes
<1> QED BY <1>1, <1>2, <1>3, <1>4, <1>5

\* An invocation that a step leaves alone stays as it is.
LEMMA StageStays ==
    ASSUME StagesInv, doc' = doc, validity' = validity, NEW i \in Apply,
           stage'[i] = stage[i], applied'[i] = applied[i], starts'[i] = starts[i],
           triggers'[i] = triggers[i], finished'[i] = finished[i]
    PROVE  StageOf(i)'
<1>1. Walk(i)' = Walk(i) /\ Size(i)' = Size(i)
  BY DocsStay
<1>2. StageOf(i)
  BY DEF StagesInv
<1> QED BY <1>1, <1>2 DEF StageOf

\* The next entry of a loop is one of its entries.
LEMMA StepIs ==
    ASSUME StagesInv, NEW i \in Apply, NEW n \in Nat, NEW to, Step(i, n, to), finished[i] < n
    PROVE  /\ DOMAIN stage' = Apply /\ DOMAIN finished' = Apply
           /\ \A j \in Apply \ {i} : stage'[j] = stage[j] /\ finished'[j] = finished[j]
           /\ \/ stage'[i] = to /\ finished'[i] = 0 /\ finished[i] + 1 = n
              \/ stage'[i] = stage[i] /\ finished'[i] = finished[i] + 1 /\ finished'[i] < n
<1>1. DOMAIN stage = Apply /\ DOMAIN finished = Apply /\ finished[i] \in Nat
  BY DEF StagesInv, StageOf
<1>2. CASE finished[i] + 1 = n
  <2>1. stage' = [stage EXCEPT ![i] = to] /\ finished' = [finished EXCEPT ![i] = 0]
    BY <1>2 DEF Step, Go
  <2> QED BY <1>1, <1>2, <2>1
<1>3. CASE finished[i] + 1 # n
  <2>1. stage' = stage /\ finished' = [finished EXCEPT ![i] = finished[i] + 1]
    BY <1>3 DEF Step
  <2>2. finished[i] + 1 < n
    BY <1>1, <1>3
  <2> QED BY <1>1, <2>1, <2>2
<1> QED BY <1>2, <1>3

LEMMA StagesInit == ASSUME DocAssumption, ApplyInit PROVE StagesInv
<1>1. \A i \in Apply : StageOf(i)
  <2> SUFFICES ASSUME NEW i \in Apply PROVE StageOf(i)
    OBVIOUS
  <2>1. /\ doc[i] \in Docs /\ validity[i] = ParseAndValidate(doc[i]) /\ stage[i] = "load"
        /\ applied[i] = <<>> /\ finished[i] = 0
    BY DEF ApplyInit
  <2> QED BY <2>1 DEF StageOf, Derives
<1> QED BY <1>1 DEF ApplyInit, StagesInv

LEMMA StagesStep ==
    ASSUME DocAssumption, StagesInv, [ApplyNext]_applyVars
    PROVE  StagesInv'
<1> USE DEF Go
<1>1. ASSUME UNCHANGED applyVars PROVE StagesInv'
  <2>1. \A i \in Apply : StageOf(i)'
    BY <1>1, StageStays DEF applyVars, client, input, derived
  <2>2. UNCHANGED <<doc, validity, stage, applied, starts, triggers, finished, tx>>
    BY <1>1 DEF applyVars, client, input, derived, db
  <2> QED BY <2>1, <2>2 DEF StagesInv
<1>2. ASSUME NEW i \in Apply, Rollback(i) \/ DropGraph(i) PROVE StagesInv'
  <2>1. UNCHANGED <<doc, validity, stage, applied, starts, triggers, finished>> /\ DOMAIN tx' = Apply
    BY <1>2 DEF Rollback, DropGraph, client, input, derived, StagesInv
  <2>2. \A j \in Apply : StageOf(j)'
    BY <2>1, StageStays
  <2> QED BY <2>1, <2>2 DEF StagesInv
<1>3. ASSUME NEW w \in DOMAIN workflow, FirstTick(w) \/ Close(w) PROVE StagesInv'
  <2>1. UNCHANGED <<doc, validity, stage, applied, starts, triggers, finished, tx>>
    BY <1>3 DEF FirstTick, Close, client, input, derived, db
  <2>2. \A j \in Apply : StageOf(j)'
    BY <2>1, StageStays
  <2> QED BY <2>1, <2>2 DEF StagesInv
<1>4. ASSUME NEW i \in Apply, Progress(i) \/ ApplyFails(i) PROVE StagesInv'
  <2> DEFINE same(j) == /\ stage'[j] = stage[j] /\ applied'[j] = applied[j]
                        /\ starts'[j] = starts[j] /\ triggers'[j] = triggers[j]
                        /\ finished'[j] = finished[j]
             shape == /\ DOMAIN stage' = Apply /\ DOMAIN applied' = Apply /\ DOMAIN starts' = Apply
                      /\ DOMAIN triggers' = Apply /\ DOMAIN finished' = Apply /\ DOMAIN tx' = Apply
  <2> SUFFICES doc' = doc /\ validity' = validity /\ shape
               /\ (\A j \in Apply \ {i} : same(j)) /\ StageOf(i)'
    <3>1. ASSUME doc' = doc, validity' = validity, shape, \A j \in Apply \ {i} : same(j),
                 StageOf(i)'
          PROVE  StagesInv'
      <4>1. \A j \in Apply : StageOf(j)'
        BY <3>1, StageStays
      <4>2. DOMAIN doc' = Apply /\ DOMAIN validity' = Apply
        BY <3>1 DEF StagesInv
      <4> QED BY <3>1, <4>1, <4>2 DEF StagesInv
    <3> QED BY <3>1
  <2>1. /\ DOMAIN doc = Apply /\ DOMAIN validity = Apply /\ DOMAIN stage = Apply
        /\ DOMAIN applied = Apply /\ DOMAIN starts = Apply /\ DOMAIN triggers = Apply
        /\ DOMAIN finished = Apply /\ DOMAIN tx = Apply /\ StageOf(i)
    BY DEF StagesInv
  <2>2. ASSUME doc' = doc PROVE Walk(i)' = Walk(i) /\ Size(i)' = Size(i)
    BY <2>2, DocsStay
  <2>3. validity[i] = "Ok" => /\ Size(i) \in Nat \ {0} /\ Len(doc[i].triggers) \in Nat \ {0}
                              /\ \A n \in Nodes(doc[i]) : ResolvesMandate(doc[i], n)
                              /\ \A t \in Range(doc[i].triggers) : t.agent \in Range(doc[i].id)
    BY ValidFacts
  <2>4. CASE LoadGraph(i)
    BY <2>1, <2>2, <2>4 DEF LoadGraph, input, derived, db, StageOf, Derives
  <2>5. CASE SelectGraph(i)
    BY <2>1, <2>2, <2>5 DEF SelectGraph, input, derived, db, StageOf, Derives
  <2>6. CASE InsertGraph(i)
    BY <2>1, <2>2, <2>6 DEF InsertGraph, input, derived, db, StageOf, Derives
  <2>7. CASE InsertRows(i)
    BY <2>1, <2>2, <2>7 DEF InsertRows, input, derived, db, StageOf, Derives
  <2>8. CASE CommitRows(i)
    BY <2>1, <2>2, <2>8 DEF CommitRows, input, derived, db, StageOf, Derives
  <2>9. CASE BuildStarts(i)
    BY <2>1, <2>2, <2>3, <2>9 DEF BuildStarts, input, derived, db, StageOf, Derives
  <2>10. CASE BuildTemporalClient(i)
    BY <2>1, <2>2, <2>3, <2>10 DEF BuildTemporalClient, input, derived, db, StageOf, Derives
  <2>11. CASE ApplyFails(i)
    BY <2>1, <2>2, <2>11 DEF ApplyFails, input, derived, db, StageOf, Derives
  <2>12. ASSUME stage[i] \in Derives PROVE /\ validity[i] = "Ok"
                                           /\ Len(starts[i]) = Size(i)
                                           /\ Len(triggers[i]) = Len(doc[i].triggers)
    <3>1. validity[i] = "Ok" /\ starts[i] = BuildWorkflowStarts(doc[i], Walk(i))
          /\ triggers[i] = YamlSeedTriggers(doc[i], Walk(i))
      BY <2>1, <2>12 DEF StageOf, Derives
    <3>2. doc[i] \in Docs /\ Good(i)
      BY <3>1, ValidFacts
    <3> QED BY <3>1, <3>2, Derived
  <2>13. CASE Materialize(i)
    <3>1. Step(i, Len(starts[i]), "seed") /\ stage[i] = "materialize"
          /\ UNCHANGED <<doc, validity, applied, starts, triggers, tx>>
      BY <2>13 DEF Materialize, input, derived, db
    <3>2. Step(i, Size(i), "seed") /\ finished[i] < Size(i) /\ Size(i) \in Nat \ {0}
      BY <2>1, <2>3, <2>12, <3>1 DEF Derives, StageOf
    <3>3. /\ DOMAIN stage' = Apply /\ DOMAIN finished' = Apply
          /\ \A j \in Apply \ {i} : stage'[j] = stage[j] /\ finished'[j] = finished[j]
          /\ \/ stage'[i] = "seed" /\ finished'[i] = 0
             \/ stage'[i] = stage[i] /\ finished'[i] = finished[i] + 1 /\ finished'[i] < Size(i)
      BY <3>2, StepIs
    <3> QED BY <2>1, <2>2, <3>1, <3>2, <3>3 DEF StageOf, Derives
  <2>14. CASE CommitSeed(i)
    <3>1. Step(i, Len(starts[i]), "connect") /\ stage[i] = "seed"
          /\ UNCHANGED <<doc, validity, applied, starts, triggers, tx>>
      BY <2>14 DEF CommitSeed, input, derived, db
    <3>2. Step(i, Size(i), "connect") /\ finished[i] < Size(i) /\ Size(i) \in Nat \ {0}
      BY <2>1, <2>3, <2>12, <3>1 DEF Derives, StageOf
    <3>3. /\ DOMAIN stage' = Apply /\ DOMAIN finished' = Apply
          /\ \A j \in Apply \ {i} : stage'[j] = stage[j] /\ finished'[j] = finished[j]
          /\ \/ stage'[i] = "connect" /\ finished'[i] = 0
             \/ stage'[i] = stage[i] /\ finished'[i] = finished[i] + 1 /\ finished'[i] < Size(i)
      BY <3>2, StepIs
    <3> QED BY <2>1, <2>2, <3>1, <3>2, <3>3 DEF StageOf, Derives
  <2>15. CASE StartWorkflow(i)
    <3>1. /\ stage[i] = "start" /\ UNCHANGED <<doc, validity, applied, starts, triggers, tx>>
          /\ \/ stage' = [stage EXCEPT ![i] = "failed"] /\ UNCHANGED finished
             \/ Step(i, Len(starts[i]), "signal")
      BY <2>15 DEF StartWorkflow, input, derived, db
    <3>2. CASE stage' = [stage EXCEPT ![i] = "failed"] /\ UNCHANGED finished
      BY <2>1, <2>2, <3>1, <3>2 DEF StageOf, Derives
    <3>3. CASE Step(i, Len(starts[i]), "signal")
      <4>1. /\ Step(i, Size(i), "signal") /\ finished[i] < Size(i) /\ Size(i) \in Nat \ {0}
            /\ Len(doc[i].triggers) \in Nat \ {0}
        BY <2>1, <2>3, <2>12, <3>1, <3>3 DEF Derives, StageOf
      <4>2. /\ DOMAIN stage' = Apply /\ DOMAIN finished' = Apply
            /\ \A j \in Apply \ {i} : stage'[j] = stage[j] /\ finished'[j] = finished[j]
            /\ \/ stage'[i] = "signal" /\ finished'[i] = 0
               \/ stage'[i] = stage[i] /\ finished'[i] = finished[i] + 1 /\ finished'[i] < Size(i)
        BY <4>1, StepIs
      <4> QED BY <2>1, <2>2, <3>1, <4>1, <4>2 DEF StageOf, Derives
    <3> QED BY <3>1, <3>2, <3>3
  <2>16. CASE SignalSeed(i)
    <3>1. /\ stage[i] = "signal" /\ UNCHANGED <<doc, validity, applied, starts, triggers, tx>>
          /\ \/ stage' = [stage EXCEPT ![i] = "failed"] /\ UNCHANGED finished
             \/ Step(i, Len(triggers[i]), "done")
      BY <2>16 DEF SignalSeed, input, derived, db
    <3>2. CASE stage' = [stage EXCEPT ![i] = "failed"] /\ UNCHANGED finished
      BY <2>1, <2>2, <3>1, <3>2 DEF StageOf, Derives
    <3>3. CASE Step(i, Len(triggers[i]), "done")
      <4> DEFINE n == Len(doc[i].triggers)
      <4>1. Step(i, n, "done") /\ finished[i] < n /\ n \in Nat \ {0}
        BY <2>1, <2>3, <2>12, <3>1, <3>3 DEF Derives, StageOf
      <4>2. /\ DOMAIN stage' = Apply /\ DOMAIN finished' = Apply
            /\ \A j \in Apply \ {i} : stage'[j] = stage[j] /\ finished'[j] = finished[j]
            /\ \/ stage'[i] = "done" /\ finished'[i] = 0
               \/ stage'[i] = stage[i] /\ finished'[i] = finished[i] + 1 /\ finished'[i] < n
        BY <4>1, StepIs
      <4> QED BY <2>1, <2>2, <3>1, <4>1, <4>2 DEF StageOf, Derives
    <3> QED BY <3>1, <3>2, <3>3
  <2> QED BY <1>4, <2>4, <2>5, <2>6, <2>7, <2>8, <2>9, <2>10, <2>11, <2>13, <2>14, <2>15, <2>16
          DEF Progress
<1> QED BY <1>1, <1>2, <1>3, <1>4, Zenon DEF ApplyNext

-----------------------------------------------------------------------------
(* Rows.                                                                   *)

\* A step that writes no row: i goes from one stage to another.
Moves(i) ==
    /\ DOMAIN stage' = Apply
    /\ \A j \in Apply \ {i} : stage'[j] = stage[j]
    /\ \/ stage'[i] = stage[i]
       \/ stage'[i] = "failed" /\ stage[i] \notin Ended
       \/ /\ stage[i] \notin {"walk", "commit", "failed"}
          /\ stage'[i] \notin {"walk", "commit", "failed"}
          /\ stage'[i] \in {"build"} \cup Derives => stage[i] \in {"build"} \cup Derives

LEMMA RowsStay ==
    ASSUME RowsInv, doc' = doc, rows' = rows, tx' = tx, dropped' = dropped,
           NEW i \in Apply, Moves(i)
    PROVE  RowsInv'
<1>1. /\ \A j : /\ RowsOf(j)' = RowsOf(j) /\ GraphRow(j)' = GraphRow(j)
                /\ NamedOnly(j)' = NamedOnly(j)
  BY DocsStay
<1>2. OwnRows'
  BY <1>1 DEF RowsInv, OwnRows
<1>3. NamesHeld'
  BY <1>1 DEF RowsInv, NamesHeld, Holds
<1>4. ASSUME NEW j \in Apply PROVE RowsAt(j)'
  <2>1. RowsAt(j) /\ (Written(j)' <=> Written(j))
    BY <1>1 DEF RowsInv, Written
  <2>2. tx[j]' = tx[j] /\ (j \in dropped)' = (j \in dropped)
    OBVIOUS
  <2>3. CASE stage'[j] = stage[j]
    BY <1>1, <2>1, <2>2, <2>3 DEF RowsAt
  <2>4. CASE stage'[j] # stage[j]
    BY <1>1, <2>1, <2>2, <2>4 DEF RowsAt, Moves, Ended, Derives
  <2> QED BY <2>3, <2>4
<1> QED BY <1>2, <1>3, <1>4 DEF RowsInv

\* Every step that writes no row is one of these.
LEMMA MovesAre ==
    ASSUME DocAssumption, StagesInv, NEW i \in Apply,
           \/ LoadGraph(i) \/ SelectGraph(i) \/ BuildStarts(i) \/ Materialize(i) \/ CommitSeed(i)
           \/ BuildTemporalClient(i) \/ StartWorkflow(i) \/ SignalSeed(i) \/ ApplyFails(i)
    PROVE  Moves(i) /\ rows' = rows /\ tx' = tx /\ dropped' = dropped /\ doc' = doc
<1> USE DEF Go
<1>1. DOMAIN stage = Apply
  BY DEF StagesInv
<1>2. CASE LoadGraph(i)
  BY <1>1, <1>2 DEF LoadGraph, input, db, Moves, Derives
<1>3. CASE SelectGraph(i)
  BY <1>1, <1>3 DEF SelectGraph, input, db, Moves, Derives
<1>4. CASE BuildStarts(i)
  <2>1. stage[i] = "build" /\ UNCHANGED <<input, db, dropped>>
        /\ \E to \in {"panicked", "failed", "materialize"} : stage' = [stage EXCEPT ![i] = to]
    BY <1>4 DEF BuildStarts
  <2> QED BY <1>1, <2>1 DEF input, db, Moves, Derives, Ended
<1>5. CASE BuildTemporalClient(i)
  BY <1>1, <1>5 DEF BuildTemporalClient, input, db, Moves, Derives
<1>6. CASE ApplyFails(i)
  BY <1>1, <1>6 DEF ApplyFails, input, db, Moves
<1>7. ASSUME NEW n, NEW to, Step(i, n, to)
      PROVE  \/ stage' = stage
             \/ stage' = [stage EXCEPT ![i] = to]
  BY <1>7 DEF Step
<1>8. CASE Materialize(i)
  <2>1. stage[i] = "materialize" /\ UNCHANGED <<input, db, dropped>>
        /\ Step(i, Len(starts[i]), "seed")
    BY <1>8 DEF Materialize
  <2>2. stage' = stage \/ stage' = [stage EXCEPT ![i] = "seed"]
    BY <1>7, <2>1
  <2> QED BY <1>1, <2>1, <2>2 DEF input, db, Moves, Derives
<1>9. CASE CommitSeed(i)
  <2>1. stage[i] = "seed" /\ UNCHANGED <<input, db, dropped>>
        /\ Step(i, Len(starts[i]), "connect")
    BY <1>9 DEF CommitSeed
  <2>2. stage' = stage \/ stage' = [stage EXCEPT ![i] = "connect"]
    BY <1>7, <2>1
  <2> QED BY <1>1, <2>1, <2>2 DEF input, db, Moves, Derives
<1>10. CASE StartWorkflow(i)
  <2>1. stage[i] = "start" /\ UNCHANGED <<input, db, dropped>>
        /\ \/ stage' = [stage EXCEPT ![i] = "failed"]
           \/ Step(i, Len(starts[i]), "signal")
    BY <1>10 DEF StartWorkflow
  <2>2. \/ stage' = stage \/ stage' = [stage EXCEPT ![i] = "signal"]
        \/ stage' = [stage EXCEPT ![i] = "failed"]
    BY <1>7, <2>1
  <2> QED BY <1>1, <2>1, <2>2 DEF input, db, Moves, Derives, Ended
<1>11. CASE SignalSeed(i)
  <2>1. stage[i] = "signal" /\ UNCHANGED <<input, db, dropped>>
        /\ \/ stage' = [stage EXCEPT ![i] = "failed"]
           \/ Step(i, Len(triggers[i]), "done")
    BY <1>11 DEF SignalSeed
  <2>2. \/ stage' = stage \/ stage' = [stage EXCEPT ![i] = "done"]
        \/ stage' = [stage EXCEPT ![i] = "failed"]
    BY <1>7, <2>1
  <2> QED BY <1>1, <2>1, <2>2 DEF input, db, Moves, Derives, Ended
<1> QED BY <1>2, <1>3, <1>4, <1>5, <1>6, <1>8, <1>9, <1>10, <1>11

LEMMA RowsInit == ASSUME ApplyInit PROVE RowsInv
<1>1. rows = NoRows /\ dropped = {} /\ \A i \in Apply : tx[i] = NoRows /\ stage[i] = "load"
  BY DEF ApplyInit
<1> QED BY <1>1 DEF RowsInv, OwnRows, NamesHeld, RowsAt, Holds, NoRows, Derives

LEMMA RowsStep ==
    ASSUME DocAssumption, StagesInv, RowsInv, [ApplyNext]_applyVars
    PROVE  RowsInv'
<1> USE DEF Go
<1>1. /\ DOMAIN stage = Apply /\ DOMAIN tx = Apply
      /\ OwnRows /\ NamesHeld /\ \A j \in Apply : RowsAt(j)
  BY DEF StagesInv, RowsInv
<1>2. ASSUME doc' = doc
      PROVE  \A j : /\ RowsOf(j)' = RowsOf(j) /\ GraphRow(j)' = GraphRow(j)
                    /\ NamedOnly(j)' = NamedOnly(j)
  BY <1>2, DocsStay
<1>3. \A j : GraphRow(j).id = j /\ GraphRow(j).name = doc[j].name
  BY DEF GraphRow
<1>4. \A j \in Apply : IsGraphYaml(doc[j])
  BY DEF StagesInv, StageOf, DocAssumption
<1>5. \A j \in Apply : NamedOnly(j).graphs = {GraphRow(j)} /\ RowsOf(j).graphs = {GraphRow(j)}
  BY <1>4, RowsAre DEF NamedOnly
<1>6. \A j \in Apply : tx[j].graphs = {} \/ tx[j].graphs = {GraphRow(j)}
  BY <1>1, <1>5 DEF RowsAt, NoRows
<1>7. ASSUME UNCHANGED <<doc, stage, rows, tx, dropped>> PROVE RowsInv'
  <2>1. OwnRows' /\ NamesHeld'
    BY <1>1, <1>2, <1>7 DEF OwnRows, NamesHeld, Holds
  <2>2. \A j \in Apply : RowsAt(j)'
    BY <1>1, <1>2, <1>7 DEF RowsAt, Written
  <2> QED BY <2>1, <2>2 DEF RowsInv
<1>8. ASSUME UNCHANGED applyVars PROVE RowsInv'
  BY <1>7, <1>8 DEF applyVars, client, input, db
<1>9. ASSUME NEW w \in DOMAIN workflow, FirstTick(w) \/ Close(w) PROVE RowsInv'
  BY <1>7, <1>9 DEF FirstTick, Close, client, input, db
<1>10. ASSUME NEW i \in Apply, InsertGraph(i) PROVE RowsInv'
  <2>1. /\ stage[i] = "insert" /\ ~NameIsPending(i)
        /\ UNCHANGED <<doc, rows, dropped>>
    BY <1>10 DEF InsertGraph, input
  <2>2. CASE \E g \in rows.graphs : g.name = doc[i].name
    <3>1. stage' = [stage EXCEPT ![i] = "refused"] /\ tx' = tx
      BY <1>10, <2>2 DEF InsertGraph
    <3>2. Moves(i)
      BY <1>1, <2>1, <3>1 DEF Moves, Derives
    <3> QED BY <2>1, <3>1, <3>2, RowsStay
  <2>3. CASE ~ \E g \in rows.graphs : g.name = doc[i].name
    <3>1. /\ stage' = [stage EXCEPT ![i] = "walk"]
          /\ tx' = [tx EXCEPT ![i] = NamedOnly(i)]
      BY <1>10, <2>3 DEF InsertGraph, NamedOnly, NoRows
    <3>2. OwnRows'
      BY <1>1, <1>2, <2>1 DEF OwnRows
    <3>3. \A j \in Apply \ {i} : Holds(j)' = Holds(j)
      BY <1>1, <1>2, <2>1, <3>1 DEF Holds
    <3>4. \A j \in Apply \ {i} : Holds(j) => doc[j].name # doc[i].name
      BY <1>1, <1>3, <1>6, <2>1, <2>3 DEF Holds, NameIsPending
    <3>5. NamesHeld'
      BY <1>1, <2>1, <3>3, <3>4 DEF NamesHeld
    <3>6. ASSUME NEW j \in Apply PROVE RowsAt(j)'
      <4>1. RowsAt(j) /\ (Written(j)' <=> Written(j))
        BY <1>1, <1>2, <2>1 DEF Written
      <4>2. CASE j = i
        BY <1>1, <1>2, <2>1, <3>1, <4>1, <4>2 DEF RowsAt, Derives
      <4>3. CASE j # i
        <5>1. stage'[j] = stage[j] /\ tx'[j] = tx[j]
          BY <1>1, <3>1, <4>3
        <5> QED BY <1>2, <2>1, <4>1, <5>1 DEF RowsAt
      <4> QED BY <4>2, <4>3
    <3> QED BY <3>2, <3>5, <3>6 DEF RowsInv
  <2> QED BY <2>2, <2>3
<1>11. ASSUME NEW i \in Apply, InsertRows(i) PROVE RowsInv'
  <2>1. /\ stage[i] = "walk" /\ stage' = [stage EXCEPT ![i] = "commit"]
        /\ tx' = [tx EXCEPT ![i] = RowsOf(i)] /\ UNCHANGED <<doc, rows, dropped>>
    BY <1>11 DEF InsertRows, input
  <2>2. OwnRows'
    BY <1>1, <1>2, <2>1 DEF OwnRows
  <2>3. tx[i].graphs = {GraphRow(i)}
    BY <1>1, <1>5, <2>1 DEF RowsAt
  <2>4. \A j \in Apply : tx'[j].graphs = tx[j].graphs
    BY <1>1, <1>5, <2>1, <2>3
  <2>5. NamesHeld'
    BY <1>1, <1>2, <2>1, <2>4 DEF NamesHeld, Holds
  <2>6. ASSUME NEW j \in Apply PROVE RowsAt(j)'
    <3>1. RowsAt(j) /\ (Written(j)' <=> Written(j))
      BY <1>1, <1>2, <2>1 DEF Written
    <3>2. CASE j = i
      BY <1>1, <1>2, <2>1, <3>1, <3>2 DEF RowsAt, Derives
    <3>3. CASE j # i
      <4>1. stage'[j] = stage[j] /\ tx'[j] = tx[j]
        BY <1>1, <2>1, <3>3
      <4> QED BY <1>2, <2>1, <3>1, <4>1 DEF RowsAt
    <3> QED BY <3>2, <3>3
  <2> QED BY <2>2, <2>5, <2>6 DEF RowsInv
<1>12. ASSUME NEW i \in Apply, CommitRows(i) PROVE RowsInv'
  <2>1. /\ stage[i] = "commit" /\ stage' = [stage EXCEPT ![i] = "build"]
        /\ tx' = [tx EXCEPT ![i] = NoRows] /\ UNCHANGED <<doc, dropped>>
        /\ rows'.graphs = rows.graphs \cup tx[i].graphs
        /\ rows'.agents = rows.agents \cup tx[i].agents
        /\ rows'.edges = rows.edges \cup tx[i].edges
    BY <1>12 DEF CommitRows, input
  <2>2. tx[i] = RowsOf(i)
    BY <1>1, <2>1 DEF RowsAt
  <2>3. OwnRows'
    <3>1. \A g \in rows'.graphs : g.id \in Apply /\ g = GraphRow(g.id)
      BY <1>1, <1>3, <1>5, <2>1, <2>2 DEF OwnRows
    <3>2. \A r \in rows'.agents : r.graph \in Apply /\ r \in RowsOf(r.graph).agents
      BY <1>1, <1>4, <2>1, <2>2, RowsAre DEF OwnRows
    <3>3. \A e \in rows'.edges : \E j \in Apply : e \in RowsOf(j).edges
      BY <1>1, <2>1, <2>2 DEF OwnRows
    <3> QED BY <1>2, <2>1, <3>1, <3>2, <3>3 DEF OwnRows
  <2>4. \A j \in Apply : Holds(j)' => Holds(j)
    <3> SUFFICES ASSUME NEW j \in Apply, Holds(j)' PROVE Holds(j)
      OBVIOUS
    <3>1. CASE j = i
      BY <1>5, <2>2, <3>1 DEF Holds
    <3>2. CASE j # i
      <4>1. tx'[j] = tx[j] /\ rows'.graphs = rows.graphs \cup {GraphRow(i)}
        BY <1>1, <1>5, <2>1, <2>2, <3>2
      <4>2. GraphRow(j) # GraphRow(i)
        BY <1>3, <3>2
      <4> QED BY <1>2, <2>1, <4>1, <4>2 DEF Holds
    <3> QED BY <3>1, <3>2
  <2>5. NamesHeld'
    BY <1>1, <2>1, <2>4 DEF NamesHeld
  <2>6. ASSUME NEW j \in Apply PROVE RowsAt(j)'
    <3>1. RowsAt(j) /\ (Written(j) => Written(j)')
      BY <1>1, <1>2, <2>1 DEF Written
    <3>2. CASE j = i
      <4>1. Written(i)'
        BY <1>2, <1>5, <2>1, <2>2 DEF Written
      <4> QED BY <1>1, <2>1, <3>1, <3>2, <4>1 DEF RowsAt, Derives
    <3>3. CASE j # i
      <4>1. stage'[j] = stage[j] /\ tx'[j] = tx[j]
        BY <1>1, <2>1, <3>3
      <4> QED BY <1>2, <2>1, <3>1, <4>1 DEF RowsAt
    <3> QED BY <3>2, <3>3
  <2> QED BY <2>3, <2>5, <2>6 DEF RowsInv
<1>13. ASSUME NEW i \in Apply, Rollback(i) PROVE RowsInv'
  <2>1. /\ stage[i] \in Ended /\ tx[i] # NoRows /\ tx' = [tx EXCEPT ![i] = NoRows]
        /\ UNCHANGED <<doc, stage, rows, dropped>>
    BY <1>13 DEF Rollback, client, input
  <2>2. OwnRows'
    BY <1>1, <1>2, <2>1 DEF OwnRows
  <2>3. \A j \in Apply : Holds(j)' => Holds(j)
    BY <1>1, <1>2, <2>1 DEF Holds, NoRows
  <2>4. NamesHeld'
    BY <1>1, <2>1, <2>3 DEF NamesHeld
  <2>5. ASSUME NEW j \in Apply PROVE RowsAt(j)'
    <3>1. RowsAt(j) /\ (Written(j)' <=> Written(j))
      BY <1>1, <1>2, <2>1 DEF Written
    <3>2. CASE j = i
      BY <1>1, <1>2, <2>1, <3>1, <3>2 DEF RowsAt, Derives, Ended
    <3>3. CASE j # i
      <4>1. tx'[j] = tx[j]
        BY <1>1, <2>1, <3>3
      <4> QED BY <1>2, <2>1, <3>1, <4>1 DEF RowsAt
    <3> QED BY <3>2, <3>3
  <2> QED BY <2>2, <2>4, <2>5 DEF RowsInv
<1>14. ASSUME NEW i \in Apply, DropGraph(i) PROVE RowsInv'
  <2>1. /\ stage[i] = "failed" /\ dropped' = dropped \cup {i} /\ UNCHANGED <<doc, stage, tx>>
        /\ rows'.graphs = {g \in rows.graphs : g.id # i}
        /\ rows'.agents = {a \in rows.agents : a.graph # i}
        /\ rows'.edges = {e \in rows.edges : e[2][1] # i}
    BY <1>14 DEF DropGraph, client, input
  <2>2. OwnRows'
    BY <1>1, <1>2, <2>1 DEF OwnRows
  <2>3. \A j \in Apply : Holds(j)' => Holds(j)
    BY <1>1, <1>2, <2>1 DEF Holds
  <2>4. NamesHeld'
    BY <1>1, <2>1, <2>3 DEF NamesHeld
  <2>5. ASSUME NEW j \in Apply PROVE RowsAt(j)'
    <3>1. RowsAt(j)
      BY <1>1
    <3>2. CASE j = i
      BY <1>2, <2>1, <3>1, <3>2 DEF RowsAt, Derives
    <3>3. ASSUME j # i, Written(j) PROVE Written(j)'
      <4>1. \A r \in RowsOf(j).agents : r.graph = j
        BY <1>4, RowsAre
      <4>2. \A e \in RowsOf(j).edges : e[2][1] = j
        BY <1>4, RowsAre
      <4> QED BY <1>2, <1>3, <2>1, <3>3, <4>1, <4>2 DEF Written
    <3>4. CASE j # i
      BY <1>2, <2>1, <3>1, <3>3, <3>4 DEF RowsAt
    <3> QED BY <3>2, <3>4
  <2> QED BY <2>2, <2>4, <2>5 DEF RowsInv
<1>15. ASSUME NEW i \in Apply, Progress(i) \/ ApplyFails(i) PROVE RowsInv'
  <2>1. \/ InsertGraph(i) \/ InsertRows(i) \/ CommitRows(i)
        \/ LoadGraph(i) \/ SelectGraph(i) \/ BuildStarts(i) \/ Materialize(i) \/ CommitSeed(i)
        \/ BuildTemporalClient(i) \/ StartWorkflow(i) \/ SignalSeed(i) \/ ApplyFails(i)
    BY <1>15 DEF Progress
  <2> QED BY <1>10, <1>11, <1>12, <2>1, MovesAre, RowsStay, Zenon
<1> QED BY <1>8, <1>9, <1>13, <1>14, <1>15, Zenon DEF ApplyNext

-----------------------------------------------------------------------------
(* Files.                                                                  *)

\* An invocation that has what is derived has a start for each agent of its file.
LEMMA Entries ==
    ASSUME DocAssumption, StagesInv, NEW i \in Apply, stage[i] \in Derives
    PROVE  /\ validity[i] = "Ok" /\ Good(i) /\ doc[i] \in Docs
           /\ Len(starts[i]) = Size(i) /\ Size(i) \in Nat /\ finished[i] \in Nat
           /\ \A j \in 1 .. Size(i) : /\ starts[i][j] = StartOf(i, AgentAt(i, j)[2])
                                      /\ AgentAt(i, j) \in Agent /\ AgentAt(i, j)[1] = i
                                      /\ AgentAt(i, j)[2] \in Nodes(doc[i])
                                      /\ AgentAt(i, j) = <<i, AgentAt(i, j)[2]>>
           /\ \A n \in Nodes(doc[i]) : \E j \in 1 .. Size(i) : AgentAt(i, j) = <<i, n>>
<1>1. /\ validity[i] = "Ok" /\ finished[i] \in Nat
      /\ starts[i] = BuildWorkflowStarts(doc[i], Walk(i))
  BY DEF StagesInv, StageOf, Derives
<1>2. doc[i] \in Docs /\ Good(i) /\ Size(i) \in Nat
  BY <1>1, ValidFacts
<1>3. /\ Len(starts[i]) = Size(i)
      /\ \A j \in 1 .. Size(i) : starts[i][j] = StartOf(i, Preorder(doc[i])[j])
  BY <1>1, <1>2, Derived
<1>4. /\ \A j \in 1 .. Size(i) : Preorder(doc[i])[j] \in Nodes(doc[i])
      /\ \A n \in Nodes(doc[i]) : \E j \in 1 .. Size(i) : Preorder(doc[i])[j] = n
  BY <1>2, WalkOrder DEF Good, Size
<1>5. \A j \in 1 .. Size(i) : AgentAt(i, j) \in Agent
  BY <1>4, AgentIs DEF AgentAt
<1> QED BY <1>1, <1>2, <1>3, <1>4, <1>5 DEF AgentAt

\* Opening an agent's file system leaves its own mandate.md in it.
LEMMA OpenIs ==
    ASSUME FilesInv, NEW a \in Agent, OpenFs(a, a[2])
    PROVE  /\ DOMAIN mandate' = Agent /\ mandate'[a] = a[2]
           /\ \A b \in Agent \ {a} : mandate'[b] = mandate[b]
BY DEF FilesInv, FileOf, OpenFs

\* A commit over it keeps the first.
LEMMA CommitIs ==
    ASSUME FilesInv, NEW a \in Agent, NEW ticked \in BOOLEAN,
           CommitTree(a, [mandate |-> a[2], ticked |-> ticked]),
           commits[a] = <<>> => ~ticked
    PROVE  /\ DOMAIN commits' = Agent
           /\ commits'[a] \in Seq([mandate : {a[2]}, ticked : BOOLEAN])
           /\ commits'[a] # <<>> /\ commits'[a][1] = Baseline(a)
           /\ \A b \in Agent \ {a} : commits'[b] = commits[b]
<1> DEFINE tree == [mandate |-> a[2], ticked |-> ticked]
           T == [mandate : {a[2]}, ticked : BOOLEAN]
           next == IF commits[a] # <<>> /\ Last(commits[a]) = tree THEN commits[a]
                   ELSE Append(commits[a], tree)
<1>1. DOMAIN commits = Agent /\ commits[a] \in Seq(T)
      /\ (commits[a] # <<>> => commits[a][1] = Baseline(a))
  BY DEF FilesInv, FileOf
<1>2. commits' = [commits EXCEPT ![a] = next]
  BY DEF CommitTree
<1>3. tree \in T /\ (commits[a] = <<>> => tree = Baseline(a))
  BY DEF Baseline
<1>4. next \in Seq(T) /\ next # <<>> /\ next[1] = Baseline(a)
  <2> HIDE DEF tree, T
  <2>1. CASE commits[a] # <<>> /\ Last(commits[a]) = tree
    BY <1>1, <2>1
  <2>2. CASE commits[a] = <<>>
    <3>1. next = Append(commits[a], tree)
      BY <2>2
    <3>2. next = <<tree>>
      BY <2>2, <3>1
    <3> QED BY <1>3, <2>2, <3>2
  <2>3. CASE commits[a] # <<>> /\ Last(commits[a]) # tree
    <3>1. next = Append(commits[a], tree)
      BY <2>3
    <3>2. Len(commits[a]) \in Nat /\ Len(commits[a]) >= 1
      BY <1>1, <2>3
    <3> HIDE DEF next
    <3> QED BY <1>1, <1>3, <2>3, <3>1, <3>2
  <2> QED BY <2>1, <2>2, <2>3
<1> HIDE DEF next
<1> QED BY <1>1, <1>2, <1>4

LEMMA FilesInit == ASSUME ApplyInit PROVE FilesInv
<1>1. /\ DOMAIN mandate = Agent /\ DOMAIN commits = Agent
      /\ \A a \in Agent : mandate[a] = Absent /\ commits[a] = <<>>
      /\ \A i \in Apply : stage[i] = "load"
  BY DEF ApplyInit
<1>2. ASSUME NEW a \in Agent PROVE FileOf(a)
  <2>1. mandate[a] = Absent /\ commits[a] = <<>>
    BY <1>1
  <2>2. <<>> \in Seq([mandate : {a[2]}, ticked : BOOLEAN])
    OBVIOUS
  <2> QED BY <2>1, <2>2, Zenon DEF FileOf
<1>3. \A i \in Apply : FilesAt(i)
  BY <1>1 DEF FilesAt
<1> QED BY <1>1, <1>2, <1>3 DEF FilesInv

\* A step that opens or commits an agent's file system, or none, takes nothing away.
LEMMA FilesStay ==
    ASSUME DocAssumption, StagesInv, FilesInv, doc' = doc, DOMAIN mandate' = Agent, DOMAIN commits' = Agent,
           NEW a, (\A b \in Agent \ {a} : mandate'[b] = mandate[b] /\ commits'[b] = commits[b]),
           a \in Agent => /\ mandate'[a] = mandate[a] \/ mandate'[a] = a[2]
                          /\ \/ commits'[a] = commits[a]
                             \/ /\ commits'[a] \in Seq([mandate : {a[2]}, ticked : BOOLEAN])
                                /\ commits'[a] # <<>> /\ commits'[a][1] = Baseline(a)
                                /\ mandate'[a] = a[2]
    PROVE  /\ \A b \in Agent : /\ FileOf(b)' /\ (mandate[b] # Absent => mandate'[b] # Absent)
                               /\ (commits[b] # <<>> => commits'[b] # <<>>)
           /\ \A i \in Apply : Committed(i) => Committed(i)'
<1>1. \A b \in Agent : Absent # b[2]
  <2>1. \A b \in Agent : b[1] \in Apply /\ b[2] \in Nodes(doc[b[1]])
    BY AgentIs
  <2>2. \A i \in Apply : \A n \in Nodes(doc[i]) : n # Absent
    BY DEF StagesInv, StageOf, DocAssumption, IsGraphYaml
  <2> QED BY <2>1, <2>2
<1>2. ASSUME NEW b \in Agent
      PROVE  /\ FileOf(b)' /\ (mandate[b] # Absent => mandate'[b] # Absent)
             /\ (commits[b] # <<>> => commits'[b] # <<>>)
  <2>1. FileOf(b)
    BY DEF FilesInv
  <2>2. CASE b # a
    BY <2>1, <2>2 DEF FileOf, Baseline
  <2>3. CASE b = a
    BY <1>1, <2>1, <2>3 DEF FileOf, Baseline
  <2> QED BY <2>2, <2>3
<1>3. ASSUME NEW i \in Apply, Committed(i) PROVE Committed(i)'
  BY <1>2, <1>3, AgentIs DEF Committed
<1> QED BY <1>2, <1>3

\* An invocation whose stage a step leaves alone has still done what it has done.
LEMMA FilesKept ==
    ASSUME DocAssumption, StagesInv, FilesInv, doc' = doc, NEW i \in Apply,
           stage'[i] = stage[i], finished'[i] = finished[i],
           \A b \in Agent : /\ (mandate[b] # Absent => mandate'[b] # Absent)
                            /\ (commits[b] # <<>> => commits'[b] # <<>>)
    PROVE  FilesAt(i)'
<1>1. FilesAt(i)
  BY DEF FilesInv
<1>2. \A n \in Nodes(doc[i]) : <<i, n>> \in Agent
  BY AgentIs
<1>3. \A j : AgentAt(i, j)' = AgentAt(i, j)
  BY DocsStay
<1>4. ASSUME stage[i] \in {"materialize", "seed"}, NEW j \in 1 .. finished[i]
      PROVE  AgentAt(i, j) \in Agent
  <2>1. finished[i] \in Nat /\ finished[i] < Size(i)
    BY <1>4 DEF StagesInv, StageOf
  <2>2. stage[i] \in Derives
    BY <1>4 DEF Derives
  <2>3. Size(i) \in Nat /\ \A k \in 1 .. Size(i) : AgentAt(i, k) \in Agent
    BY <2>2, Entries
  <2> QED BY <2>1, <2>3
<1>5. Committed(i) => Committed(i)'
  BY <1>2 DEF Committed
<1>6. stage'[i] = "materialize" => \A j \in 1 .. finished'[i] : mandate'[AgentAt(i, j)'] # Absent
  BY <1>1, <1>3, <1>4 DEF FilesAt
<1>7. stage'[i] = "seed" => \A j \in 1 .. finished'[i] : commits'[AgentAt(i, j)'] # <<>>
  BY <1>1, <1>3, <1>4 DEF FilesAt
<1>8. stage'[i] = "seed" => \A n \in Nodes(doc'[i]) : mandate'[<<i, n>>] # Absent
  BY <1>1, <1>2 DEF FilesAt
<1>9. stage'[i] \in {"connect", "start", "signal", "done"} => Committed(i)'
  BY <1>1, <1>5 DEF FilesAt
<1> QED BY <1>6, <1>7, <1>8, <1>9 DEF FilesAt

Launched == {"connect", "start", "signal", "done"}

\* A step of i that touches no file.
Quiet(i) ==
    /\ \A j \in Apply \ {i} : stage'[j] = stage[j] /\ finished'[j] = finished[j]
    /\ \/ stage'[i] = stage[i] /\ finished'[i] = finished[i]
       \/ /\ stage'[i] # "seed" /\ (stage'[i] = "materialize" => finished'[i] = 0)
          /\ stage'[i] \in Launched => stage[i] \in Launched

LEMMA QuietSteps ==
    ASSUME DocAssumption, StagesInv, NEW i \in Apply,
           \/ LoadGraph(i) \/ SelectGraph(i) \/ InsertGraph(i) \/ InsertRows(i) \/ CommitRows(i)
           \/ BuildStarts(i) \/ BuildTemporalClient(i) \/ StartWorkflow(i) \/ SignalSeed(i)
           \/ ApplyFails(i) \/ Rollback(i) \/ DropGraph(i)
    PROVE  Quiet(i) /\ UNCHANGED <<doc, mandate, commits>>
<1> USE DEF Go, Launched
<1>1. DOMAIN stage = Apply /\ DOMAIN finished = Apply
      /\ (stage[i] \in {"load", "select", "insert", "walk", "commit", "build", "connect"}
             => finished[i] = 0)
  BY DEF StagesInv, StageOf
<1>2. CASE LoadGraph(i)
  BY <1>1, <1>2 DEF LoadGraph, input, fs, Quiet
<1>3. CASE SelectGraph(i)
  BY <1>1, <1>3 DEF SelectGraph, input, fs, Quiet
<1>4. CASE InsertGraph(i)
  BY <1>1, <1>4 DEF InsertGraph, input, fs, Quiet
<1>5. CASE InsertRows(i)
  BY <1>1, <1>5 DEF InsertRows, input, fs, Quiet
<1>6. CASE CommitRows(i)
  BY <1>1, <1>6 DEF CommitRows, input, fs, Quiet
<1>7. CASE BuildStarts(i)
  <2>1. stage[i] = "build" /\ UNCHANGED <<input, finished, fs>>
        /\ \E to \in {"panicked", "failed", "materialize"} : stage' = [stage EXCEPT ![i] = to]
    BY <1>7 DEF BuildStarts
  <2> QED BY <1>1, <2>1 DEF input, fs, Quiet
<1>8. CASE BuildTemporalClient(i)
  BY <1>1, <1>8 DEF BuildTemporalClient, input, fs, Quiet
<1>9. CASE ApplyFails(i)
  BY <1>1, <1>9 DEF ApplyFails, input, fs, Quiet
<1>10. CASE Rollback(i) \/ DropGraph(i)
  BY <1>10 DEF Rollback, DropGraph, client, input, fs, Quiet
<1>11. ASSUME NEW n, NEW to, Step(i, n, to)
       PROVE  /\ stage' = stage \/ stage' = [stage EXCEPT ![i] = to]
              /\ \A j \in Apply \ {i} : finished'[j] = finished[j]
  BY <1>1, <1>11 DEF Step
<1>12. CASE StartWorkflow(i)
  <2>1. stage[i] = "start" /\ UNCHANGED <<input, fs>>
        /\ \/ stage' = [stage EXCEPT ![i] = "failed"] /\ UNCHANGED finished
           \/ Step(i, Len(starts[i]), "signal")
    BY <1>12 DEF StartWorkflow
  <2>2. /\ \/ stage' = stage \/ stage' = [stage EXCEPT ![i] = "signal"]
           \/ stage' = [stage EXCEPT ![i] = "failed"]
        /\ \A j \in Apply \ {i} : finished'[j] = finished[j]
    BY <1>11, <2>1
  <2> QED BY <1>1, <2>1, <2>2 DEF input, fs, Quiet
<1>13. CASE SignalSeed(i)
  <2>1. stage[i] = "signal" /\ UNCHANGED <<input, fs>>
        /\ \/ stage' = [stage EXCEPT ![i] = "failed"] /\ UNCHANGED finished
           \/ Step(i, Len(triggers[i]), "done")
    BY <1>13 DEF SignalSeed
  <2>2. /\ \/ stage' = stage \/ stage' = [stage EXCEPT ![i] = "done"]
           \/ stage' = [stage EXCEPT ![i] = "failed"]
        /\ \A j \in Apply \ {i} : finished'[j] = finished[j]
    BY <1>11, <2>1
  <2> QED BY <1>1, <2>1, <2>2 DEF input, fs, Quiet
<1> QED BY <1>2, <1>3, <1>4, <1>5, <1>6, <1>7, <1>8, <1>9, <1>10, <1>12, <1>13

LEMMA FilesStep ==
    ASSUME DocAssumption, StagesInv, FilesInv, FlowsInv, [ApplyNext]_applyVars
    PROVE  FilesInv' /\ \A i \in Apply : Committed(i) => Committed(i)'
<1> DEFINE Result == FilesInv' /\ \A i \in Apply : Committed(i) => Committed(i)'
<1>1. /\ DOMAIN mandate = Agent /\ DOMAIN commits = Agent /\ \A i \in Apply : FilesAt(i)
  BY DEF FilesInv
<1>2. ASSUME doc' = doc PROVE Agent' = Agent /\ \A i, j : AgentAt(i, j)' = AgentAt(i, j)
  BY <1>2, DocsStay
<1>3. ASSUME UNCHANGED <<doc, stage, finished, mandate, commits>> PROVE Result
  <2>1. /\ \A b \in Agent : /\ FileOf(b)' /\ (mandate[b] # Absent => mandate'[b] # Absent)
                            /\ (commits[b] # <<>> => commits'[b] # <<>>)
        /\ \A i \in Apply : Committed(i) => Committed(i)'
    BY <1>1, <1>3, FilesStay
  <2>2. \A i \in Apply : FilesAt(i)'
    BY <1>3, <2>1, FilesKept
  <2> QED BY <1>1, <1>2, <1>3, <2>1, <2>2 DEF FilesInv
<1>4. ASSUME UNCHANGED applyVars PROVE Result
  BY <1>3, <1>4 DEF applyVars, client, input, fs
<1>5. ASSUME NEW w \in DOMAIN workflow, Close(w) PROVE Result
  BY <1>3, <1>5 DEF Close, client, input, fs
<1>6. ASSUME NEW w \in DOMAIN workflow, FirstTick(w) PROVE Result
  <2>1. w \in Agent /\ FlowOf(w)
    BY DEF FlowsInv
  <2>2. w[1] \in Apply /\ w[2] \in Nodes(doc[w[1]]) /\ w = <<w[1], w[2]>>
    BY <2>1, AgentIs
  <2>3. workflow[w].input.agent = w /\ workflow[w].input.mandate.text = w[2]
    BY <2>1, <2>2 DEF FlowOf, StartOf, ResolveMandate
  <2>4. commits[w] # <<>>
    BY <2>1, <2>2 DEF FlowOf, Committed
  <2>5. UNCHANGED <<doc, stage, finished>> /\ OpenFs(w, w[2])
        /\ CommitTree(w, [mandate |-> mandate'[w], ticked |-> TRUE])
    BY <1>6, <2>3 DEF FirstTick, client, input
  <2>6. DOMAIN mandate' = Agent /\ mandate'[w] = w[2]
        /\ \A b \in Agent \ {w} : mandate'[b] = mandate[b]
    BY <2>1, <2>5, OpenIs
  <2>7. CommitTree(w, [mandate |-> w[2], ticked |-> TRUE])
    BY <2>5, <2>6
  <2>8. /\ DOMAIN commits' = Agent
        /\ commits'[w] \in Seq([mandate : {w[2]}, ticked : BOOLEAN])
        /\ commits'[w] # <<>> /\ commits'[w][1] = Baseline(w)
        /\ \A b \in Agent \ {w} : commits'[b] = commits[b]
    BY <2>1, <2>4, <2>7, CommitIs
  <2>9. /\ \A b \in Agent : /\ FileOf(b)' /\ (mandate[b] # Absent => mandate'[b] # Absent)
                            /\ (commits[b] # <<>> => commits'[b] # <<>>)
        /\ \A i \in Apply : Committed(i) => Committed(i)'
    BY <2>1, <2>5, <2>6, <2>8, FilesStay
  <2>10. \A i \in Apply : FilesAt(i)'
    BY <2>5, <2>9, FilesKept
  <2> QED BY <1>2, <2>5, <2>6, <2>8, <2>9, <2>10 DEF FilesInv
<1>7. ASSUME NEW i \in Apply, Quiet(i), UNCHANGED <<doc, mandate, commits>> PROVE Result
  <2>1. /\ \A b \in Agent : /\ FileOf(b)' /\ (mandate[b] # Absent => mandate'[b] # Absent)
                            /\ (commits[b] # <<>> => commits'[b] # <<>>)
        /\ \A j \in Apply : Committed(j) => Committed(j)'
    BY <1>1, <1>7, FilesStay
  <2>2. ASSUME NEW j \in Apply PROVE FilesAt(j)'
    <3>1. CASE stage'[j] = stage[j] /\ finished'[j] = finished[j]
      BY <1>7, <2>1, <3>1, FilesKept
    <3>2. CASE ~(stage'[j] = stage[j] /\ finished'[j] = finished[j])
      <4>1. /\ stage'[j] # "seed" /\ (stage'[j] = "materialize" => finished'[j] = 0)
            /\ stage'[j] \in Launched => stage[j] \in Launched
        BY <1>7, <3>2 DEF Quiet
      <4>2. stage[j] \in Launched => Committed(j)'
        BY <1>1, <2>1 DEF FilesAt, Launched
      <4> QED BY <4>1, <4>2 DEF FilesAt, Launched
    <3> QED BY <3>1, <3>2
  <2> QED BY <1>1, <1>2, <1>7, <2>1, <2>2 DEF FilesInv
<1>8. ASSUME NEW i \in Apply, Materialize(i) PROVE Result
  <2> DEFINE j == finished[i] + 1
             a == AgentAt(i, j)
  <2>1. stage[i] = "materialize" /\ stage[i] \in Derives /\ UNCHANGED <<doc, commits>>
    BY <1>8 DEF Materialize, input, Derives
  <2>2. finished[i] < Size(i) /\ finished[i] \in Nat
    BY <2>1 DEF StagesInv, StageOf
  <2>3. /\ Len(starts[i]) = Size(i) /\ Size(i) \in Nat
        /\ \A k \in 1 .. Size(i) : /\ starts[i][k] = StartOf(i, AgentAt(i, k)[2])
                                   /\ AgentAt(i, k) \in Agent /\ AgentAt(i, k)[1] = i
                                   /\ AgentAt(i, k) = <<i, AgentAt(i, k)[2]>>
        /\ \A n \in Nodes(doc[i]) : \E k \in 1 .. Size(i) : AgentAt(i, k) = <<i, n>>
    BY <2>1, Entries
  <2>4. j \in 1 .. Size(i)
    BY <2>2, <2>3
  <2>5. a \in Agent /\ starts[i][j].agent = a /\ starts[i][j].mandate.text = a[2]
    <3>1. \A n : StartOf(i, n).agent = <<i, n>> /\ StartOf(i, n).mandate.text = n
      BY DEF StartOf, ResolveMandate
    <3>2. a \in Agent /\ starts[i][j] = StartOf(i, a[2]) /\ a = <<i, a[2]>>
      BY <2>3, <2>4
    <3> HIDE DEF a
    <3> QED BY <3>1, <3>2, Zenon
  <2>6. OpenFs(a, a[2]) /\ Step(i, Size(i), "seed")
    BY <1>8, <2>3, <2>5 DEF Materialize
  <2> HIDE DEF a, j
  <2>7. DOMAIN mandate' = Agent /\ mandate'[a] = a[2]
        /\ \A b \in Agent \ {a} : mandate'[b] = mandate[b]
    BY <2>5, <2>6, OpenIs
  <2>8. /\ \A b \in Agent : /\ FileOf(b)' /\ (mandate[b] # Absent => mandate'[b] # Absent)
                            /\ (commits[b] # <<>> => commits'[b] # <<>>)
        /\ \A k \in Apply : Committed(k) => Committed(k)'
    BY <1>1, <2>1, <2>5, <2>7, FilesStay
  <2>9. /\ \A k \in Apply \ {i} : stage'[k] = stage[k] /\ finished'[k] = finished[k]
        /\ \/ stage'[i] = "seed" /\ finished'[i] = 0 /\ finished[i] + 1 = Size(i)
           \/ stage'[i] = stage[i] /\ finished'[i] = finished[i] + 1
    BY <2>2, <2>3, <2>6, StepIs
  <2>10. \A k \in 1 .. j : mandate'[AgentAt(i, k)] # Absent
    <3>1. a[2] # Absent
      <4>1. a[1] \in Apply /\ a[2] \in Nodes(doc[a[1]])
        BY <2>5, AgentIs
      <4> QED BY <4>1 DEF StagesInv, StageOf, DocAssumption, IsGraphYaml
    <3>2. \A k \in 1 .. finished[i] : mandate[AgentAt(i, k)] # Absent
      BY <1>1, <2>1 DEF FilesAt
    <3>3. \A k \in 1 .. j : k \in 1 .. Size(i) /\ (k \in 1 .. finished[i] \/ k = j)
      BY <2>2, <2>3, <2>4 DEF j
    <3> QED BY <2>3, <2>7, <2>8, <3>1, <3>2, <3>3 DEF a
  <2>11. FilesAt(i)'
    <3>1. CASE stage'[i] = "seed" /\ finished'[i] = 0 /\ finished[i] + 1 = Size(i)
      <4>1. \A n \in Nodes(doc[i]) : mandate'[<<i, n>>] # Absent
        BY <2>3, <2>10, <3>1 DEF j
      <4> QED BY <2>1, <3>1, <4>1 DEF FilesAt
    <3>2. CASE stage'[i] = stage[i] /\ finished'[i] = finished[i] + 1
      BY <1>2, <2>1, <2>10, <3>2 DEF FilesAt, j
    <3> QED BY <2>9, <3>1, <3>2
  <2>12. \A k \in Apply : FilesAt(k)'
    BY <2>1, <2>8, <2>9, <2>11, FilesKept
  <2> QED BY <1>1, <1>2, <2>1, <2>7, <2>8, <2>12 DEF FilesInv
<1>9. ASSUME NEW i \in Apply, CommitSeed(i) PROVE Result
  <2> DEFINE j == finished[i] + 1
             a == AgentAt(i, j)
  <2>1. stage[i] = "seed" /\ stage[i] \in Derives /\ UNCHANGED <<doc, mandate>>
    BY <1>9 DEF CommitSeed, input, Derives
  <2>2. finished[i] < Size(i) /\ finished[i] \in Nat
    BY <2>1 DEF StagesInv, StageOf
  <2>3. /\ Len(starts[i]) = Size(i) /\ Size(i) \in Nat
        /\ \A k \in 1 .. Size(i) : /\ starts[i][k] = StartOf(i, AgentAt(i, k)[2])
                                   /\ AgentAt(i, k) \in Agent /\ AgentAt(i, k)[2] \in Nodes(doc[i])
                                   /\ AgentAt(i, k) = <<i, AgentAt(i, k)[2]>>
        /\ \A n \in Nodes(doc[i]) : \E k \in 1 .. Size(i) : AgentAt(i, k) = <<i, n>>
    BY <2>1, Entries
  <2>4. j \in 1 .. Size(i)
    BY <2>2, <2>3
  <2>5. a \in Agent /\ starts[i][j].agent = a
    <3>1. \A n : StartOf(i, n).agent = <<i, n>>
      BY DEF StartOf
    <3>2. a \in Agent /\ starts[i][j] = StartOf(i, a[2]) /\ a = <<i, a[2]>>
      BY <2>3, <2>4
    <3> HIDE DEF a
    <3> QED BY <3>1, <3>2, Zenon
  <2>6. mandate[a] = a[2]
    <3>1. mandate[a] # Absent
      BY <1>1, <2>1, <2>3, <2>4 DEF FilesAt
    <3> QED BY <2>5, <3>1 DEF FilesInv, FileOf
  <2>7. CommitTree(a, [mandate |-> a[2], ticked |-> FALSE]) /\ Step(i, Size(i), "connect")
    BY <1>9, <2>3, <2>5, <2>6 DEF CommitSeed
  <2> HIDE DEF a, j
  <2>8. /\ DOMAIN commits' = Agent
        /\ commits'[a] \in Seq([mandate : {a[2]}, ticked : BOOLEAN])
        /\ commits'[a] # <<>> /\ commits'[a][1] = Baseline(a)
        /\ \A b \in Agent \ {a} : commits'[b] = commits[b]
    BY <2>5, <2>7, CommitIs
  <2>9. /\ \A b \in Agent : /\ FileOf(b)' /\ (mandate[b] # Absent => mandate'[b] # Absent)
                            /\ (commits[b] # <<>> => commits'[b] # <<>>)
        /\ \A k \in Apply : Committed(k) => Committed(k)'
    BY <1>1, <2>1, <2>5, <2>6, <2>8, FilesStay
  <2>10. /\ \A k \in Apply \ {i} : stage'[k] = stage[k] /\ finished'[k] = finished[k]
         /\ \/ stage'[i] = "connect" /\ finished'[i] = 0 /\ finished[i] + 1 = Size(i)
            \/ stage'[i] = stage[i] /\ finished'[i] = finished[i] + 1
    BY <2>2, <2>3, <2>7, StepIs
  <2>11. \A k \in 1 .. j : commits'[AgentAt(i, k)] # <<>>
    <3>1. \A k \in 1 .. finished[i] : commits[AgentAt(i, k)] # <<>>
      BY <1>1, <2>1 DEF FilesAt
    <3>2. \A k \in 1 .. j : k \in 1 .. Size(i) /\ (k \in 1 .. finished[i] \/ k = j)
      BY <2>2, <2>3, <2>4 DEF j
    <3> QED BY <2>3, <2>8, <2>9, <3>1, <3>2 DEF a
  <2>12. FilesAt(i)'
    <3>1. CASE stage'[i] = "connect" /\ finished'[i] = 0 /\ finished[i] + 1 = Size(i)
      <4>1. Committed(i)'
        BY <2>1, <2>3, <2>11, <3>1 DEF j, Committed
      <4> QED BY <3>1, <4>1 DEF FilesAt
    <3>2. CASE stage'[i] = stage[i] /\ finished'[i] = finished[i] + 1
      BY <1>1, <1>2, <2>1, <2>11, <3>2 DEF FilesAt, j
    <3> QED BY <2>10, <3>1, <3>2
  <2>13. \A k \in Apply : FilesAt(k)'
    BY <2>1, <2>9, <2>10, <2>12, FilesKept
  <2> QED BY <1>1, <1>2, <2>1, <2>8, <2>9, <2>13 DEF FilesInv
<1>10. ASSUME NEW i \in Apply, Progress(i) \/ ApplyFails(i) \/ Rollback(i) \/ DropGraph(i)
       PROVE  Result
  <2>1. \/ LoadGraph(i) \/ SelectGraph(i) \/ InsertGraph(i) \/ InsertRows(i) \/ CommitRows(i)
        \/ BuildStarts(i) \/ BuildTemporalClient(i) \/ StartWorkflow(i) \/ SignalSeed(i)
        \/ ApplyFails(i) \/ Rollback(i) \/ DropGraph(i) \/ Materialize(i) \/ CommitSeed(i)
    BY <1>10 DEF Progress
  <2> HIDE DEF Result
  <2> QED BY <1>7, <1>8, <1>9, <2>1, QuietSteps, Zenon
<1> HIDE DEF Result
<1>11. Result
  BY <1>4, <1>5, <1>6, <1>10, Zenon DEF ApplyNext
<1> QED BY <1>11 DEF Result

-----------------------------------------------------------------------------
(* Workflows.                                                              *)

\* What is written stays written, until the operator drops it.
LEMMA WrittenStays ==
    ASSUME DocAssumption, StagesInv, RowsInv, [ApplyNext]_applyVars,
           NEW i \in Apply, i \in dropped \/ Written(i)
    PROVE  (i \in dropped \/ Written(i))'
<1> DEFINE Result == (i \in dropped \/ Written(i))'
<1>1. ASSUME doc' = doc PROVE RowsOf(i)' = RowsOf(i) /\ GraphRow(i)' = GraphRow(i)
  BY <1>1, DocsStay
<1>2. ASSUME doc' = doc, rows' = rows, dropped' = dropped PROVE Result
  BY <1>1, <1>2 DEF Written
<1>3. ASSUME UNCHANGED applyVars PROVE Result
  BY <1>2, <1>3 DEF applyVars, client, input, db
<1>4. ASSUME NEW w \in DOMAIN workflow, FirstTick(w) \/ Close(w) PROVE Result
  BY <1>2, <1>4 DEF FirstTick, Close, client, input, db
<1>5. ASSUME NEW j \in Apply, CommitRows(j) PROVE Result
  <2>1. /\ UNCHANGED <<doc, dropped>>
        /\ rows'.graphs = rows.graphs \cup tx[j].graphs
        /\ rows'.agents = rows.agents \cup tx[j].agents
        /\ rows'.edges = rows.edges \cup tx[j].edges
    BY <1>5 DEF CommitRows, input
  <2> QED BY <1>1, <2>1 DEF Written
<1>6. ASSUME NEW j \in Apply, DropGraph(j) PROVE Result
  <2>1. /\ UNCHANGED doc /\ dropped' = dropped \cup {j}
        /\ rows'.graphs = {g \in rows.graphs : g.id # j}
        /\ rows'.agents = {a \in rows.agents : a.graph # j}
        /\ rows'.edges = {e \in rows.edges : e[2][1] # j}
    BY <1>6 DEF DropGraph, client, input
  <2>2. ASSUME j # i, Written(i) PROVE Written(i)'
    <3>1. IsGraphYaml(doc[i])
      BY DEF StagesInv, StageOf, DocAssumption
    <3>2. /\ \A r \in RowsOf(i).agents : r.graph = i
          /\ \A e \in RowsOf(i).edges : e[2][1] = i
      BY <3>1, RowsAre
    <3>3. GraphRow(i).id = i
      BY DEF GraphRow
    <3> QED BY <1>1, <2>1, <2>2, <3>2, <3>3 DEF Written
  <2> QED BY <2>1, <2>2
<1>7. ASSUME NEW j \in Apply, InsertGraph(j) \/ InsertRows(j) \/ Rollback(j) PROVE Result
  BY <1>2, <1>7 DEF InsertGraph, InsertRows, Rollback, client, input
<1>8. ASSUME NEW j \in Apply, Progress(j) \/ ApplyFails(j) PROVE Result
  <2>1. \/ InsertGraph(j) \/ InsertRows(j) \/ CommitRows(j)
        \/ LoadGraph(j) \/ SelectGraph(j) \/ BuildStarts(j) \/ Materialize(j) \/ CommitSeed(j)
        \/ BuildTemporalClient(j) \/ StartWorkflow(j) \/ SignalSeed(j) \/ ApplyFails(j)
    BY <1>8 DEF Progress
  <2> HIDE DEF Result
  <2> QED BY <1>2, <1>5, <1>7, <2>1, MovesAre, Zenon
<1> HIDE DEF Result
<1>9. Result
  BY <1>3, <1>4, <1>6, <1>7, <1>8, Zenon DEF ApplyNext
<1> QED BY <1>9 DEF Result

\* How an invocation's stage changes: it starts workflows once it is connected.
LEMMA StageGoes ==
    ASSUME DocAssumption, StagesInv, [ApplyNext]_applyVars, NEW i \in Apply
    PROVE  /\ doc' = doc /\ validity' = validity
           /\ stage[i] \in Launches => stage'[i] \in Launches /\ applied'[i] = applied[i]
           /\ stage'[i] = "start" => \/ stage[i] = "start"
                                     \/ stage[i] = "connect" /\ finished'[i] = 0
           /\ stage'[i] \in {"signal", "done"} => stage[i] \in {"start", "signal", "done"}
           /\ stage'[i] = "signal" => stage[i] # "done"
           /\ stage'[i] \notin {"signal", "done", "failed"} =>
                stage[i] \notin {"signal", "done", "failed"}
           /\ stage[i] = "start" => \/ StartWorkflow(i) \/ stage'[i] = "failed"
                                    \/ stage'[i] = "start" /\ finished'[i] = finished[i]
           /\ stage[i] = "signal" => \/ SignalSeed(i) \/ stage'[i] = "failed"
                                     \/ stage'[i] = "signal" /\ finished'[i] = finished[i]
<1> DEFINE Result ==
        /\ doc' = doc /\ validity' = validity
        /\ stage[i] \in Launches => stage'[i] \in Launches /\ applied'[i] = applied[i]
        /\ stage'[i] = "start" => \/ stage[i] = "start"
                                  \/ stage[i] = "connect" /\ finished'[i] = 0
        /\ stage'[i] \in {"signal", "done"} => stage[i] \in {"start", "signal", "done"}
        /\ stage'[i] = "signal" => stage[i] # "done"
        /\ stage'[i] \notin {"signal", "done", "failed"} =>
             stage[i] \notin {"signal", "done", "failed"}
        /\ stage[i] = "start" => \/ StartWorkflow(i) \/ stage'[i] = "failed"
                                 \/ stage'[i] = "start" /\ finished'[i] = finished[i]
        /\ stage[i] = "signal" => \/ SignalSeed(i) \/ stage'[i] = "failed"
                                  \/ stage'[i] = "signal" /\ finished'[i] = finished[i]
<1> USE DEF Go, Launches
<1>1. /\ DOMAIN stage = Apply /\ DOMAIN applied = Apply /\ DOMAIN finished = Apply
      /\ stage[i] = "connect" => finished[i] = 0
  BY DEF StagesInv, StageOf
<1>2. ASSUME UNCHANGED <<doc, validity, stage, applied>>,
             stage[i] \in {"start", "signal"} => finished'[i] = finished[i]
      PROVE  Result
  BY <1>2
<1>3. ASSUME UNCHANGED applyVars PROVE Result
  BY <1>2, <1>3 DEF applyVars, client, input, derived
<1>4. ASSUME NEW w \in DOMAIN workflow, FirstTick(w) \/ Close(w) PROVE Result
  BY <1>2, <1>4 DEF FirstTick, Close, client, input, derived
<1>5. ASSUME NEW j \in Apply, UNCHANGED <<doc, validity>>, NEW to, UNCHANGED applied,
             stage' = [stage EXCEPT ![j] = to],
             to \notin {"start", "signal", "done"},
             \A k \in Apply \ {j} : finished'[k] = finished[k],
             stage[j] \in {"signal", "done", "failed"} => to = "failed",
             stage[j] \in Launches => to \in Launches
      PROVE  Result
  <2>1. CASE j = i
    BY <1>1, <1>5, <2>1
  <2>2. CASE j # i
    BY <1>1, <1>5, <2>2
  <2> QED BY <2>1, <2>2
<1>6. ASSUME NEW j \in Apply, LoadGraph(j) PROVE Result
  <2>1. stage[j] = "load" /\ UNCHANGED <<input, derived, finished>>
        /\ \E to \in {"select", "invalid"} : stage' = [stage EXCEPT ![j] = to]
    BY <1>6 DEF LoadGraph
  <2> QED BY <1>5, <2>1 DEF input, derived
<1>7. ASSUME NEW j \in Apply, SelectGraph(j) PROVE Result
  <2>1. stage[j] = "select" /\ UNCHANGED <<input, derived, finished>>
        /\ \E to \in {"refused", "insert"} : stage' = [stage EXCEPT ![j] = to]
    BY <1>7 DEF SelectGraph
  <2> QED BY <1>5, <2>1 DEF input, derived
<1>8. ASSUME NEW j \in Apply, InsertGraph(j) PROVE Result
  <2>1. stage[j] = "insert" /\ UNCHANGED <<input, derived, finished>>
        /\ \E to \in {"refused", "walk"} : stage' = [stage EXCEPT ![j] = to]
    BY <1>8 DEF InsertGraph
  <2> QED BY <1>5, <2>1 DEF input, derived
<1>9. ASSUME NEW j \in Apply, InsertRows(j) PROVE Result
  <2>1. stage[j] = "walk" /\ UNCHANGED <<input, finished>> /\ stage' = [stage EXCEPT ![j] = "commit"]
        /\ applied' = [applied EXCEPT ![j] = Walk(j)]
    BY <1>9 DEF InsertRows
  <2> QED BY <1>1, <2>1 DEF input
<1>10. ASSUME NEW j \in Apply, CommitRows(j) PROVE Result
  <2>1. stage[j] = "commit" /\ UNCHANGED <<input, derived, finished>>
        /\ stage' = [stage EXCEPT ![j] = "build"]
    BY <1>10 DEF CommitRows
  <2> QED BY <1>5, <2>1 DEF input, derived
<1>11. ASSUME NEW j \in Apply, BuildStarts(j) PROVE Result
  <2>1. stage[j] = "build" /\ UNCHANGED <<input, applied, finished>>
        /\ \E to \in {"panicked", "failed", "materialize"} : stage' = [stage EXCEPT ![j] = to]
    BY <1>11 DEF BuildStarts
  <2> QED BY <1>5, <2>1 DEF input
<1>12. ASSUME NEW j \in Apply, BuildTemporalClient(j) PROVE Result
  BY <1>1, <1>12 DEF BuildTemporalClient, input, derived
<1>13. ASSUME NEW j \in Apply, ApplyFails(j) PROVE Result
  <2>1. UNCHANGED <<input, derived, finished>> /\ stage' = [stage EXCEPT ![j] = "failed"]
    BY <1>13 DEF ApplyFails
  <2> QED BY <1>5, <2>1 DEF input, derived
<1>14. ASSUME NEW n, NEW to, NEW j, Step(j, n, to)
       PROVE  /\ stage' = stage \/ stage' = [stage EXCEPT ![j] = to]
              /\ \A k \in Apply \ {j} : finished'[k] = finished[k]
  BY <1>1, <1>14 DEF Step
<1>15. ASSUME NEW j \in Apply, Materialize(j) PROVE Result
  <2>1. stage[j] = "materialize" /\ UNCHANGED <<input, derived>> /\ Step(j, Len(starts[j]), "seed")
    BY <1>15 DEF Materialize
  <2>2. /\ stage' = stage \/ stage' = [stage EXCEPT ![j] = "seed"]
        /\ \A k \in Apply \ {j} : finished'[k] = finished[k]
    BY <1>14, <2>1
  <2>3. CASE stage' = stage
    BY <1>2, <2>1, <2>2, <2>3 DEF input, derived
  <2>4. CASE stage' = [stage EXCEPT ![j] = "seed"]
    <3> HIDE DEF Result
    <3> QED BY <1>5, <2>1, <2>2, <2>4 DEF input, derived
  <2> QED BY <2>2, <2>3, <2>4
<1>16. ASSUME NEW j \in Apply, CommitSeed(j) PROVE Result
  <2>1. stage[j] = "seed" /\ UNCHANGED <<input, derived>> /\ Step(j, Len(starts[j]), "connect")
    BY <1>16 DEF CommitSeed
  <2>2. /\ stage' = stage \/ stage' = [stage EXCEPT ![j] = "connect"]
        /\ \A k \in Apply \ {j} : finished'[k] = finished[k]
    BY <1>14, <2>1
  <2>3. CASE stage' = stage
    BY <1>2, <2>1, <2>2, <2>3 DEF input, derived
  <2>4. CASE stage' = [stage EXCEPT ![j] = "connect"]
    <3> HIDE DEF Result
    <3> QED BY <1>5, <2>1, <2>2, <2>4 DEF input, derived
  <2> QED BY <2>2, <2>3, <2>4
<1>17. ASSUME NEW j \in Apply, StartWorkflow(j) PROVE Result
  <2>1. stage[j] = "start" /\ UNCHANGED <<input, derived>> /\ StartWorkflow(j)
        /\ \/ stage' = [stage EXCEPT ![j] = "failed"]
           \/ Step(j, Len(starts[j]), "signal")
        /\ (finished' = finished \/ Step(j, Len(starts[j]), "signal"))
    BY <1>17 DEF StartWorkflow
  <2>2. \/ stage' = stage \/ stage' = [stage EXCEPT ![j] = "signal"]
        \/ stage' = [stage EXCEPT ![j] = "failed"]
    BY <1>14, <2>1
  <2>3. \A k \in Apply \ {j} : finished'[k] = finished[k]
    BY <1>14, <2>1
  <2> QED BY <1>1, <2>1, <2>2, <2>3 DEF input, derived
<1>18. ASSUME NEW j \in Apply, SignalSeed(j) PROVE Result
  <2>1. stage[j] = "signal" /\ UNCHANGED <<input, derived>> /\ SignalSeed(j)
        /\ \/ stage' = [stage EXCEPT ![j] = "failed"]
           \/ Step(j, Len(triggers[j]), "done")
        /\ (finished' = finished \/ Step(j, Len(triggers[j]), "done"))
    BY <1>18 DEF SignalSeed
  <2>2. \/ stage' = stage \/ stage' = [stage EXCEPT ![j] = "done"]
        \/ stage' = [stage EXCEPT ![j] = "failed"]
    BY <1>14, <2>1
  <2>3. \A k \in Apply \ {j} : finished'[k] = finished[k]
    BY <1>14, <2>1
  <2> QED BY <1>1, <2>1, <2>2, <2>3 DEF input, derived
<1>19. ASSUME NEW j \in Apply, Rollback(j) \/ DropGraph(j) PROVE Result
  BY <1>2, <1>19 DEF Rollback, DropGraph, client, input, derived
<1> HIDE DEF Result
<1>20. Result
  BY <1>3, <1>4, <1>6, <1>7, <1>8, <1>9, <1>10, <1>11, <1>12, <1>13, <1>15, <1>16, <1>17, <1>18,
     <1>19, Zenon DEF ApplyNext, Progress
<1> QED BY <1>20 DEF Result

State == {"started", "running", "closed"}

\* A workflow that a step does not start stays one of a graph that is written.
LEMMA FlowStays ==
    ASSUME DocAssumption, StagesInv, RowsInv, FilesInv, FlowsInv, [ApplyNext]_applyVars,
           NEW w \in DOMAIN workflow, DOMAIN workflow \subseteq DOMAIN workflow',
           workflow'[w] \in [input : {workflow[w].input}, state : State,
                             queue : Seq(Nat), first : Seq(Nat)],
           workflow'[w].state = "started" => workflow'[w].first = <<>>
    PROVE  FlowOf(w)'
<1> DEFINE i == w[1]
<1>1. w \in Agent /\ FlowOf(w)
  BY DEF FlowsInv
<1>2. i \in Apply
  BY <1>1, AgentIs
<1>3. /\ doc' = doc /\ validity' = validity
      /\ stage[i] \in Launches => stage'[i] \in Launches /\ applied'[i] = applied[i]
  BY <1>2, StageGoes
<1>4. /\ StartOf(w[1], w[2])' = StartOf(w[1], w[2]) /\ Walk(i)' = Walk(i)
  BY <1>3, DocsStay
<1>5. Committed(i)'
  BY <1>1, <1>2, FilesStep DEF FlowOf
<1>6. (i \in dropped \/ Written(i))'
  BY <1>1, <1>2, WrittenStays DEF FlowOf
<1>7. workflow[w].input = StartOf(w[1], w[2])
  BY <1>1 DEF FlowOf
<1> QED BY <1>1, <1>3, <1>4, <1>5, <1>6, <1>7 DEF FlowOf, State

LEMMA FlowsInit == ASSUME ApplyInit PROVE FlowsInv
<1>1. workflow = [w \in {} |-> Absent] /\ \A i \in Apply : stage[i] = "load"
  BY DEF ApplyInit
<1>2. DOMAIN workflow = {}
  BY <1>1
<1> QED BY <1>1, <1>2 DEF FlowsInv, FlowsAt

\* What StartWorkflow adds.
LEMMA StartIs ==
    ASSUME DocAssumption, StagesInv, FlowsInv, NEW i \in Apply, StartWorkflow(i)
    PROVE  \/ stage'[i] = "failed" /\ workflow' = workflow
           \/ LET w == AgentAt(i, finished[i] + 1)
              IN  /\ w \in Agent /\ w[1] = i /\ w[2] \in Nodes(doc[i]) /\ w = <<i, w[2]>>
                  /\ w \notin DOMAIN workflow /\ DOMAIN workflow' = DOMAIN workflow \cup {w}
                  /\ \A v \in DOMAIN workflow : workflow'[v] = workflow[v]
                  /\ workflow'[w] = [input |-> StartOf(i, w[2]), state |-> "started",
                                     queue |-> <<>>, first |-> <<>>]
                  /\ Up(i, w[2]) # Absent => Up(i, w[2]) \in DOMAIN workflow
                  /\ \/ stage'[i] = "signal" /\ finished'[i] = 0 /\ finished[i] + 1 = Size(i)
                     \/ stage'[i] = "start" /\ finished'[i] = finished[i] + 1
<1> DEFINE j == finished[i] + 1
           w == AgentAt(i, j)
<1>1. stage[i] = "start" /\ stage[i] \in Derives /\ DOMAIN stage = Apply
  BY DEF StartWorkflow, Derives, StagesInv
<1>2. finished[i] < Size(i) /\ finished[i] \in Nat
  BY <1>1 DEF StagesInv, StageOf
<1>3. /\ Len(starts[i]) = Size(i) /\ Size(i) \in Nat /\ Good(i) /\ doc[i] \in Docs
      /\ \A k \in 1 .. Size(i) : /\ starts[i][k] = StartOf(i, AgentAt(i, k)[2])
                                 /\ AgentAt(i, k) \in Agent /\ AgentAt(i, k)[1] = i
                                 /\ AgentAt(i, k)[2] \in Nodes(doc[i])
                                 /\ AgentAt(i, k) = <<i, AgentAt(i, k)[2]>>
  BY <1>1, Entries
<1>4. j \in 1 .. Size(i)
  BY <1>2, <1>3
<1>5. /\ w \in Agent /\ w[1] = i /\ w[2] \in Nodes(doc[i]) /\ w = <<i, w[2]>>
      /\ starts[i][j] = StartOf(i, w[2])
  BY <1>3, <1>4
<1>6. starts[i][j].workflow = w
  <2>1. StartOf(i, w[2]).workflow = <<i, w[2]>>
    BY DEF StartOf
  <2> HIDE DEF w
  <2> QED BY <1>5, <2>1
<1>7. Up(i, w[2]) # Absent => Up(i, w[2]) \in DOMAIN workflow
  <2> DEFINE n == Preorder(doc[i])[j]
  <2>1. w = <<i, n>> /\ w[2] = n /\ n \in Nodes(doc[i])
    BY <1>5 DEF AgentAt
  <2> SUFFICES ASSUME Up(i, n) # Absent PROVE Up(i, n) \in DOMAIN workflow
    BY <2>1
  <2>2. Len(n) # 1 /\ Up(i, n) = <<i, ParentOf(n)>>
    BY <1>3, <2>1, UpIs
  <2>3. n \in Position
    BY <1>3, <2>1 DEF Good, IsGraphYaml, Position
  <2>4. Len(n) > 1
    <3>1. Len(n) \in Nat /\ Len(n) # 0 /\ Len(n) # 1
      BY <2>2, <2>3 DEF Position
    <3>2. \A l \in Nat : l # 0 /\ l # 1 => l > 1
      OBVIOUS
    <3> QED BY <3>1, <3>2, Zenon
  <2>5. PICK k \in 1 .. j - 1 : Preorder(doc[i])[k] = Front(n)
    BY <1>3, <1>4, <2>4, WalkOrder DEF Good, Size
  <2>6. ParentOf(n) = Front(n)
    BY <2>2, Zenon DEF ParentOf
  <2>7. AgentAt(i, k) = Up(i, n) /\ k \in 1 .. finished[i]
    BY <1>2, <2>2, <2>5, <2>6 DEF AgentAt
  <2> QED BY <1>1, <2>7 DEF FlowsInv, FlowsAt
<1>8. CASE w \in DOMAIN workflow
  <2>1. Go(i, "failed") /\ workflow' = workflow
    BY <1>6, <1>8 DEF StartWorkflow
  <2> QED BY <1>1, <2>1 DEF Go
<1>9. CASE w \notin DOMAIN workflow
  <2>1. /\ workflow' = [v \in DOMAIN workflow \cup {w} |->
                IF v = w THEN [input |-> starts[i][j], state |-> "started",
                               queue |-> <<>>, first |-> <<>>]
                ELSE workflow[v]]
        /\ Step(i, Len(starts[i]), "signal")
    BY <1>6, <1>9 DEF StartWorkflow
  <2>2. \/ stage'[i] = "signal" /\ finished'[i] = 0 /\ finished[i] + 1 = Size(i)
        \/ stage'[i] = "start" /\ finished'[i] = finished[i] + 1
    BY <1>1, <1>2, <1>3, <2>1, StepIs
  <2> HIDE DEF w, j
  <2>3. /\ DOMAIN workflow' = DOMAIN workflow \cup {w}
        /\ \A v \in DOMAIN workflow : workflow'[v] = workflow[v]
        /\ workflow'[w] = [input |-> StartOf(i, w[2]), state |-> "started",
                           queue |-> <<>>, first |-> <<>>]
    BY <1>5, <1>9, <2>1
  <2> QED BY <1>5, <1>7, <1>9, <2>2, <2>3 DEF w, j
<1> QED BY <1>8, <1>9

\* What SignalSeed adds.
LEMMA SignalIs ==
    ASSUME DocAssumption, StagesInv, FlowsInv, NEW i \in Apply, SignalSeed(i)
    PROVE  \/ stage'[i] = "failed" /\ workflow' = workflow
           \/ \E n \in Nodes(doc[i]) :
                LET k == finished[i] + 1
                    w == <<i, n>>
                IN  /\ k \in 1 .. Len(doc[i].triggers) /\ k \in Nat
                    /\ doc[i].id[n] = doc[i].triggers[k].agent
                    /\ w \in DOMAIN workflow /\ DOMAIN workflow' = DOMAIN workflow
                    /\ \A v \in DOMAIN workflow \ {w} : workflow'[v] = workflow[v]
                    /\ workflow'[w] = [workflow[w] EXCEPT !.queue = Append(@, k)]
                    /\ \/ stage'[i] = "done"
                       \/ stage'[i] = "signal" /\ finished'[i] = k
<1> DEFINE k == finished[i] + 1
           seed == triggers[i][k]
<1>1. /\ stage[i] = "signal" /\ stage[i] \in Derives /\ DOMAIN stage = Apply
      /\ finished[i] < Len(doc[i].triggers) /\ finished[i] \in Nat
  BY DEF SignalSeed, Derives, StagesInv, StageOf
<1>2. Good(i) /\ doc[i] \in Docs
  BY <1>1, Entries
<1>3. triggers[i] = YamlSeedTriggers(doc[i], Walk(i))
  BY <1>1 DEF StagesInv, StageOf
<1>4. /\ Len(doc[i].triggers) \in Nat /\ Len(triggers[i]) = Len(doc[i].triggers)
      /\ DOMAIN triggers[i] = 1 .. Len(doc[i].triggers)
      /\ \A t \in DOMAIN triggers[i] :
           /\ triggers[i][t].trigger = t
           /\ \E n \in Nodes(doc[i]) : /\ doc[i].id[n] = doc[i].triggers[t].agent
                                       /\ triggers[i][t].workflow = <<i, n>>
  <2> DEFINE seeds == YamlSeedTriggers(doc[i], Walk(i))
  <2>1. /\ Len(doc[i].triggers) \in Nat /\ Len(seeds) = Len(doc[i].triggers)
        /\ DOMAIN seeds = 1 .. Len(doc[i].triggers)
        /\ \A t \in DOMAIN seeds :
             /\ seeds[t].trigger = t
             /\ \E n \in Nodes(doc[i]) : /\ doc[i].id[n] = doc[i].triggers[t].agent
                                         /\ seeds[t].workflow = <<i, n>>
    BY <1>2, Derived
  <2> HIDE DEF seeds
  <2> QED BY <1>3, <2>1 DEF seeds
<1>5. k \in 1 .. Len(doc[i].triggers)
  BY <1>1, <1>4
<1>6. PICK n \in Nodes(doc[i]) : doc[i].id[n] = doc[i].triggers[k].agent /\ seed.workflow = <<i, n>>
  BY <1>4, <1>5
<1>7. seed.trigger = k
  BY <1>4, <1>5
<1> DEFINE w == <<i, n>>
<1>8. w \in DOMAIN workflow
  BY <1>1 DEF FlowsInv, FlowsAt
<1>9. CASE Go(i, "failed") /\ workflow' = workflow
  BY <1>1, <1>9 DEF Go
<1>10. CASE ~ (Go(i, "failed") /\ workflow' = workflow)
  <2>1. /\ workflow' = [workflow EXCEPT ![seed.workflow].queue = Append(@, seed.trigger)]
        /\ Step(i, Len(triggers[i]), "done")
    BY <1>10 DEF SignalSeed
  <2>2. stage'[i] = "done" \/ (stage'[i] = "signal" /\ finished'[i] = k)
    <3>1. Step(i, Len(doc[i].triggers), "done")
      BY <1>4, <2>1
    <3> QED BY <1>1, <1>4, <3>1, StepIs
  <2>3. workflow' = [workflow EXCEPT ![w] = [workflow[w] EXCEPT !.queue = Append(@, k)]]
    <3> HIDE DEF seed, w, k
    <3>1. seed.workflow = w /\ seed.trigger = k
      BY <1>6, <1>7 DEF w
    <3> QED BY <2>1, <3>1
  <2>4. /\ DOMAIN workflow' = DOMAIN workflow
        /\ \A v \in DOMAIN workflow \ {w} : workflow'[v] = workflow[v]
        /\ workflow'[w] = [workflow[w] EXCEPT !.queue = Append(@, k)]
    <3> HIDE DEF w, k
    <3> QED BY <1>8, <2>3
  <2>5. k \in Nat
    BY <1>1
  <2> QED BY <1>5, <1>6, <1>8, <2>2, <2>4, <2>5, Zenon
<1> QED BY <1>9, <1>10, Zenon

\* Every other action leaves the workflows as they are.
LEMMA WorkflowsStay ==
    ASSUME [ApplyNext]_applyVars
    PROVE  \/ \E i \in Apply : StartWorkflow(i) \/ SignalSeed(i)
           \/ \E w \in DOMAIN workflow : FirstTick(w) \/ Close(w)
           \/ workflow' = workflow
<1>1. CASE UNCHANGED applyVars
  BY <1>1 DEF applyVars
<1>2. ASSUME NEW i \in Apply, LoadGraph(i) \/ SelectGraph(i) \/ InsertGraph(i) \/ InsertRows(i)
      PROVE  workflow' = workflow
  BY <1>2 DEF LoadGraph, SelectGraph, InsertGraph, InsertRows
<1>3. ASSUME NEW i \in Apply, CommitRows(i) \/ BuildStarts(i) \/ Materialize(i) \/ CommitSeed(i)
      PROVE  workflow' = workflow
  BY <1>3 DEF CommitRows, BuildStarts, Materialize, CommitSeed
<1>4. ASSUME NEW i \in Apply,
             BuildTemporalClient(i) \/ ApplyFails(i) \/ Rollback(i) \/ DropGraph(i)
      PROVE  workflow' = workflow
  BY <1>4 DEF BuildTemporalClient, ApplyFails, Rollback, DropGraph
<1> QED BY <1>1, <1>2, <1>3, <1>4, Zenon DEF ApplyNext, Progress

\* A workflow keeps its input, and a new one is its own agent's.
LEMMA FlowGoes ==
    ASSUME DocAssumption, StagesInv, FlowsInv, [ApplyNext]_applyVars
    PROVE  /\ DOMAIN workflow \subseteq DOMAIN workflow'
           /\ \A w \in DOMAIN workflow :
                /\ workflow'[w] \in [input : {workflow[w].input}, state : State,
                                     queue : Seq(Nat), first : Seq(Nat)]
                /\ workflow'[w].state = "started" => workflow'[w].first = <<>>
           /\ \A w \in DOMAIN workflow' \ DOMAIN workflow :
                /\ w \in Agent /\ stage[w[1]] = "start" /\ stage'[w[1]] \in Launches
                /\ workflow'[w] = [input |-> StartOf(w[1], w[2]), state |-> "started",
                                   queue |-> <<>>, first |-> <<>>]
                /\ Up(w[1], w[2]) # Absent => Up(w[1], w[2]) \in DOMAIN workflow
<1> DEFINE Fits(w) == /\ workflow'[w] \in [input : {workflow[w].input}, state : State,
                                           queue : Seq(Nat), first : Seq(Nat)]
                      /\ workflow'[w].state = "started" => workflow'[w].first = <<>>
           Result == /\ DOMAIN workflow \subseteq DOMAIN workflow'
                     /\ \A w \in DOMAIN workflow : Fits(w)
                     /\ \A w \in DOMAIN workflow' \ DOMAIN workflow :
                         /\ w \in Agent /\ stage[w[1]] = "start" /\ stage'[w[1]] \in Launches
                         /\ workflow'[w] = [input |-> StartOf(w[1], w[2]), state |-> "started",
                                            queue |-> <<>>, first |-> <<>>]
                         /\ Up(w[1], w[2]) # Absent => Up(w[1], w[2]) \in DOMAIN workflow
<1>1. \A w \in DOMAIN workflow :
        /\ workflow[w] \in [input : {workflow[w].input}, state : State,
                            queue : Seq(Nat), first : Seq(Nat)]
        /\ workflow[w].state = "started" => workflow[w].first = <<>>
  BY DEF FlowsInv, FlowOf, State
<1>2. ASSUME workflow' = workflow PROVE Result
  BY <1>1, <1>2
<1>3. ASSUME NEW i \in Apply, StartWorkflow(i) PROVE Result
  <2> DEFINE w == AgentAt(i, finished[i] + 1)
  <2>1. CASE stage'[i] = "failed" /\ workflow' = workflow
    BY <1>2, <2>1
  <2>2. CASE /\ w \in Agent /\ w[1] = i /\ w[2] \in Nodes(doc[i]) /\ w = <<i, w[2]>>
             /\ w \notin DOMAIN workflow /\ DOMAIN workflow' = DOMAIN workflow \cup {w}
             /\ \A v \in DOMAIN workflow : workflow'[v] = workflow[v]
             /\ workflow'[w] = [input |-> StartOf(i, w[2]), state |-> "started",
                                queue |-> <<>>, first |-> <<>>]
             /\ Up(i, w[2]) # Absent => Up(i, w[2]) \in DOMAIN workflow
             /\ stage'[i] \in {"signal", "start"}
    <3>1. stage[i] = "start"
      BY <1>3 DEF StartWorkflow
    <3> HIDE DEF w
    <3>2. \A v \in DOMAIN workflow : Fits(v)
      BY <1>1, <2>2
    <3>3. \A v \in DOMAIN workflow' \ DOMAIN workflow : v = w
      BY <2>2
    <3>4. stage'[i] \in Launches
      BY <2>2 DEF Launches
    <3> QED BY <2>2, <3>1, <3>2, <3>3, <3>4
  <2>3. StagesInv /\ FlowsInv /\ StartWorkflow(i)
    BY <1>3
  <2> QED BY <2>1, <2>2, <2>3, StartIs
<1>4. ASSUME NEW i \in Apply, SignalSeed(i) PROVE Result
  <2>1. CASE workflow' = workflow
    BY <1>2, <2>1
  <2>2. ASSUME NEW w \in DOMAIN workflow, DOMAIN workflow' = DOMAIN workflow, NEW k \in Nat,
               \A v \in DOMAIN workflow \ {w} : workflow'[v] = workflow[v],
               workflow'[w] = [workflow[w] EXCEPT !.queue = Append(@, k)]
        PROVE  Result
    <3>1. Fits(w)
      <4> DEFINE old == workflow[w]
                 new == workflow'[w]
                 T == [input : {old.input}, state : State, queue : Seq(Nat), first : Seq(Nat)]
      <4>1. old \in T /\ (old.state = "started" => old.first = <<>>)
        BY <1>1, <2>2
      <4>2. Append(old.queue, k) \in Seq(Nat)
        <5>1. old.queue \in Seq(Nat)
          BY <4>1
        <5> QED BY <2>2, <5>1
      <4>3. new = [old EXCEPT !.queue = Append(old.queue, k)]
        BY <2>2
      <4> HIDE DEF old, new
      <4>4. new \in T /\ new.state = old.state /\ new.first = old.first
        BY <4>1, <4>2, <4>3
      <4> QED BY <4>1, <4>4 DEF old, new
    <3>2. \A v \in DOMAIN workflow : Fits(v)
      <4> SUFFICES ASSUME NEW v \in DOMAIN workflow, v # w PROVE Fits(v)
        BY <3>1
      <4>1. workflow'[v] = workflow[v]
        BY <2>2
      <4> QED BY <1>1, <4>1
    <3> HIDE DEF Fits
    <3> QED BY <2>2, <3>2
  <2> HIDE DEF Result
  <2> QED BY <1>4, <2>1, <2>2, SignalIs, Zenon
<1>5. ASSUME NEW w \in DOMAIN workflow, FirstTick(w) PROVE Result
  <2>1. workflow' = [workflow EXCEPT ![w] =
            [input |-> workflow[w].input, state |-> "running", queue |-> <<>>,
             first |-> workflow[w].queue]]
    BY <1>5 DEF FirstTick
  <2>2. DOMAIN workflow' = DOMAIN workflow
        /\ \A v \in DOMAIN workflow \ {w} : workflow'[v] = workflow[v]
    BY <2>1
  <2>3. Fits(w)
    <3>1. workflow'[w] = [input |-> workflow[w].input, state |-> "running", queue |-> <<>>,
                          first |-> workflow[w].queue]
      BY <1>5, <2>1
    <3>2. workflow[w].queue \in Seq(Nat) /\ <<>> \in Seq(Nat)
      BY <1>1
    <3> QED BY <3>1, <3>2 DEF State
  <2>4. \A v \in DOMAIN workflow : Fits(v)
    BY <1>1, <2>2, <2>3
  <2> HIDE DEF Fits
  <2> QED BY <2>2, <2>4
<1>6. ASSUME NEW w \in DOMAIN workflow, Close(w) PROVE Result
  <2>1. workflow' = [workflow EXCEPT ![w] = [workflow[w] EXCEPT !.state = "closed"]]
    BY <1>6 DEF Close
  <2>2. DOMAIN workflow' = DOMAIN workflow
        /\ \A v \in DOMAIN workflow \ {w} : workflow'[v] = workflow[v]
    BY <2>1
  <2>3. Fits(w)
    BY <1>1, <2>1 DEF State
  <2>4. \A v \in DOMAIN workflow : Fits(v)
    BY <1>1, <2>2, <2>3
  <2> HIDE DEF Fits
  <2> QED BY <2>2, <2>4
<1> HIDE DEF Result
<1>7. Result
  BY <1>2, <1>3, <1>4, <1>5, <1>6, WorkflowsStay, Zenon
<1> QED BY <1>7 DEF Result

LEMMA FlowsStep ==
    ASSUME DocAssumption, StagesInv, RowsInv, FilesInv, FlowsInv, [ApplyNext]_applyVars
    PROVE  FlowsInv'
<1>1. DOMAIN workflow \subseteq DOMAIN workflow' /\ DOMAIN workflow \subseteq Agent
  BY FlowGoes DEF FlowsInv
<1>2. \A i \in Apply :
        /\ doc' = doc /\ validity' = validity
        /\ stage[i] \in Launches => stage'[i] \in Launches /\ applied'[i] = applied[i]
  BY StageGoes
<1>3. Apply # {} => Agent' = Agent
  BY <1>2, DocsStay
<1>4. ASSUME NEW w \in DOMAIN workflow' PROVE FlowOf(w)' /\ w \in Agent'
  <2>1. CASE w \in DOMAIN workflow
    <3>1. FlowOf(w)'
      BY <1>1, <2>1, FlowGoes, FlowStays
    <3>2. w \in Agent /\ w[1] \in Apply
      BY <1>1, <2>1, AgentIs
    <3> QED BY <1>3, <3>1, <3>2
  <2>2. CASE w \notin DOMAIN workflow
    <3> DEFINE i == w[1]
    <3>1. /\ w \in Agent /\ stage[i] = "start" /\ stage'[i] \in Launches
          /\ workflow'[w] = [input |-> StartOf(w[1], w[2]), state |-> "started",
                             queue |-> <<>>, first |-> <<>>]
          /\ Up(w[1], w[2]) # Absent => Up(w[1], w[2]) \in DOMAIN workflow
      BY <2>2, FlowGoes
    <3>2. i \in Apply
      BY <3>1, AgentIs
    <3>3. stage[i] \in Derives /\ stage[i] \in Launches
      BY <3>1 DEF Derives, Launches
    <3>4. validity[i] = "Ok" /\ applied[i] = Walk(i)
      BY <3>2, <3>3, Entries DEF StagesInv, StageOf
    <3>5. Committed(i)'
      BY <3>1, <3>2, FilesStep DEF FilesInv, FilesAt
    <3>6. (i \in dropped \/ Written(i))'
      BY <3>2, <3>3, WrittenStays DEF RowsInv, RowsAt
    <3>7. doc' = doc /\ validity' = validity /\ applied'[i] = applied[i]
      BY <1>2, <3>2, <3>3
    <3>8. StartOf(w[1], w[2])' = StartOf(w[1], w[2]) /\ Walk(i)' = Walk(i)
      BY <3>7, DocsStay
    <3>9. workflow'[w] \in [input : {StartOf(w[1], w[2])},
                            state : {"started", "running", "closed"},
                            queue : Seq(Nat), first : Seq(Nat)]
          /\ workflow'[w].first = <<>>
      BY <3>1
    <3>10. FlowOf(w)'
      BY <1>1, <3>1, <3>4, <3>5, <3>6, <3>7, <3>8, <3>9 DEF FlowOf
    <3> QED BY <1>3, <3>1, <3>2, <3>10
  <2> QED BY <2>1, <2>2
<1>5. ASSUME NEW i \in Apply PROVE FlowsAt(i)'
  <2>1. /\ doc' = doc
        /\ stage'[i] = "start" => \/ stage[i] = "start"
                                  \/ stage[i] = "connect" /\ finished'[i] = 0
        /\ stage'[i] \in {"signal", "done"} => stage[i] \in {"start", "signal", "done"}
        /\ stage[i] = "start" => \/ StartWorkflow(i) \/ stage'[i] = "failed"
                                 \/ stage'[i] = "start" /\ finished'[i] = finished[i]
    BY StageGoes
  <2>2. FlowsAt(i) /\ \A j : AgentAt(i, j)' = AgentAt(i, j)
    BY <2>1, DocsStay DEF FlowsInv
  <2>3. CASE StartWorkflow(i)
    <3> DEFINE w == AgentAt(i, finished[i] + 1)
    <3>1. stage[i] = "start" /\ stage[i] \in Derives
      BY <2>3 DEF StartWorkflow, Derives
    <3>2. CASE stage'[i] = "failed"
      BY <3>2 DEF FlowsAt
    <3>3. ASSUME DOMAIN workflow' = DOMAIN workflow \cup {w},
                 \/ stage'[i] = "signal" /\ finished'[i] = 0 /\ finished[i] + 1 = Size(i)
                 \/ stage'[i] = "start" /\ finished'[i] = finished[i] + 1
          PROVE  FlowsAt(i)'
      <4>1. finished[i] \in Nat
        BY <3>1, Entries
      <4>2. \A j \in 1 .. finished[i] + 1 : AgentAt(i, j) \in DOMAIN workflow'
        <5>1. \A j \in 1 .. finished[i] + 1 : j \in 1 .. finished[i] \/ j = finished[i] + 1
          BY <4>1
        <5> QED BY <2>2, <3>1, <3>3, <5>1 DEF FlowsAt
      <4>3. CASE stage'[i] = "start" /\ finished'[i] = finished[i] + 1
        BY <2>2, <4>2, <4>3 DEF FlowsAt
      <4>4. CASE stage'[i] = "signal" /\ finished[i] + 1 = Size(i)
        <5>1. \A n \in Nodes(doc[i]) : \E j \in 1 .. Size(i) : AgentAt(i, j) = <<i, n>>
          BY <3>1, Entries
        <5>2. \A n \in Nodes(doc[i]) : <<i, n>> \in DOMAIN workflow'
          BY <4>2, <4>4, <5>1
        <5> QED BY <2>1, <4>4, <5>2 DEF FlowsAt
      <4> QED BY <3>3, <4>3, <4>4
    <3> QED BY <2>3, <3>2, <3>3, StartIs
  <2>4. CASE ~StartWorkflow(i)
    <3>1. CASE stage'[i] = "start"
      BY <1>1, <2>1, <2>2, <2>4, <3>1 DEF FlowsAt
    <3>2. CASE stage'[i] \in {"signal", "done"}
      BY <1>1, <2>1, <2>2, <2>4, <3>2 DEF FlowsAt
    <3>3. CASE stage'[i] \notin {"start", "signal", "done"}
      BY <3>3 DEF FlowsAt
    <3> QED BY <3>1, <3>2, <3>3
  <2> QED BY <2>3, <2>4
<1> QED BY <1>4, <1>5 DEF FlowsInv

-----------------------------------------------------------------------------
(* Seed triggers.                                                          *)

LEMMA LastInOrder ==
    ASSUME NEW s \in Seq(Nat), NEW k \in Nat, InOrder(s), \A t \in Range(s) : t < k
    PROVE  InOrder(Append(s, k)) /\ Range(Append(s, k)) = Range(s) \cup {k}
<1> DEFINE a == Append(s, k)
<1>1. /\ Len(s) \in Nat /\ DOMAIN s = 1 .. Len(s) /\ DOMAIN a = 1 .. Len(s) + 1
      /\ a[Len(s) + 1] = k /\ \A p \in DOMAIN s : a[p] = s[p]
  OBVIOUS
<1> HIDE DEF a
<1>2. \A p \in DOMAIN a : p \in DOMAIN s \/ p = Len(s) + 1
  BY <1>1
<1>3. \A p \in DOMAIN s : a[p] < k
  BY <1>1 DEF Range
<1>4. ASSUME NEW p \in DOMAIN a, NEW q \in DOMAIN a, p < q PROVE a[p] < a[q]
  <2>1. p \in DOMAIN s
    BY <1>1, <1>4
  <2> QED BY <1>1, <1>2, <1>3, <1>4, <2>1 DEF InOrder
<1>5. Range(a) = Range(s) \cup {k}
  <2>1. \A x \in Range(a) : x \in Range(s) \cup {k}
    BY <1>1, <1>2 DEF Range
  <2>2. \A x \in Range(s) \cup {k} : x \in Range(a)
    BY <1>1 DEF Range
  <2> QED BY <2>1, <2>2
<1> QED BY <1>4, <1>5 DEF InOrder, a

LEMMA ReceivedStays ==
    ASSUME DocAssumption, StagesInv, FlowsInv, [ApplyNext]_applyVars, NEW i \in Apply,
           ~SignalSeed(i), NEW w \in DOMAIN workflow, w[1] = i
    PROVE  Received(w)' = Received(w)
<1>1. workflow[w].queue \in Seq(Nat) /\ workflow[w].first \in Seq(Nat)
      /\ (workflow[w].state = "started" => workflow[w].first = <<>>)
  BY DEF FlowsInv, FlowOf
<1>2. CASE workflow'[w] = workflow[w]
  BY <1>2 DEF Received
<1>3. ASSUME NEW j \in Apply, StartWorkflow(j) PROVE workflow'[w] = workflow[w]
  <2>1. \/ workflow' = workflow
        \/ \A v \in DOMAIN workflow : workflow'[v] = workflow[v]
    BY <1>3, StartIs
  <2> QED BY <2>1
<1>4. ASSUME NEW j \in Apply, SignalSeed(j) PROVE workflow'[w] = workflow[w]
  <2>1. j # i
    BY <1>4
  <2>2. \A n : w # <<j, n>>
    BY <2>1
  <2>3. \/ workflow' = workflow
        \/ \E n \in Nodes(doc[j]) :
              \A v \in DOMAIN workflow \ {<<j, n>>} : workflow'[v] = workflow[v]
    BY <1>4, SignalIs, Zenon
  <2> QED BY <2>2, <2>3
<1>5. ASSUME NEW v \in DOMAIN workflow, FirstTick(v) PROVE Received(w)' = Received(w)
  <2>1. /\ workflow[v].state = "started"
        /\ workflow' = [workflow EXCEPT ![v] =
              [input |-> workflow[v].input, state |-> "running", queue |-> <<>>,
               first |-> workflow[v].queue]]
    BY <1>5 DEF FirstTick
  <2>2. CASE v # w
    BY <2>1, <2>2 DEF Received
  <2>3. CASE v = w
    <3>1. workflow[w].first = <<>> /\ workflow'[w].first = workflow[w].queue
          /\ workflow'[w].queue = <<>>
      BY <1>1, <2>1, <2>3
    <3>2. \A q \in Seq(Nat) : q \o <<>> = q /\ <<>> \o q = q
      OBVIOUS
    <3> QED BY <1>1, <3>1, <3>2 DEF Received
  <2> QED BY <2>2, <2>3
<1>6. ASSUME NEW v \in DOMAIN workflow, Close(v) PROVE Received(w)' = Received(w)
  <2>1. workflow' = [workflow EXCEPT ![v] = [workflow[v] EXCEPT !.state = "closed"]]
    BY <1>6 DEF Close
  <2>2. CASE v # w
    BY <2>1, <2>2 DEF Received
  <2>3. CASE v = w
    <3>1. workflow'[w] = [workflow[w] EXCEPT !.state = "closed"]
      BY <2>1, <2>3
    <3>2. workflow'[w].queue = workflow[w].queue /\ workflow'[w].first = workflow[w].first
      BY <3>1 DEF FlowsInv, FlowOf
    <3> QED BY <3>2 DEF Received
  <2> QED BY <2>2, <2>3
<1>7. CASE workflow' = workflow
  BY <1>7 DEF Received
<1> QED BY <1>2, <1>3, <1>4, <1>5, <1>6, <1>7, WorkflowsStay

LEMMA SeedsInit == ASSUME DocAssumption, ApplyInit PROVE SeedsInv
<1>1. \A i \in Apply : stage[i] = "load" /\ doc[i] \in Docs
  BY DEF ApplyInit
<1>2. DOMAIN workflow = {}
  BY DEF ApplyInit
<1>3. \A i \in Apply : Len(doc[i].triggers) \in Nat
  BY <1>1 DEF DocAssumption, IsGraphYaml
<1>4. ASSUME NEW i \in Apply PROVE Arrived(i, 0)
  BY <1>2 DEF Arrived
<1>5. \A i \in Apply : 0 \in 0 .. Len(doc[i].triggers)
  BY <1>3
<1> QED BY <1>1, <1>4, <1>5 DEF SeedsInv

LEMMA SeedsStep ==
    ASSUME DocAssumption, StagesInv, RowsInv, FilesInv, FlowsInv, SeedsInv,
           [ApplyNext]_applyVars
    PROVE  SeedsInv'
<1> SUFFICES ASSUME NEW i \in Apply
             PROVE  \E k \in 0 .. Len(doc'[i].triggers) :
                        /\ Arrived(i, k)'
                        /\ stage'[i] = "signal" => k = finished'[i]
                        /\ stage'[i] \notin {"signal", "done", "failed"} => k = 0
  BY DEF SeedsInv
<1>1. PICK k \in 0 .. Len(doc[i].triggers) :
        /\ Arrived(i, k)
        /\ stage[i] = "signal" => k = finished[i]
        /\ stage[i] \notin {"signal", "done", "failed"} => k = 0
  BY DEF SeedsInv
<1>2. /\ doc' = doc
      /\ stage'[i] \in {"signal", "done"} => stage[i] \in {"start", "signal", "done"}
      /\ stage'[i] = "signal" => stage[i] # "done"
      /\ stage'[i] \notin {"signal", "done", "failed"} =>
           stage[i] \notin {"signal", "done", "failed"}
      /\ stage[i] = "start" => \/ StartWorkflow(i) \/ stage'[i] = "failed"
                               \/ stage'[i] = "start" /\ finished'[i] = finished[i]
      /\ stage[i] = "signal" => \/ SignalSeed(i) \/ stage'[i] = "failed"
                                \/ stage'[i] = "signal" /\ finished'[i] = finished[i]
  BY StageGoes
<1>3. \A n : /\ SeedsDue(i, n, k)' = SeedsDue(i, n, k) /\ SeedsDue(i, n, k + 1)' = SeedsDue(i, n, k + 1)
  BY <1>2 DEF SeedsDue
<1>4. DOMAIN workflow \subseteq DOMAIN workflow'
  BY FlowGoes
<1>5. CASE ~SignalSeed(i)
  <2>1. ASSUME NEW n \in Nodes(doc[i]), <<i, n>> \in DOMAIN workflow'
        PROVE  /\ InOrder(Received(<<i, n>>)')
               /\ Range(Received(<<i, n>>)') = SeedsDue(i, n, k)
    <3> DEFINE w == <<i, n>>
    <3>1. CASE w \in DOMAIN workflow
      <4>1. Received(w)' = Received(w)
        BY <1>5, <3>1, ReceivedStays
      <4> QED BY <1>1, <3>1, <4>1 DEF Arrived
    <3>2. CASE w \notin DOMAIN workflow
      <4>1. /\ stage[w[1]] = "start"
            /\ workflow'[w] = [input |-> StartOf(w[1], w[2]), state |-> "started",
                               queue |-> <<>>, first |-> <<>>]
        BY <2>1, <3>2, FlowGoes
      <4>2. k = 0
        BY <1>1, <4>1
      <4>3. Received(w)' = <<>>
        BY <4>1 DEF Received
      <4>4. SeedsDue(i, n, k) = {}
        BY <4>2 DEF SeedsDue
      <4>5. Range(<<>>) = {} /\ InOrder(<<>>)
        BY DEF Range, InOrder
      <4> QED BY <4>3, <4>4, <4>5
    <3> QED BY <3>1, <3>2
  <2>2. Arrived(i, k)'
    BY <1>1, <1>2, <1>3, <1>4, <2>1 DEF Arrived, InOrder
  <2>3. stage'[i] = "signal" => k = finished'[i]
    <3> SUFFICES ASSUME stage'[i] = "signal" PROVE k = finished'[i]
      OBVIOUS
    <3>1. CASE stage[i] = "signal"
      BY <1>1, <1>2, <1>5, <3>1
    <3>2. CASE stage[i] = "start"
      BY <1>1, <1>2, <3>2, StartIs
    <3> QED BY <1>2, <3>1, <3>2
  <2>4. stage'[i] \notin {"signal", "done", "failed"} => k = 0
    BY <1>1, <1>2
  <2> QED BY <1>1, <1>2, <2>2, <2>3, <2>4
<1>6. CASE SignalSeed(i)
  <2>1. stage[i] = "signal" /\ k = finished[i]
    BY <1>1, <1>6 DEF SignalSeed
  <2>2. CASE stage'[i] = "failed" /\ workflow' = workflow
    <3>1. Arrived(i, k)'
      BY <1>1, <1>2, <1>3, <2>2 DEF Arrived, Received, InOrder
    <3> QED BY <1>1, <1>2, <2>2, <3>1
  <2>3. ASSUME NEW m \in Nodes(doc[i]), k + 1 \in 1 .. Len(doc[i].triggers),
               k + 1 \in Nat,
               doc[i].id[m] = doc[i].triggers[k + 1].agent,
               <<i, m>> \in DOMAIN workflow, DOMAIN workflow' = DOMAIN workflow,
               \A v \in DOMAIN workflow \ {<<i, m>>} : workflow'[v] = workflow[v],
               workflow'[<<i, m>>] = [workflow[<<i, m>>] EXCEPT !.queue = Append(@, k + 1)],
               \/ stage'[i] = "done"
               \/ stage'[i] = "signal" /\ finished'[i] = k + 1
        PROVE  \E l \in 0 .. Len(doc'[i].triggers) :
                    /\ Arrived(i, l)'
                    /\ stage'[i] = "signal" => l = finished'[i]
                    /\ stage'[i] \notin {"signal", "done", "failed"} => l = 0
    <3> DEFINE w == <<i, m>>
    <3>1. doc[i].id[m] = doc[i].id[m] /\ k \in Nat
          /\ \A n \in Nodes(doc[i]) : doc[i].id[n] = doc[i].id[m] => n = m
      <4>1. Good(i)
        BY <2>1, Entries DEF Derives
      <4> QED BY <1>1, <4>1, ValidIs DEF Good
    <3>2. \A n \in Nodes(doc[i]) \ {m} : SeedsDue(i, n, k + 1) = SeedsDue(i, n, k)
      BY <2>3, <3>1 DEF SeedsDue
    <3>3. SeedsDue(i, m, k + 1) = SeedsDue(i, m, k) \cup {k + 1} /\ \A t \in SeedsDue(i, m, k) : t < k + 1
      BY <2>3, <3>1 DEF SeedsDue
    <3>4. Received(w)' = Append(Received(w), k + 1) /\ Received(w) \in Seq(Nat)
      <4> DEFINE f == workflow[w].first
                 q == workflow[w].queue
      <4>1. /\ workflow[w] \in [input : {StartOf(w[1], w[2])}, state : State,
                                queue : Seq(Nat), first : Seq(Nat)]
        BY <2>3 DEF FlowsInv, FlowOf, State
      <4>2. f \in Seq(Nat) /\ q \in Seq(Nat)
        BY <4>1
      <4>3. workflow'[w].first = f /\ workflow'[w].queue = Append(q, k + 1)
        BY <2>3, <4>1
      <4> HIDE DEF f, q
      <4>4. f \o Append(q, k + 1) = Append(f \o q, k + 1) /\ f \o q \in Seq(Nat)
        <5>1. /\ Append(q, k + 1) = q \o <<k + 1>> /\ <<k + 1>> \in Seq(Nat)
              /\ f \o q \in Seq(Nat)
          BY <2>3, <4>2, AppendIsConcat
        <5>2. Append(f \o q, k + 1) = (f \o q) \o <<k + 1>>
          BY <2>3, <5>1, AppendIsConcat
        <5>3. (f \o q) \o <<k + 1>> = f \o (q \o <<k + 1>>)
          BY <4>2, <5>1, ConcatAssociative
        <5> QED BY <5>1, <5>2, <5>3
      <4> QED BY <4>3, <4>4 DEF Received, f, q
    <3>5. InOrder(Received(w)) /\ Range(Received(w)) = SeedsDue(i, m, k)
      BY <1>1, <2>3 DEF Arrived
    <3>6. InOrder(Received(w)') /\ Range(Received(w)') = SeedsDue(i, m, k + 1)
      BY <2>3, <3>3, <3>4, <3>5, LastInOrder
    <3>7. ASSUME NEW n \in Nodes(doc[i]), <<i, n>> \in DOMAIN workflow
          PROVE  InOrder(Received(<<i, n>>)') /\ Range(Received(<<i, n>>)') = SeedsDue(i, n, k + 1)
      <4>1. CASE n = m
        BY <3>6, <4>1
      <4>2. CASE n # m
        <5>1. <<i, n>> # w
          BY <4>2
        <5>2. Received(<<i, n>>)' = Received(<<i, n>>)
          BY <2>3, <3>7, <5>1 DEF Received
        <5> QED BY <1>1, <3>2, <3>7, <4>2, <5>2 DEF Arrived
      <4> QED BY <4>1, <4>2
    <3>8. \A n \in Nodes(doc[i]) : <<i, n>> \in DOMAIN workflow
      BY <2>1 DEF FlowsInv, FlowsAt
    <3>9. Arrived(i, k + 1)'
      BY <1>2, <1>3, <2>3, <3>7, <3>8 DEF Arrived, InOrder
    <3>10. k + 1 \in 0 .. Len(doc'[i].triggers)
      BY <1>2, <2>3
    <3> QED BY <2>3, <3>9, <3>10
  <2>4. \/ stage'[i] = "failed" /\ workflow' = workflow
        \/ \E n \in Nodes(doc[i]) :
             LET j == finished[i] + 1
                 w == <<i, n>>
             IN  /\ j \in 1 .. Len(doc[i].triggers) /\ j \in Nat
                 /\ doc[i].id[n] = doc[i].triggers[j].agent
                 /\ w \in DOMAIN workflow /\ DOMAIN workflow' = DOMAIN workflow
                 /\ \A v \in DOMAIN workflow \ {w} : workflow'[v] = workflow[v]
                 /\ workflow'[w] = [workflow[w] EXCEPT !.queue = Append(@, j)]
                 /\ \/ stage'[i] = "done"
                    \/ stage'[i] = "signal" /\ finished'[i] = j
    BY <1>6, SignalIs
  <2> QED BY <2>1, <2>2, <2>3, <2>4, Zenon
<1> QED BY <1>5, <1>6

-----------------------------------------------------------------------------
(* The theorems.                                                           *)

ApplyInv == StagesInv /\ RowsInv /\ FilesInv /\ FlowsInv /\ SeedsInv

LEMMA ApplySafe == ApplySpec => []ApplyInv
<1> USE DocAssumption
<1>1. ApplyInit => ApplyInv
  BY StagesInit, RowsInit, FilesInit, FlowsInit, SeedsInit DEF ApplyInv
<1>2. ApplyInv /\ [ApplyNext]_applyVars => ApplyInv'
  BY StagesStep, RowsStep, FilesStep, FlowsStep, SeedsStep DEF ApplyInv
<1> QED BY <1>1, <1>2, PTL DEF ApplySpec

LEMMA AgentsAre ==
    ASSUME ApplyInv, NEW i \in Apply, applied[i] = Walk(i)
    PROVE  AgentsOf(i) = {<<i, n>> : n \in Nodes(doc[i])}
<1>1. IsGraphYaml(doc[i])
  BY DocAssumption DEF ApplyInv, StagesInv, StageOf
<1> QED BY <1>1, RowsAre DEF AgentsOf

\* A workflow belongs to an agents row of its own, its parent_handle names the parent of
\* that agent's edge, no other graph has its graph's name unless the operator dropped it,
\* and every agent of its graph has its own mandate.md as the first commit of its
\* repository, however many invocations of coral-apply run, fail or die beside each other.
THEOREM RunningIsWritten == ApplySpec => []StartedFromRows
<1>1. ASSUME ApplyInv PROVE StartedFromRows
  <2> SUFFICES ASSUME NEW w \in DOMAIN workflow
               PROVE  LET own == workflow[w].input
                      IN  /\ w = own.agent
                          /\ own.parent # Absent => own.parent \in DOMAIN workflow
                          /\ \A a \in AgentsOf(w[1]) : commits[a] # <<>> /\ commits[a][1] = Baseline(a)
                          /\ \/ w[1] \in dropped
                             \/ /\ \E r \in rows.agents : r.id = w
                                /\ {e \in rows.edges : e[2] = w} =
                                      (IF own.parent = Absent THEN {} ELSE {<<own.parent, w>>})
                                /\ \A g \in rows.graphs : g.name = doc[w[1]].name => g.id = w[1]
    BY DEF StartedFromRows
  <2> DEFINE i == w[1]
             n == w[2]
             own == workflow[w].input
  <2>1. w \in Agent /\ FlowOf(w)
    BY <1>1 DEF ApplyInv, FlowsInv
  <2>2. i \in Apply /\ n \in Nodes(doc[i]) /\ w = <<i, n>>
    BY <2>1, AgentIs
  <2>3. own.agent = w /\ own.parent = Up(i, n)
    <3>1. own = StartOf(i, n)
      BY <2>1 DEF FlowOf
    <3> QED BY <2>2, <3>1 DEF StartOf
  <2>4. \A j \in Apply : IsGraphYaml(doc[j])
    BY <1>1, DocAssumption DEF ApplyInv, StagesInv, StageOf
  <2>5. ASSUME NEW a \in AgentsOf(i) PROVE commits[a] # <<>> /\ commits[a][1] = Baseline(a)
    <3>1. PICK m \in Nodes(doc[i]) : a = <<i, m>>
      BY <1>1, <2>1, <2>2, AgentsAre DEF FlowOf
    <3>2. a \in Agent /\ commits[a] # <<>>
      BY <2>1, <2>2, <3>1, AgentIs DEF FlowOf, Committed
    <3> QED BY <1>1, <3>2 DEF ApplyInv, FilesInv, FileOf
  <2>6. ASSUME i \notin dropped
        PROVE  /\ \E r \in rows.agents : r.id = w
               /\ {e \in rows.edges : e[2] = w} =
                     (IF own.parent = Absent THEN {} ELSE {<<own.parent, w>>})
               /\ \A g \in rows.graphs : g.name = doc[i].name => g.id = i
    <3>1. Written(i)
      BY <2>1, <2>6 DEF FlowOf
    <3>2. \E r \in rows.agents : r.id = w
      <4>1. PICK r \in RowsOf(i).agents : r.id = <<i, n>>
        BY <2>2, <2>4, RowsAre
      <4>2. r \in rows.agents
        BY <3>1, <4>1 DEF Written
      <4> QED BY <2>2, <4>1, <4>2
    <3>3. \A j \in Apply :
            RowsOf(j).edges = {<<Up(j, m), <<j, m>>>> : m \in {q \in Nodes(doc[j]) : Up(j, q) # Absent}}
      BY <2>4, RowsAre
    <3>4. ASSUME NEW e \in rows.edges, e[2] = w PROVE own.parent # Absent /\ e = <<own.parent, w>>
      <4>1. PICK j \in Apply : e \in RowsOf(j).edges
        BY <1>1 DEF ApplyInv, RowsInv, OwnRows
      <4>2. PICK m \in Nodes(doc[j]) : Up(j, m) # Absent /\ e = <<Up(j, m), <<j, m>>>>
        BY <3>3, <4>1
      <4>3. j = i /\ m = n
        BY <2>2, <3>4, <4>2
      <4> QED BY <2>2, <2>3, <4>2, <4>3
    <3>5. own.parent # Absent => <<own.parent, w>> \in rows.edges
      BY <2>2, <2>3, <3>1, <3>3 DEF Written
    <3>6. {e \in rows.edges : e[2] = w} =
             (IF own.parent = Absent THEN {} ELSE {<<own.parent, w>>})
      <4> HIDE DEF own
      <4>1. <<own.parent, w>>[2] = w
        OBVIOUS
      <4> QED BY <3>4, <3>5, <4>1
    <3>7. \A g \in rows.graphs : g.name = doc[i].name => g.id = i
      <4> SUFFICES ASSUME NEW g \in rows.graphs, g.name = doc[i].name PROVE g.id = i
        OBVIOUS
      <4>1. g.id \in Apply /\ g = GraphRow(g.id)
        BY <1>1 DEF ApplyInv, RowsInv, OwnRows
      <4>2. GraphRow(g.id).name = doc[g.id].name
        BY DEF GraphRow
      <4>3. Holds(g.id) /\ Holds(i) /\ doc[g.id].name = doc[i].name
        BY <3>1, <4>1, <4>2 DEF Holds, Written
      <4> QED BY <1>1, <2>2, <4>1, <4>3 DEF ApplyInv, RowsInv, NamesHeld
    <3> QED BY <3>2, <3>6, <3>7
  <2>7. own.parent # Absent => own.parent \in DOMAIN workflow
    BY <2>1, <2>3 DEF FlowOf
  <2> HIDE DEF own
  <2> QED BY <2>3, <2>5, <2>6, <2>7, Zenon DEF own
<1> QED BY <1>1, ApplySafe, PTL

\* Seed triggers arrive in the order of the file, each at its agent and once, and none
\* before the last workflow of the graph is started, wherever an invocation stops.
THEOREM SeedsArriveInOrder == ApplySpec => []SeedsInOrder
<1>1. ASSUME ApplyInv PROVE SeedsInOrder
  <2> SUFFICES ASSUME NEW i \in Apply
               PROVE  \E k \in 0 .. Len(doc[i].triggers) :
                        /\ k > 0 => StartedOf(i) = AgentsOf(i)
                        /\ \A w \in StartedOf(i) :
                            /\ InOrder(Received(w))
                            /\ Range(Received(w)) =
                                 {j \in 1 .. k : doc[i].triggers[j].agent = doc[i].id[w[2]]}
    BY DEF SeedsInOrder
  <2>1. PICK k \in 0 .. Len(doc[i].triggers) : Arrived(i, k)
    BY <1>1 DEF ApplyInv, SeedsInv
  <2>2. \A w \in DOMAIN workflow : workflow[w].input.agent = w
    <3> SUFFICES ASSUME NEW w \in DOMAIN workflow PROVE workflow[w].input.agent = w
      OBVIOUS
    <3>1. w \in Agent /\ FlowOf(w)
      BY <1>1 DEF ApplyInv, FlowsInv
    <3>2. workflow[w].input = StartOf(w[1], w[2]) /\ w = <<w[1], w[2]>>
      BY <3>1, AgentIs DEF FlowOf
    <3>3. StartOf(w[1], w[2]).agent = <<w[1], w[2]>>
      BY DEF StartOf
    <3> QED BY <3>2, <3>3
  <2>3. StartedOf(i) = DOMAIN workflow \cap AgentsOf(i)
    BY <2>2 DEF StartedOf
  <2>4. CASE applied[i] = <<>>
    <3>1. AgentsOf(i) = {}
      BY <2>4 DEF AgentsOf, Range
    <3> QED BY <2>1, <2>3, <3>1
  <2>5. CASE applied[i] = Walk(i)
    <3>1. AgentsOf(i) = {<<i, n>> : n \in Nodes(doc[i])}
      BY <1>1, <2>5, AgentsAre
    <3>2. k > 0 => StartedOf(i) = AgentsOf(i)
      BY <2>1, <2>3, <3>1 DEF Arrived
    <3>3. ASSUME NEW w \in StartedOf(i)
          PROVE  /\ InOrder(Received(w))
                 /\ Range(Received(w)) = {j \in 1 .. k : doc[i].triggers[j].agent = doc[i].id[w[2]]}
      <4>1. PICK n \in Nodes(doc[i]) : w = <<i, n>> /\ w \in DOMAIN workflow /\ w[2] = n
        BY <2>3, <3>1
      <4> QED BY <2>1, <4>1 DEF Arrived, SeedsDue
    <3> QED BY <2>1, <3>2, <3>3
  <2>6. applied[i] \in {<<>>, Walk(i)}
    BY <1>1 DEF ApplyInv, StagesInv, StageOf
  <2> QED BY <2>4, <2>5, <2>6
<1> QED BY <1>1, ApplySafe, PTL

\* A file that parse_and_validate accepted is built from: build_workflow_starts finds a
\* cadence for every agent and does not panic over it.
THEOREM ValidFilesAreBuilt == ApplySpec => [](\A i \in Apply : stage[i] # "panicked")
<1>1. ApplyInv => \A i \in Apply : stage[i] # "panicked"
  BY DEF ApplyInv, StagesInv, StageOf, Derives
<1> QED BY <1>1, ApplySafe, PTL
=============================================================================
