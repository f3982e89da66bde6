---------------------- MODULE OutputPropagation_proofs ----------------------
(***************************************************************************)
(* Machine-checked proofs about OutputPropagation, for all children,       *)
(* bodies, Outputs, reconciliations and failed or late attempts.           *)
(***************************************************************************)
EXTENDS OutputPropagation, TLAPS

-----------------------------------------------------------------------------
(* The steps of persist_output.                                            *)

\* persist_output_impl: the file, then file_index, then the citations.
LEMMA PersistOrder ==
    FirstStage = "put" /\ After("put") = "index" /\ After("index") = "cite"
<1>1. PersistStages[1] = "put" /\ PersistStages[2] = "index" /\ PersistStages[3] = "cite"
  BY DEF PersistStages
<1>2. (CHOOSE i \in 1 .. 2 : PersistStages[i] = "put") = 1
  <2>1. \A i \in 1 .. 2 : PersistStages[i] = "put" <=> i = 1
    BY <1>1
  <2> QED BY <2>1
<1>3. (CHOOSE i \in 1 .. 2 : PersistStages[i] = "index") = 2
  <2>1. \A i \in 1 .. 2 : PersistStages[i] = "index" <=> i = 2
    BY <1>1
  <2> QED BY <2>1
<1> QED BY <1>1, <1>2, <1>3 DEF FirstStage, After

-----------------------------------------------------------------------------
(* Types.                                                                  *)

\* An activity step replaces one attempt by another of the same type.
LEMMA AttemptReplaced ==
    ASSUME attempt \in [Agent \X Slot -> Attempts], NEW k \in Agent \X Slot,
           NEW t \in Attempts, attempt' = [attempt EXCEPT ![k] = t]
    PROVE  /\ attempt' \in [Agent \X Slot -> Attempts]
           /\ attempt'[k] = t
           /\ \A l \in (Agent \X Slot) \ {k} : attempt'[l] = attempt[l]
OBVIOUS

\* The record of no attempt is an attempt.
LEMMA NoAttemptType == NoAttempt \in Attempts
BY DEF NoAttempt, Attempts, Stage

\* What is left of an attempt that has moved on, or has written one of its records
\* or citations, is an attempt.
LEMMA AdvancedType ==
    ASSUME NEW t \in Attempts
    PROVE  /\ \A s \in Stage : [t EXCEPT !.at = s] \in Attempts
           /\ \A e : [t EXCEPT !.cites = @ \ {e}] \in Attempts
           /\ \A e : [t EXCEPT !.records = @ \ {e}] \in Attempts
           /\ \A c \in Child, b \in Body :
                 [t EXCEPT !.unread = @ \ {c},
                           !.records = @ \cup {[child |-> c, read |-> b]}] \in Attempts
<1>1. \A s \in Stage : [t EXCEPT !.at = s] \in Attempts
  BY DEF Attempts
<1>2. \A e : [t EXCEPT !.cites = @ \ {e}] \in Attempts
  BY DEF Attempts
<1>3. \A e : [t EXCEPT !.records = @ \ {e}] \in Attempts
  BY DEF Attempts
<1>4. ASSUME NEW c \in Child, NEW b \in Body
      PROVE  [t EXCEPT !.unread = @ \ {c},
                       !.records = @ \cup {[child |-> c, read |-> b]}] \in Attempts
  <2>1. [child |-> c, read |-> b] \in Record
    BY DEF Record
  <2> QED BY <2>1 DEF Attempts
<1> QED BY <1>1, <1>2, <1>3, <1>4

-----------------------------------------------------------------------------
(* What an attempt, current or late, carries and what the stores hold.     *)

\* An attempt of agent a holds a body of a's, cites evidence that was written, and is
\* about to record only what a child's file held when it was read.
Sound(t, a) ==
    /\ t.at = "put" => t.body \in Body
    /\ t.at \in {"index", "cite"} => t.body \in held[a]
    /\ t.cites \subseteq evidence
    /\ \A e \in t.records : e.read \in held[e.child]

AttemptInv ==
    /\ \A a \in Agent : Sound(job[a], a)
    /\ \A k \in Agent \X Slot : Sound(attempt[k], k[1])

\* The file, the DB and the evidence name only bodies the files held.
StoresInv ==
    /\ \A a \in Agent : output[a] # None => output[a] \in held[a]
    /\ IndexBehindFile
    /\ \A e \in evidence : e.read \in held[e.child]
    /\ PinsWhatWasRead

PinInv == TypeOK /\ AttemptInv /\ StoresInv

\* Nothing is deleted: evidence and history only grow.
Grows == evidence \subseteq evidence' /\ \A a \in Agent : held[a] \subseteq held'[a]

\* What was sound stays so.
LEMMA SoundStays ==
    ASSUME TypeOK, Grows, NEW t \in Attempts, NEW a \in Agent, Sound(t, a)
    PROVE  Sound(t, a)'
<1>1. \A e \in t.records : e.child \in Agent
  BY DEF Attempts, Record, Agent
<1> QED BY <1>1 DEF Sound, Grows

\* A step that replaces one attempt by a sound one.
LEMMA AttemptStep ==
    ASSUME PinInv, Grows, NEW k \in Agent \X Slot, NEW t \in Attempts, Sound(t, k[1])',
           attempt' = [attempt EXCEPT ![k] = t], job' = job
    PROVE  AttemptInv'
<1>1. /\ attempt'[k] = t
      /\ \A l \in (Agent \X Slot) \ {k} : attempt'[l] = attempt[l]
  BY AttemptReplaced DEF PinInv, TypeOK
<1>2. \A l \in (Agent \X Slot) \ {k} : Sound(attempt[l], l[1])'
  BY <1>1, SoundStays DEF PinInv, AttemptInv, TypeOK
<1>3. \A a \in Agent : Sound(job[a], a)'
  <2>1. \A a \in Agent : job[a] \in Attempts /\ Sound(job[a], a)
    BY DEF PinInv, AttemptInv, TypeOK
  <2> QED BY <2>1, SoundStays DEF PinInv
<1> QED BY <1>1, <1>2, <1>3 DEF AttemptInv

\* A step of an activity, when its own writes are typed.
LEMMA ActivityType ==
    ASSUME TypeOK, NEW k \in Agent \X Slot, NEW t \in Attempts,
           attempt' = [attempt EXCEPT ![k] = t], UNCHANGED elsewhere,
           output' \in [Agent -> Body \cup {None}], index' \in [Agent -> Body \cup {None}],
           evidence' \subseteq Record, citations' \subseteq Citation,
           held' \in [Agent -> SUBSET Body]
    PROVE  TypeOK'
<1>1. attempt' \in [Agent \X Slot -> Attempts]
  BY AttemptReplaced DEF TypeOK
<1> QED BY <1>1 DEF TypeOK, elsewhere

-----------------------------------------------------------------------------
(* The steps of persist_output.                                            *)

\* AgentFs::persist_output keeps the invariant.
LEMMA PutBodyPins ==
    ASSUME PinInv, NEW k \in Agent \X Slot, PutBody(k)
    PROVE  PinInv'
<1>1. /\ attempt[k] \in Attempts /\ k[1] \in Agent /\ attempt[k].at = "put"
      /\ Sound(attempt[k], k[1]) /\ TypeOK
  BY DEF PinInv, AttemptInv, TypeOK, PutBody
<1>2. attempt[k].body \in Body
  BY <1>1 DEF Sound
<1>3. PICK t \in Attempts : t = [attempt[k] EXCEPT !.at = "index"]
  BY <1>1, AdvancedType DEF Stage
<1>4. /\ attempt' = [attempt EXCEPT ![k] = t]
      /\ output' = [output EXCEPT ![k[1]] = t.body]
      /\ held' = [held EXCEPT ![k[1]] = @ \cup {t.body}]
      /\ t.at = "index" /\ t.body = attempt[k].body
      /\ t.cites = attempt[k].cites /\ t.records = attempt[k].records
  BY <1>1, <1>3, PersistOrder DEF PutBody, Attempts
<1>5. UNCHANGED <<index, evidence, citations, elsewhere>>
  BY DEF PutBody
<1>6. /\ held' \in [Agent -> SUBSET Body] /\ output' \in [Agent -> Body \cup {None}]
      /\ \A a \in Agent : held[a] \subseteq held'[a]
      /\ t.body \in held'[k[1]]
  BY <1>1, <1>2, <1>4 DEF TypeOK
<1>7. TypeOK'
  BY <1>1, <1>4, <1>5, <1>6, ActivityType DEF TypeOK
<1>8. Grows
  BY <1>5, <1>6 DEF Grows
<1>9. Sound(t, k[1])'
  <2>1. \A e \in attempt[k].records : e.child \in Agent
    BY <1>1 DEF Attempts, Record, Agent
  <2> QED BY <1>1, <1>4, <1>6, <1>8, <2>1 DEF Sound, Grows
<1>10. AttemptInv'
  BY <1>4, <1>5, <1>8, <1>9, AttemptStep DEF elsewhere
<1>11. StoresInv'
  <2>1. \A a \in Agent : output'[a] # None => output'[a] \in held'[a]
    BY <1>1, <1>4, <1>6 DEF PinInv, StoresInv, TypeOK
  <2>2. \A e \in evidence : e.child \in Agent
    BY <1>1 DEF TypeOK, Record, Agent
  <2>3. \A p \in citations : p.child \in Agent
    BY <1>1 DEF TypeOK, Citation, Agent
  <2> QED
    BY <1>5, <1>6, <2>1, <2>2, <2>3 DEF PinInv, StoresInv, IndexBehindFile, PinsWhatWasRead
<1> QED BY <1>7, <1>10, <1>11 DEF PinInv

\* set_file_version keeps the invariant: what it writes is in the file's history.
LEMMA SetFileVersionPins ==
    ASSUME PinInv, NEW k \in Agent \X Slot, SetFileVersion(k)
    PROVE  PinInv'
<1>1. /\ attempt[k] \in Attempts /\ k[1] \in Agent /\ attempt[k].at = "index"
      /\ Sound(attempt[k], k[1]) /\ TypeOK
  BY DEF PinInv, AttemptInv, TypeOK, SetFileVersion
<1>2. attempt[k].body \in held[k[1]] /\ attempt[k].body \in Body
  BY <1>1 DEF Sound, TypeOK
<1>3. PICK t \in Attempts : t = [attempt[k] EXCEPT !.at = "cite"]
  BY <1>1, AdvancedType DEF Stage
<1>4. /\ attempt' = [attempt EXCEPT ![k] = t]
      /\ index' = [index EXCEPT ![k[1]] = t.body]
      /\ t.at = "cite" /\ t.body = attempt[k].body
      /\ t.cites = attempt[k].cites /\ t.records = attempt[k].records
  BY <1>1, <1>3, PersistOrder DEF SetFileVersion, Attempts
<1>5. UNCHANGED <<output, evidence, citations, elsewhere, held>>
  BY DEF SetFileVersion
<1>6. TypeOK'
  BY <1>1, <1>2, <1>4, <1>5, ActivityType DEF TypeOK
<1>7. Grows
  BY <1>5 DEF Grows
<1>8. Sound(t, k[1])'
  BY <1>1, <1>2, <1>4, <1>5 DEF Sound
<1>9. AttemptInv'
  BY <1>4, <1>5, <1>7, <1>8, AttemptStep DEF elsewhere
<1>10. StoresInv'
  <2>1. IndexBehindFile'
    BY <1>1, <1>2, <1>4, <1>5 DEF PinInv, StoresInv, IndexBehindFile, TypeOK
  <2> QED BY <1>5, <2>1 DEF PinInv, StoresInv, PinsWhatWasRead
<1> QED BY <1>6, <1>9, <1>10 DEF PinInv

\* add_citation keeps the invariant: it pins the version of a record that exists.
LEMMA AddCitationPins ==
    ASSUME PinInv, NEW k \in Agent \X Slot, NEW e \in Record, AddCitation(k, e)
    PROVE  PinInv'
<1>1. /\ attempt[k] \in Attempts /\ k[1] \in Agent /\ attempt[k].at = "cite"
      /\ Sound(attempt[k], k[1]) /\ TypeOK /\ e \in attempt[k].cites
  BY DEF PinInv, AttemptInv, TypeOK, AddCitation
<1>2. e \in evidence /\ e.read \in held[e.child] /\ attempt[k].body \in Body
  BY <1>1 DEF Sound, TypeOK, PinInv, StoresInv
<1>3. PICK t \in Attempts : t = [attempt[k] EXCEPT !.cites = @ \ {e}]
  BY <1>1, AdvancedType
<1>4. /\ t.at = "cite" /\ t.body = attempt[k].body
      /\ t.cites \subseteq attempt[k].cites /\ t.records = attempt[k].records
  BY <1>1, <1>3 DEF Attempts
<1>5. PICK p \in Citation : p = [citing |-> attempt[k].body, child |-> e.child,
                                 cited |-> e.read]
  BY <1>2 DEF Citation, Record
<1>6. /\ attempt' = [attempt EXCEPT ![k] = t] /\ citations' = citations \cup {p}
      /\ UNCHANGED <<output, index, evidence, elsewhere, held>>
  BY <1>3, <1>5 DEF AddCitation, Pin
<1>7. TypeOK'
  BY <1>1, <1>6, ActivityType DEF TypeOK
<1>8. Grows
  BY <1>6 DEF Grows
<1>9. Sound(t, k[1])'
  BY <1>1, <1>4, <1>6 DEF Sound
<1>10. AttemptInv'
  BY <1>6, <1>8, <1>9, AttemptStep DEF elsewhere
<1>11. StoresInv'
  <2>1. [child |-> p.child, read |-> p.cited] = e
    BY <1>5 DEF Record
  <2>2. p.child = e.child /\ p.cited = e.read
    BY <1>5
  <2>3. PinsWhatWasRead'
    BY <1>2, <1>6, <2>1, <2>2 DEF PinInv, StoresInv, PinsWhatWasRead
  <2> QED BY <1>6, <2>3 DEF PinInv, StoresInv, IndexBehindFile
<1> QED BY <1>7, <1>10, <1>11 DEF PinInv

-----------------------------------------------------------------------------
(* The other steps of an activity.                                         *)

\* A step that changes no store keeps the invariant if it leaves a sound attempt.
LEMMA StoresUntouched ==
    ASSUME PinInv, NEW k \in Agent \X Slot, NEW t \in Attempts, Sound(t, k[1]),
           attempt' = [attempt EXCEPT ![k] = t], UNCHANGED <<stores, elsewhere, held>>
    PROVE  PinInv'
<1>1. TypeOK /\ k[1] \in Agent /\ Grows
  BY DEF PinInv, Grows, stores
<1>2. TypeOK'
  BY <1>1, ActivityType DEF TypeOK, stores
<1>3. AttemptInv'
  BY <1>1, SoundStays, AttemptStep DEF elsewhere
<1>4. StoresInv'
  BY DEF PinInv, StoresInv, IndexBehindFile, PinsWhatWasRead, stores
<1> QED BY <1>2, <1>3, <1>4 DEF PinInv

\* An attempt that only moves on to a stage with nothing to write to a file or a row.
LEMMA MovesOn ==
    ASSUME PinInv, NEW k \in Agent \X Slot, NEW s \in {"record", "done", "failed"},
           attempt' = [attempt EXCEPT ![k].at = s], UNCHANGED <<stores, elsewhere, held>>
    PROVE  PinInv'
<1>1. attempt[k] \in Attempts /\ Sound(attempt[k], k[1])
  BY DEF PinInv, AttemptInv, TypeOK
<1>2. PICK t \in Attempts : t = [attempt[k] EXCEPT !.at = s]
  BY <1>1, AdvancedType DEF Stage
<1>3. t.at = s /\ t.cites = attempt[k].cites /\ t.records = attempt[k].records
  BY <1>1, <1>2 DEF Attempts
<1>4. Sound(t, k[1])
  BY <1>1, <1>3 DEF Sound
<1> QED BY <1>2, <1>4, StoresUntouched

\* reconcile_children_impl, phase 1, keeps the invariant: what it holds of a child is
\* what the child's file has.
LEMMA ReadChildPins ==
    ASSUME PinInv, NEW k \in Agent \X Slot, NEW c \in Child, ReadChild(k, c)
    PROVE  PinInv'
<1>1. attempt[k] \in Attempts /\ attempt[k].at = "read" /\ Sound(attempt[k], k[1])
  BY DEF PinInv, AttemptInv, TypeOK, ReadChild
<1>2. CASE output[c] = None
  BY <1>2, MovesOn DEF ReadChild
<1>3. CASE output[c] # None
  <2>1. c \in Agent /\ output[c] \in Body /\ output[c] \in held[c]
    BY <1>3 DEF Agent, PinInv, StoresInv, TypeOK
  <2>2. PICK r \in Record : r = [child |-> c, read |-> output[c]]
    BY <2>1 DEF Record
  <2>3. PICK t \in Attempts : t = [attempt[k] EXCEPT !.unread = @ \ {c},
                                                     !.records = @ \cup {r}]
    BY <1>1, <2>1, <2>2, AdvancedType
  <2>4. t.at = "read" /\ t.cites = attempt[k].cites /\ t.records = attempt[k].records \cup {r}
    BY <1>1, <2>3 DEF Attempts
  <2>5. r.read \in held[r.child]
    BY <2>1, <2>2
  <2>6. Sound(t, k[1])
    BY <1>1, <2>4, <2>5 DEF Sound
  <2>7. attempt' = [attempt EXCEPT ![k] = t] /\ UNCHANGED <<stores, elsewhere, held>>
    BY <1>3, <2>2, <2>3 DEF ReadChild
  <2> QED BY <2>6, <2>7, StoresUntouched
<1> QED BY <1>2, <1>3

\* record_evidence keeps the invariant: the record was read from the child's file.
LEMMA RecordEvidencePins ==
    ASSUME PinInv, NEW k \in Agent \X Slot, NEW e \in Record, RecordEvidence(k, e)
    PROVE  PinInv'
<1>1. /\ attempt[k] \in Attempts /\ attempt[k].at = "record" /\ Sound(attempt[k], k[1])
      /\ e \in attempt[k].records /\ TypeOK
  BY DEF PinInv, AttemptInv, TypeOK, RecordEvidence
<1>2. PICK t \in Attempts : t = [attempt[k] EXCEPT !.records = @ \ {e}]
  BY <1>1, AdvancedType
<1>3. /\ t.at = "record" /\ t.cites = attempt[k].cites
      /\ t.records \subseteq attempt[k].records
  BY <1>1, <1>2 DEF Attempts
<1>4. /\ attempt' = [attempt EXCEPT ![k] = t] /\ evidence' = evidence \cup {e}
      /\ UNCHANGED <<output, index, citations, elsewhere, held>>
  BY <1>2 DEF RecordEvidence
<1>5. TypeOK'
  BY <1>1, <1>4, ActivityType DEF TypeOK
<1>6. Grows
  BY <1>4 DEF Grows
<1>7. Sound(t, k[1])'
  BY <1>1, <1>3, <1>4 DEF Sound
<1>8. AttemptInv'
  BY <1>4, <1>6, <1>7, AttemptStep DEF elsewhere
<1>9. StoresInv'
  <2>1. e.read \in held[e.child]
    BY <1>1 DEF Sound
  <2> QED BY <1>4, <2>1 DEF PinInv, StoresInv, IndexBehindFile, PinsWhatWasRead
<1> QED BY <1>5, <1>8, <1>9 DEF PinInv

\* Every step of an attempt, current or late, keeps the invariant.
LEMMA ActivityPins ==
    ASSUME PinInv, NEW k \in Agent \X Slot, ActivityStep(k)
    PROVE  PinInv'
<1>1. CASE PersistDone(k)
  BY <1>1, MovesOn DEF PersistDone
<1>2. CASE ReadDone(k)
  BY <1>2, MovesOn DEF ReadDone
<1>3. CASE CheckConflict(k)
  BY <1>3, MovesOn DEF CheckConflict
<1> QED
  BY <1>1, <1>2, <1>3, PutBodyPins, SetFileVersionPins, AddCitationPins, ReadChildPins,
     RecordEvidencePins DEF ActivityStep

-----------------------------------------------------------------------------
(* The runs, and the attempts Temporal starts.                             *)

\* A step of a run, which writes to neither store.
LEMMA RunStep ==
    ASSUME PinInv, TypeOK', UNCHANGED <<stores, held>>,
           \A a \in Agent : Sound(job'[a], a),
           \A k \in Agent \X Slot : Sound(attempt'[k], k[1])
    PROVE  PinInv'
<1>1. AttemptInv'
  BY DEF AttemptInv, Sound, stores
<1>2. StoresInv'
  BY DEF PinInv, StoresInv, IndexBehindFile, PinsWhatWasRead, stores
<1> QED BY <1>1, <1>2 DEF PinInv

\* Scheduling an activity puts what every attempt at it starts from in two places.
LEMMA ScheduleSound ==
    ASSUME PinInv, NEW a \in Agent, NEW t \in Attempts, Sound(t, a), Schedule(a, t)
    PROVE  /\ job' \in [Agent -> Attempts] /\ attempt' \in [Agent \X Slot -> Attempts]
           /\ \A b \in Agent : Sound(job'[b], b)
           /\ \A k \in Agent \X Slot : Sound(attempt'[k], k[1])
<1>1. /\ job \in [Agent -> Attempts] /\ attempt \in [Agent \X Slot -> Attempts]
      /\ <<a, "current">> \in Agent \X Slot
      /\ job' = [job EXCEPT ![a] = t]
      /\ attempt' = [attempt EXCEPT ![<<a, "current">>] = t]
  BY DEF PinInv, TypeOK, Schedule, Slot
<1>2. job' \in [Agent -> Attempts] /\ attempt' \in [Agent \X Slot -> Attempts]
  BY <1>1
<1>3. \A b \in Agent : job'[b] = IF b = a THEN t ELSE job[b]
  BY <1>1
<1>4. \A k \in Agent \X Slot : attempt'[k] = IF k = <<a, "current">> THEN t ELSE attempt[k]
  BY <1>1
<1>5. \A b \in Agent : Sound(job'[b], b)
  BY <1>3 DEF PinInv, AttemptInv
<1>6. \A k \in Agent \X Slot : Sound(attempt'[k], k[1])
  BY <1>4 DEF PinInv, AttemptInv
<1> QED BY <1>2, <1>5, <1>6

\* write_output and reconcile_children keep the invariant.
LEMMA SchedulingPins ==
    ASSUME PinInv,
           \/ \E c \in Child, b \in Body : WriteOutput(c, b, {})
           \/ \E b \in Body : \E cites \in SUBSET evidence : WriteOutput(Parent, b, cites)
           \/ \E sources \in (SUBSET Child) \ {{}}, conflict \in {"none", "ok", "short"} :
                  Reconcile(sources, conflict)
    PROVE  PinInv'
<1>1. ASSUME NEW a \in Agent, NEW b \in Body, NEW cites \in SUBSET evidence,
             WriteOutput(a, b, cites)
      PROVE  PinInv'
  <2>1. PICK t \in Attempts : t = [NoAttempt EXCEPT !.at = FirstStage, !.body = b,
                                                    !.cites = cites]
    BY NoAttemptType, PersistOrder DEF NoAttempt, Attempts, Stage, PinInv, TypeOK
  <2>2. t.at = "put" /\ t.body = b /\ t.cites = cites /\ t.records = {}
    BY <2>1, PersistOrder DEF NoAttempt
  <2>3. Sound(t, a) /\ Schedule(a, t)
    BY <1>1, <2>1, <2>2 DEF Sound, WriteOutput
  <2>4. writes' \in [Agent -> 0 .. MaxWrites]
    <3>1. /\ writes \in [Agent -> 0 .. MaxWrites] /\ writes[a] < MaxWrites
          /\ writes' = [writes EXCEPT ![a] = @ + 1]
      BY <1>1 DEF WriteOutput, PinInv, TypeOK
    <3>2. writes[a] + 1 \in 0 .. MaxWrites
      BY <3>1, BoundAssumption
    <3> QED BY <3>1, <3>2
  <2>5. UNCHANGED <<stores, told, folds, faults, held, missed, outlived>>
    BY <1>1 DEF WriteOutput
  <2>6. TypeOK'
    BY <2>3, <2>4, <2>5, ScheduleSound DEF PinInv, TypeOK, stores
  <2> QED BY <2>3, <2>5, <2>6, ScheduleSound, RunStep
<1>2. ASSUME NEW sources \in SUBSET Child, NEW conflict \in {"none", "ok", "short"},
             Reconcile(sources, conflict)
      PROVE  PinInv'
  <2>1. PICK t \in Attempts : t = [NoAttempt EXCEPT !.at = "read", !.unread = sources,
                                                    !.conflict = conflict]
    BY NoAttemptType DEF NoAttempt, Attempts, Stage
  <2>2. t.at = "read" /\ t.cites = {} /\ t.records = {}
    BY <2>1 DEF NoAttempt
  <2>3. Sound(t, Parent) /\ Schedule(Parent, t) /\ Parent \in Agent
    BY <1>2, <2>1, <2>2 DEF Sound, Reconcile, Agent
  <2>4. folds' \in 0 .. MaxFolds
    <3>1. /\ folds \in 0 .. MaxFolds /\ folds < MaxFolds /\ folds' = folds + 1
      BY <1>2 DEF Reconcile, PinInv, TypeOK
    <3>2. folds + 1 \in 0 .. MaxFolds
      BY <3>1, BoundAssumption
    <3> QED BY <3>1, <3>2
  <2>5. UNCHANGED <<stores, told, writes, faults, held, missed, outlived>>
    BY <1>2 DEF Reconcile
  <2>6. TypeOK'
    BY <2>3, <2>4, <2>5, ScheduleSound DEF PinInv, TypeOK, stores
  <2> QED BY <2>3, <2>5, <2>6, ScheduleSound, RunStep
<1> QED BY <1>1, <1>2 DEF Agent

\* A failed attempt keeps the invariant, whether it is gone or goes on.
LEMMA AttemptFailsPins ==
    ASSUME PinInv, NEW a \in Agent, AttemptFails(a)
    PROVE  PinInv'
<1>1. /\ job \in [Agent -> Attempts] /\ attempt \in [Agent \X Slot -> Attempts]
      /\ <<a, "current">> \in Agent \X Slot /\ <<a, "late">> \in Agent \X Slot
      /\ UNCHANGED <<stores, job, told, writes, folds, held, missed, outlived>>
      /\ faults' \in 0 .. MaxFaults
  BY BoundAssumption DEF PinInv, TypeOK, AttemptFails, Slot
<1>2. /\ attempt' \in [Agent \X Slot -> Attempts]
      /\ \A k \in Agent \X Slot :
            \/ attempt'[k] = attempt[k]
            \/ k[1] = a /\ attempt'[k] = job[a]
            \/ k[1] = a /\ attempt'[k] = attempt[<<a, "current">>]
  <2>1. CASE attempt' = [attempt EXCEPT ![<<a, "current">>] = job[a]]
    BY <1>1, <2>1
  <2>2. CASE attempt' = [attempt EXCEPT ![<<a, "late">>] = attempt[<<a, "current">>],
                                        ![<<a, "current">>] = job[a]]
    BY <1>1, <2>2
  <2> QED BY <2>1, <2>2 DEF AttemptFails
<1>3. \A k \in Agent \X Slot : Sound(attempt'[k], k[1])
  <2>1. Sound(job[a], a) /\ Sound(attempt[<<a, "current">>], a)
    BY <1>1 DEF PinInv, AttemptInv
  <2> QED BY <1>2, <2>1 DEF PinInv, AttemptInv
<1>4. \A b \in Agent : Sound(job'[b], b)
  BY <1>1 DEF PinInv, AttemptInv
<1>5. TypeOK'
  BY <1>1, <1>2 DEF PinInv, TypeOK, stores
<1> QED BY <1>1, <1>3, <1>4, <1>5, RunStep

\* A run that goes on leaves no activity behind, but perhaps a late attempt.
LEMMA ReleasePins ==
    ASSUME PinInv, NEW a \in Agent, Release(a),
           UNCHANGED <<stores, writes, folds, faults, held>>,
           told' \in [Child -> Body \cup {None}], missed' \subseteq Child
    PROVE  PinInv'
<1>1. /\ job \in [Agent -> Attempts] /\ attempt \in [Agent \X Slot -> Attempts]
      /\ job' = [job EXCEPT ![a] = NoAttempt]
      /\ attempt' = [attempt EXCEPT ![<<a, "current">>] = NoAttempt]
      /\ outlived' \subseteq Agent
  BY DEF PinInv, TypeOK, Release
<1>2. Sound(NoAttempt, a)
  BY DEF Sound, NoAttempt
<1>3. /\ job' \in [Agent -> Attempts] /\ attempt' \in [Agent \X Slot -> Attempts]
      /\ \A b \in Agent : job'[b] \in {job[b], NoAttempt}
      /\ \A k \in Agent \X Slot : attempt'[k] \in {attempt[k], NoAttempt}
  BY <1>1, NoAttemptType
<1>4. \A t : t = NoAttempt => \A b : Sound(t, b)
  BY DEF Sound, NoAttempt
<1>5. /\ \A b \in Agent : Sound(job'[b], b)
      /\ \A k \in Agent \X Slot : Sound(attempt'[k], k[1])
  BY <1>3, <1>4 DEF PinInv, AttemptInv
<1>6. TypeOK'
  BY <1>1, <1>3 DEF PinInv, TypeOK, stores
<1> QED BY <1>5, <1>6, RunStep

\* The invariant is inductive.
LEMMA PinInductive == PinInv /\ [Next]_vars => PinInv'
<1> SUFFICES ASSUME PinInv, [Next]_vars PROVE PinInv'
  OBVIOUS
<1>1. CASE ParentResumes
  <2>1. told \in [Child -> Body \cup {None}] /\ missed \subseteq Child
    BY DEF PinInv, TypeOK
  <2>2. /\ Release(Parent) /\ Parent \in Agent
        /\ UNCHANGED <<stores, told, writes, folds, faults, held, missed>>
    BY <1>1 DEF ParentResumes, Agent
  <2> QED BY <2>1, <2>2, ReleasePins
<1>2. ASSUME NEW c \in Child, SignalParent(c) PROVE PinInv'
  <2>1. told \in [Child -> Body \cup {None}] /\ missed \subseteq Child /\ c \in Agent
    BY DEF PinInv, TypeOK, Agent
  <2>2. job[c].body \in Body \cup {None}
    BY <2>1 DEF PinInv, TypeOK, Attempts
  <2>3. told' \in [Child -> Body \cup {None}] /\ missed' \subseteq Child
    BY <1>2, <2>1, <2>2 DEF SignalParent
  <2> QED BY <1>2, <2>1, <2>3, ReleasePins DEF SignalParent
<1>3. CASE UNCHANGED vars
  BY <1>3 DEF PinInv, TypeOK, AttemptInv, StoresInv, Sound, IndexBehindFile,
              PinsWhatWasRead, vars, stores, elsewhere
<1> QED BY <1>1, <1>2, <1>3, ActivityPins, SchedulingPins, AttemptFailsPins DEF Next

\* No file and no activity at first.
LEMMA PinInit == Init => PinInv
<1> SUFFICES ASSUME Init PROVE PinInv
  OBVIOUS
<1>1. TypeOK
  BY NoAttemptType, BoundAssumption DEF Init, TypeOK
<1>2. AttemptInv
  BY DEF Init, AttemptInv, Sound, NoAttempt
<1>3. StoresInv
  BY DEF Init, StoresInv, IndexBehindFile, PinsWhatWasRead
<1> QED BY <1>1, <1>2, <1>3 DEF PinInv

\* Every variable keeps its range.
THEOREM TypeCorrect == Spec => []TypeOK
<1>1. PinInv => TypeOK
  BY DEF PinInv
<1> QED BY <1>1, PinInit, PinInductive, PTL DEF Spec

\* Pin what you read: for any children and bodies, and any attempts that fail or go on
\* late, a cross-agent citation pins a version that the parent folded and that the
\* child's file really held (reconcile_children_impl, resolve_cited).
THEOREM PinsExact == Spec => []PinsWhatWasRead
<1>1. PinInv => PinsWhatWasRead
  BY DEF PinInv, StoresInv
<1> QED BY <1>1, PinInit, PinInductive, PTL DEF Spec

\* FS first, DB second: the DB never names a version the file system never had
\* (persist_output_impl), late attempts included.
THEOREM IndexNeverAhead == Spec => []IndexBehindFile
<1>1. PinInv => IndexBehindFile
  BY DEF PinInv, StoresInv
<1> QED BY <1>1, PinInit, PinInductive, PTL DEF Spec

-----------------------------------------------------------------------------
(* What has been written once an attempt is at each of its stages.         *)

Current(a) == attempt[<<a, "current">>]
Late(a) == attempt[<<a, "late">>]
Edge(b, e) == [citing |-> b, child |-> e.child, cited |-> e.read]

\* The current attempt is at a stage of its activity, and has an edge for each record
\* that it has not still to cite.
OnItsWay(a) ==
    /\ job[a].at \in {"none", "put", "read"}
    /\ job[a].at = "none" => job[a] = NoAttempt /\ Current(a) = NoAttempt
    /\ job[a].at = "read" =>
          a = Parent /\ Current(a).at \in {"read", "record", "done", "failed"}
    /\ job[a].at = "put" =>
          /\ Current(a).at \in {"put", "index", "cite", "done"}
          /\ Current(a).body = job[a].body
          /\ Current(a).at = "done" => Current(a).cites = {}
          /\ \A e \in job[a].cites :
                e \in Current(a).cites \/ Edge(job[a].body, e) \in citations

\* While no attempt of an agent has outlived its activity, a late one is at the same
\* activity as the current one, and the two stores have what either has written.
InStep(a) ==
    /\ Late(a).at \in {"put", "index", "cite"} =>
          job[a].at = "put" /\ Late(a).body = job[a].body
    /\ Late(a).at \in {"read", "record"} => job[a].at = "read"
    /\ job[a].at # "put" => index[a] = output[a]
    /\ job[a].at = "put" =>
          /\ Current(a).at \in {"index", "cite", "done"} => output[a] = job[a].body
          /\ Current(a).at \in {"cite", "done"} => index[a] = job[a].body

Informed(c) == c \notin missed /\ job[c].at # "put" => told[c] = output[c]

EndInv(a) ==
    /\ OnItsWay(a)
    /\ a \notin outlived => InStep(a) /\ (a \in Child => Informed(a))

AllEndInv == TypeOK /\ \A a \in Agent : EndInv(a)

\* A step of another agent only adds citations, as far as this one can tell.
LEMMA OthersUntouched ==
    ASSUME NEW a \in Agent, EndInv(a),
           job'[a] = job[a], Current(a)' = Current(a), Late(a)' = Late(a),
           output'[a] = output[a], index'[a] = index[a], citations \subseteq citations',
           a \in Child => told'[a] = told[a],
           a \in missed <=> a \in missed', a \in outlived <=> a \in outlived'
    PROVE  EndInv(a)'
BY DEF EndInv, OnItsWay, InStep, Informed, Current, Late

\* The step of an attempt is seen by its own agent only, but for the citations.
LEMMA StepIsLocal ==
    ASSUME TypeOK, NEW a \in Agent, NEW s \in Slot, NEW b \in Agent \ {a},
           ActivityStep(<<a, s>>)
    PROVE  /\ attempt'[<<b, "current">>] = attempt[<<b, "current">>]
           /\ attempt'[<<b, "late">>] = attempt[<<b, "late">>]
           /\ output'[b] = output[b] /\ index'[b] = index[b]
           /\ citations \subseteq citations' /\ UNCHANGED elsewhere
<1> DEFINE k == <<a, s>>
<1>1. /\ k \in Agent \X Slot /\ k[1] = a
      /\ <<b, "current">> # k /\ <<b, "late">> # k
      /\ <<b, "current">> \in Agent \X Slot /\ <<b, "late">> \in Agent \X Slot
  BY DEF Slot
<1>2. UNCHANGED elsewhere /\ citations \subseteq citations'
  BY DEF ActivityStep, PutBody, SetFileVersion, AddCitation, PersistDone, ReadChild,
         ReadDone, RecordEvidence, CheckConflict, stores
<1>3. output'[b] = output[b] /\ index'[b] = index[b]
  BY <1>1 DEF TypeOK, ActivityStep, PutBody, SetFileVersion, AddCitation, PersistDone,
         ReadChild, ReadDone, RecordEvidence, CheckConflict, stores
<1>4. \A l \in Agent \X Slot : l # k => attempt'[l] = attempt[l]
  BY <1>1 DEF TypeOK, ActivityStep, PutBody, SetFileVersion, AddCitation, PersistDone,
         ReadChild, ReadDone, RecordEvidence, CheckConflict
<1> QED BY <1>1, <1>2, <1>3, <1>4

\* What the agent itself sees of a step of one of its attempts.
LEMMA OwnStep ==
    ASSUME TypeOK, NEW a \in Agent, NEW s \in Slot, NEW u,
           attempt' = [attempt EXCEPT ![<<a, s>>] = u]
    PROVE  /\ s = "current" => Current(a)' = u /\ Late(a)' = Late(a)
           /\ s = "late" => Late(a)' = u /\ Current(a)' = Current(a)
           /\ s = "current" \/ s = "late"
<1>1. /\ <<a, "current">> \in Agent \X Slot /\ <<a, "late">> \in Agent \X Slot
      /\ <<a, "current">> # <<a, "late">>
  BY DEF Slot
<1> QED BY <1>1 DEF TypeOK, Current, Late, Slot

\* An attempt that is still writing belongs to the activity its run waits for, if it is
\* the current one, or if none has outlived its activity.
LEMMA WritersBelong ==
    ASSUME NEW a \in Agent, EndInv(a), NEW s \in Slot,
           s = "late" => a \notin outlived
    PROVE  /\ attempt[<<a, s>>].at \in {"put", "index", "cite"} =>
                 job[a].at = "put" /\ attempt[<<a, s>>].body = job[a].body
           /\ attempt[<<a, s>>].at \in {"read", "record"} => job[a].at = "read"
BY DEF EndInv, OnItsWay, InStep, Current, Late, Slot, NoAttempt

\* AgentFs::persist_output.
LEMMA PutBodyEnds ==
    ASSUME TypeOK, NEW a \in Agent, NEW s \in Slot, EndInv(a), PutBody(<<a, s>>)
    PROVE  EndInv(a)'
<1> DEFINE k == <<a, s>>
<1>1. /\ attempt[k] \in Attempts /\ attempt[k].at = "put" /\ k[1] = a
      /\ UNCHANGED <<citations, elsewhere>> /\ index' = index
  BY DEF TypeOK, PutBody, Slot
<1>2. PICK u \in Attempts : u = [attempt[k] EXCEPT !.at = "index"]
  BY <1>1, AdvancedType DEF Stage
<1>3. /\ u.at = "index" /\ u.body = attempt[k].body /\ u.cites = attempt[k].cites
      /\ attempt' = [attempt EXCEPT ![k] = u]
  BY <1>1, <1>2, PersistOrder DEF PutBody, Attempts
<1>4. output'[a] = attempt[k].body
  BY <1>1 DEF PutBody, TypeOK
<1>5. UNCHANGED <<job, told, missed, outlived>>
  BY <1>1 DEF elsewhere
<1>6. OnItsWay(a)'
  BY <1>1, <1>3, <1>5, OwnStep DEF EndInv, OnItsWay, Current, NoAttempt
<1>7. ASSUME a \notin outlived
      PROVE  InStep(a)' /\ (a \in Child => Informed(a)')
  <2>1. job[a].at = "put" /\ attempt[k].body = job[a].body
    BY <1>1, <1>7, WritersBelong
  <2> QED
    BY <1>1, <1>3, <1>4, <1>5, <1>7, <2>1, OwnStep DEF EndInv, InStep, Informed, Current, Late
<1> QED BY <1>5, <1>6, <1>7 DEF EndInv

\* set_file_version.
LEMMA SetFileVersionEnds ==
    ASSUME TypeOK, NEW a \in Agent, NEW s \in Slot, EndInv(a), SetFileVersion(<<a, s>>)
    PROVE  EndInv(a)'
<1> DEFINE k == <<a, s>>
<1>1. /\ attempt[k] \in Attempts /\ attempt[k].at = "index" /\ k[1] = a
      /\ UNCHANGED <<citations, elsewhere>> /\ output' = output
  BY DEF TypeOK, SetFileVersion, Slot
<1>2. PICK u \in Attempts : u = [attempt[k] EXCEPT !.at = "cite"]
  BY <1>1, AdvancedType DEF Stage
<1>3. /\ u.at = "cite" /\ u.body = attempt[k].body /\ u.cites = attempt[k].cites
      /\ attempt' = [attempt EXCEPT ![k] = u]
  BY <1>1, <1>2, PersistOrder DEF SetFileVersion, Attempts
<1>4. index'[a] = attempt[k].body
  BY <1>1 DEF SetFileVersion, TypeOK
<1>5. UNCHANGED <<job, told, missed, outlived>>
  BY <1>1 DEF elsewhere
<1>6. OnItsWay(a)'
  BY <1>1, <1>3, <1>5, OwnStep DEF EndInv, OnItsWay, Current, NoAttempt
<1>7. ASSUME a \notin outlived
      PROVE  InStep(a)' /\ (a \in Child => Informed(a)')
  <2>1. job[a].at = "put" /\ attempt[k].body = job[a].body
    BY <1>1, <1>7, WritersBelong
  <2> QED
    BY <1>1, <1>3, <1>4, <1>5, <1>7, <2>1, OwnStep DEF EndInv, InStep, Informed, Current, Late
<1> QED BY <1>5, <1>6, <1>7 DEF EndInv

\* add_citation.
LEMMA AddCitationEnds ==
    ASSUME TypeOK, NEW a \in Agent, NEW s \in Slot, EndInv(a), NEW e \in Record,
           AddCitation(<<a, s>>, e)
    PROVE  EndInv(a)'
<1> DEFINE k == <<a, s>>
<1>1. /\ attempt[k] \in Attempts /\ attempt[k].at = "cite" /\ e \in attempt[k].cites
      /\ UNCHANGED <<output, index, elsewhere>>
  BY DEF TypeOK, AddCitation, Slot
<1>2. PICK u \in Attempts : u = [attempt[k] EXCEPT !.cites = @ \ {e}]
  BY <1>1, AdvancedType
<1>3. /\ u.at = "cite" /\ u.body = attempt[k].body /\ u.cites = attempt[k].cites \ {e}
      /\ attempt' = [attempt EXCEPT ![k] = u]
      /\ citations' = citations \cup {Edge(attempt[k].body, e)}
  BY <1>1, <1>2 DEF AddCitation, Attempts, Pin, Edge
<1>4. UNCHANGED <<job, told, missed, outlived>>
  BY <1>1 DEF elsewhere
<1>5. OnItsWay(a)'
  <2>1. CASE s = "current"
    <3>1. /\ Current(a) = attempt[k] /\ Current(a)' = u
      <4>1. Current(a) = attempt[k]
        BY <2>1 DEF Current
      <4>2. Current(a)' = u
        BY <1>3, <2>1, OwnStep
      <4> QED BY <4>1, <4>2
    <3>2. job[a].at = "put" /\ u.body = job[a].body /\ attempt[k].body = job[a].body
      BY <1>1, <1>3, <3>1, <2>1, WritersBelong
    <3>3. \A d \in job[a].cites :
             d \in u.cites \/ Edge(job[a].body, d) \in citations'
      BY <1>3, <3>1, <3>2 DEF EndInv, OnItsWay
    <3> QED BY <1>3, <1>4, <3>1, <3>2, <3>3 DEF OnItsWay
  <2>2. CASE s = "late"
    BY <1>3, <1>4, <2>2, OwnStep DEF EndInv, OnItsWay
  <2> QED BY <2>1, <2>2 DEF Slot
<1>6. ASSUME a \notin outlived
      PROVE  InStep(a)' /\ (a \in Child => Informed(a)')
  BY <1>1, <1>3, <1>4, <1>6, OwnStep DEF EndInv, InStep, Informed, Current, Late
<1> QED BY <1>4, <1>5, <1>6 DEF EndInv

\* The end of persist_output_impl's loop.
LEMMA PersistDoneEnds ==
    ASSUME TypeOK, NEW a \in Agent, NEW s \in Slot, EndInv(a), PersistDone(<<a, s>>)
    PROVE  EndInv(a)'
<1> DEFINE k == <<a, s>>
<1>1. /\ attempt[k] \in Attempts /\ attempt[k].at = "cite" /\ attempt[k].cites = {}
      /\ UNCHANGED <<stores, elsewhere>>
  BY DEF TypeOK, PersistDone, Slot
<1>2. PICK u \in Attempts : u = [attempt[k] EXCEPT !.at = "done"]
  BY <1>1, AdvancedType DEF Stage
<1>3. /\ u.at = "done" /\ u.body = attempt[k].body /\ u.cites = attempt[k].cites
      /\ attempt' = [attempt EXCEPT ![k] = u]
  BY <1>1, <1>2 DEF PersistDone, Attempts
<1>4. UNCHANGED <<output, index, citations, job, told, missed, outlived>>
  BY <1>1 DEF stores, elsewhere
<1>5. OnItsWay(a)'
  BY <1>1, <1>3, <1>4, OwnStep DEF EndInv, OnItsWay, Current, NoAttempt
<1>6. ASSUME a \notin outlived
      PROVE  InStep(a)' /\ (a \in Child => Informed(a)')
  BY <1>1, <1>3, <1>4, <1>6, OwnStep DEF EndInv, InStep, Informed, Current, Late
<1> QED BY <1>4, <1>5, <1>6 DEF EndInv

\* The steps of reconcile_children_impl write to none of the stores of this section.
LEMMA ReconcileEnds ==
    ASSUME TypeOK, NEW a \in Agent, NEW s \in Slot, EndInv(a), NEW u \in Attempts,
           attempt[<<a, s>>].at \in {"read", "record"},
           u.at \in {"read", "record", "done", "failed"},
           attempt' = [attempt EXCEPT ![<<a, s>>] = u],
           UNCHANGED <<output, index, citations, elsewhere>>
    PROVE  EndInv(a)'
<1>1. UNCHANGED <<job, told, missed, outlived>>
  BY DEF elsewhere
<1>2. OnItsWay(a)'
  BY <1>1, OwnStep DEF EndInv, OnItsWay, Current, NoAttempt
<1>3. ASSUME a \notin outlived
      PROVE  InStep(a)' /\ (a \in Child => Informed(a)')
  <2>1. job[a].at = "read" /\ InStep(a) /\ (a \in Child => Informed(a))
    BY <1>3, WritersBelong DEF EndInv
  <2>2. Late(a)' \in {Late(a), u}
    BY OwnStep
  <2>3. InStep(a)'
    BY <1>1, <2>1, <2>2 DEF InStep
  <2>4. a \in Child => Informed(a)'
    BY <1>1, <2>1 DEF Informed
  <2> QED BY <2>3, <2>4
<1> QED BY <1>1, <1>2, <1>3 DEF EndInv

\* Every step of an attempt keeps the invariant for every agent.
LEMMA ActivityEnds ==
    ASSUME AllEndInv, NEW a \in Agent, NEW s \in Slot, ActivityStep(<<a, s>>)
    PROVE  \A b \in Agent : EndInv(b)'
<1> DEFINE k == <<a, s>>
<1>1. TypeOK /\ EndInv(a) /\ attempt[k] \in Attempts
  BY DEF AllEndInv, TypeOK
<1>2. EndInv(a)'
  <2>0. ASSUME \/ \E c \in Child : ReadChild(k, c)
               \/ \E e \in Record : RecordEvidence(k, e)
               \/ ReadDone(k) \/ CheckConflict(k)
        PROVE  /\ attempt[k].at \in {"read", "record"}
               /\ UNCHANGED <<output, index, citations, elsewhere>>
    BY <2>0 DEF ReadChild, RecordEvidence, ReadDone, CheckConflict, stores
  <2>1. ASSUME NEW c \in Child, ReadChild(k, c) PROVE EndInv(a)'
    <3>1. CASE output[c] = None
      <4>1. PICK u \in Attempts : u = [attempt[k] EXCEPT !.at = "failed"]
        BY <1>1, AdvancedType DEF Stage
      <4>2. u.at = "failed" /\ attempt' = [attempt EXCEPT ![k] = u]
        BY <1>1, <2>1, <3>1, <4>1 DEF ReadChild, Attempts
      <4> QED BY <1>1, <2>0, <2>1, <4>2, ReconcileEnds
    <3>2. CASE output[c] # None
      <4>1. output[c] \in Body
        BY <1>1, <3>2 DEF TypeOK, Agent
      <4>2. PICK u \in Attempts : u = [attempt[k] EXCEPT
                 !.unread = @ \ {c}, !.records = @ \cup {[child |-> c, read |-> output[c]]}]
        BY <1>1, <4>1, AdvancedType
      <4>3. u.at = "read" /\ attempt' = [attempt EXCEPT ![k] = u]
        BY <1>1, <2>1, <3>2, <4>2 DEF ReadChild, Attempts
      <4> QED BY <1>1, <2>0, <2>1, <4>3, ReconcileEnds
    <3> QED BY <3>1, <3>2
  <2>2. ASSUME NEW e \in Record, RecordEvidence(k, e) PROVE EndInv(a)'
    <3>1. PICK u \in Attempts : u = [attempt[k] EXCEPT !.records = @ \ {e}]
      BY <1>1, AdvancedType
    <3>2. u.at = "record" /\ attempt' = [attempt EXCEPT ![k] = u]
      BY <1>1, <2>2, <3>1 DEF RecordEvidence, Attempts
    <3> QED BY <1>1, <2>0, <2>2, <3>2, ReconcileEnds
  <2>3. CASE ReadDone(k)
    <3>1. PICK u \in Attempts : u = [attempt[k] EXCEPT !.at = "record"]
      BY <1>1, AdvancedType DEF Stage
    <3>2. u.at = "record" /\ attempt' = [attempt EXCEPT ![k] = u]
      BY <1>1, <2>3, <3>1 DEF ReadDone, Attempts
    <3> QED BY <1>1, <2>0, <2>3, <3>2, ReconcileEnds
  <2>4. CASE CheckConflict(k)
    <3>1. PICK v \in {"done", "failed"} : attempt' = [attempt EXCEPT ![k].at = v]
      BY <2>4 DEF CheckConflict
    <3>2. PICK u \in Attempts : u = [attempt[k] EXCEPT !.at = v]
      BY <1>1, AdvancedType DEF Stage
    <3>3. u.at = v /\ attempt' = [attempt EXCEPT ![k] = u]
      BY <1>1, <3>1, <3>2 DEF Attempts
    <3> QED BY <1>1, <2>0, <2>4, <3>1, <3>3, ReconcileEnds
  <2> QED
    BY <1>1, <2>1, <2>2, <2>3, <2>4, PutBodyEnds, SetFileVersionEnds, AddCitationEnds,
       PersistDoneEnds DEF ActivityStep
<1>3. ASSUME NEW b \in Agent \ {a} PROVE EndInv(b)'
  <2>1. /\ attempt'[<<b, "current">>] = attempt[<<b, "current">>]
        /\ attempt'[<<b, "late">>] = attempt[<<b, "late">>]
        /\ output'[b] = output[b] /\ index'[b] = index[b]
        /\ citations \subseteq citations' /\ UNCHANGED elsewhere
    BY <1>1, StepIsLocal
  <2>2. Current(b)' = Current(b) /\ Late(b)' = Late(b)
    BY <2>1 DEF Current, Late
  <2>3. UNCHANGED <<job, told, missed, outlived>>
    BY <2>1 DEF elsewhere
  <2> QED BY <2>1, <2>2, <2>3, OthersUntouched DEF AllEndInv
<1> QED BY <1>2, <1>3

-----------------------------------------------------------------------------
(* The runs, again.                                                        *)

\* Scheduling an activity.
LEMMA ScheduleEnds ==
    ASSUME AllEndInv, NEW a \in Agent, NEW t \in Attempts, Schedule(a, t),
           t.at = "put" \/ (t.at = "read" /\ a = Parent),
           UNCHANGED <<stores, told, missed, outlived>>
    PROVE  \A b \in Agent : EndInv(b)'
<1>1. /\ TypeOK /\ job[a] = NoAttempt /\ job' = [job EXCEPT ![a] = t]
      /\ attempt' = [attempt EXCEPT ![<<a, "current">>] = t] /\ "current" \in Slot
      /\ UNCHANGED <<output, index, citations>>
  BY DEF AllEndInv, Schedule, Waits, Slot, stores
<1>2. job'[a] = t /\ \A b \in Agent \ {a} : job'[b] = job[b]
  BY <1>1 DEF TypeOK
<1>3. Current(a)' = t /\ Late(a)' = Late(a)
  BY <1>1, OwnStep
<1>4. \A b \in Agent \ {a} : Current(b)' = Current(b) /\ Late(b)' = Late(b)
  BY <1>1 DEF TypeOK, Current, Late, Slot
<1>5. EndInv(a) /\ job[a].at = "none"
  BY <1>1 DEF AllEndInv, NoAttempt
<1>6. OnItsWay(a)'
  BY <1>2, <1>3 DEF OnItsWay
<1>7. ASSUME a \notin outlived
      PROVE  InStep(a)' /\ (a \in Child => Informed(a)')
  <2>1. Late(a).at \notin {"put", "index", "cite", "read", "record"}
    BY <1>5, <1>7 DEF EndInv, InStep
  <2> QED
    BY <1>1, <1>2, <1>3, <1>5, <1>7, <2>1, AgentAssumption DEF EndInv, InStep, Informed
<1>8. EndInv(a)'
  BY <1>6, <1>7 DEF EndInv
<1>9. ASSUME NEW b \in Agent \ {a} PROVE EndInv(b)'
  BY <1>1, <1>2, <1>4, OthersUntouched DEF AllEndInv
<1> QED BY <1>8, <1>9

\* A failed attempt.
LEMMA AttemptFailsEnds ==
    ASSUME AllEndInv, NEW a \in Agent, AttemptFails(a)
    PROVE  \A b \in Agent : EndInv(b)'
<1>1. /\ TypeOK /\ EndInv(a) /\ job[a] \in Attempts
      /\ UNCHANGED <<stores, job, told, missed, outlived>>
      /\ UNCHANGED <<output, index, citations>>
  BY DEF AllEndInv, TypeOK, AttemptFails, stores
<1>2. /\ Current(a).at \notin {"none", "done", "failed"} /\ job[a].at # "none"
  BY <1>1 DEF AttemptFails, Running, Ended, Current, EndInv, OnItsWay, NoAttempt
<1>3. /\ <<a, "current">> \in Agent \X Slot /\ <<a, "late">> \in Agent \X Slot
      /\ <<a, "current">> # <<a, "late">>
  BY DEF Slot
<1>4. /\ Current(a)' = job[a] /\ Late(a)' \in {Late(a), Current(a)}
      /\ \A b \in Agent \ {a} : Current(b)' = Current(b) /\ Late(b)' = Late(b)
  BY <1>1, <1>3 DEF AttemptFails, TypeOK, Current, Late, Slot
<1>5. OnItsWay(a)'
  BY <1>1, <1>2, <1>4 DEF EndInv, OnItsWay
<1>6. ASSUME a \notin outlived
      PROVE  InStep(a)' /\ (a \in Child => Informed(a)')
  BY <1>1, <1>2, <1>4, <1>6 DEF EndInv, InStep, Informed, OnItsWay
<1>7. EndInv(a)'
  BY <1>1, <1>5, <1>6 DEF EndInv
<1>8. ASSUME NEW b \in Agent \ {a} PROVE EndInv(b)'
  BY <1>1, <1>4, OthersUntouched DEF AllEndInv
<1> QED BY <1>7, <1>8

\* A run that takes the result of its activity: what it leaves untold is counted as
\* missed, and an attempt it leaves behind as outliving.
LEMMA ReleaseEnds ==
    ASSUME AllEndInv, NEW a \in Agent, Release(a), Ended(<<a, "current">>),
           UNCHANGED stores,
           \A b \in Child \ {a} : told'[b] = told[b] /\ (b \in missed <=> b \in missed'),
           a \in Child => a \in missed' \/ told'[a] = job[a].body
    PROVE  \A b \in Agent : EndInv(b)'
<1>1. /\ TypeOK /\ EndInv(a) /\ UNCHANGED <<output, index, citations>>
      /\ job' = [job EXCEPT ![a] = NoAttempt] /\ "current" \in Slot
      /\ attempt' = [attempt EXCEPT ![<<a, "current">>] = NoAttempt]
  BY DEF AllEndInv, Release, stores, Slot
<1>2. job'[a] = NoAttempt /\ \A b \in Agent \ {a} : job'[b] = job[b]
  BY <1>1 DEF TypeOK
<1>3. Current(a)' = NoAttempt /\ Late(a)' = Late(a)
  BY <1>1, OwnStep
<1>4. \A b \in Agent \ {a} : Current(b)' = Current(b) /\ Late(b)' = Late(b)
  BY <1>1 DEF TypeOK, Current, Late, Slot
<1>5. OnItsWay(a)'
  BY <1>2, <1>3 DEF OnItsWay, NoAttempt
<1>6. ASSUME a \notin outlived'
      PROVE  InStep(a)' /\ (a \in Child => Informed(a)')
  <2>1. a \notin outlived /\ ~Running(<<a, "late">>)
    BY <1>6 DEF Release
  <2>2. Late(a).at \in {"none", "done", "failed"}
    BY <2>1 DEF Running, Ended, Late
  <2>3. Current(a).at \in {"done", "failed"}
    BY DEF Ended, Current
  <2>4. index[a] = output[a] /\ (job[a].at = "put" => output[a] = job[a].body)
    BY <1>1, <2>1, <2>3 DEF EndInv, OnItsWay, InStep
  <2>5. a \in Child => job[a].at = "put"
    <3>1. job[a].at \in {"put", "none", "read"}
      BY <1>1 DEF EndInv, OnItsWay
    <3>2. job[a].at # "none"
      BY <1>1, <2>3 DEF EndInv, OnItsWay, NoAttempt
    <3>3. a \in Child => job[a].at # "read"
      BY <1>1, AgentAssumption DEF EndInv, OnItsWay
    <3> QED BY <3>1, <3>2, <3>3
  <2> QED BY <1>1, <1>2, <1>3, <2>2, <2>4, <2>5 DEF InStep, Informed, NoAttempt
<1>7. EndInv(a)'
  BY <1>5, <1>6 DEF EndInv
<1>8. ASSUME NEW b \in Agent \ {a} PROVE EndInv(b)'
  <2>1. b \in outlived <=> b \in outlived'
    BY DEF Release
  <2>2. CASE b \in Child
    BY <1>1, <1>2, <1>4, <2>1, <2>2, OthersUntouched DEF AllEndInv
  <2>3. CASE b \notin Child
    BY <1>1, <1>2, <1>4, <2>1, <2>3 DEF AllEndInv, EndInv, OnItsWay, InStep
  <2> QED BY <2>2, <2>3
<1> QED BY <1>7, <1>8

\* Both invariants together are inductive.
Inv == PinInv /\ AllEndInv

LEMMA Inductive == Inv /\ [Next]_vars => Inv'
<1> SUFFICES ASSUME PinInv, AllEndInv, [Next]_vars PROVE Inv'
  BY DEF Inv
<1>1. PinInv' /\ TypeOK'
  BY PinInductive DEF PinInv
<1> SUFFICES \A b \in Agent : EndInv(b)'
  BY <1>1 DEF Inv, AllEndInv
<1>2. ASSUME NEW a \in Agent, NEW b \in Body, NEW cites \in SUBSET Record,
             WriteOutput(a, b, cites)
      PROVE  \A d \in Agent : EndInv(d)'
  <2>1. PICK t \in Attempts : t = [NoAttempt EXCEPT !.at = FirstStage, !.body = b,
                                                    !.cites = cites]
    BY NoAttemptType, PersistOrder DEF NoAttempt, Attempts, Stage
  <2>2. t.at = "put" /\ Schedule(a, t)
    BY <1>2, <2>1, PersistOrder DEF NoAttempt, WriteOutput
  <2>3. UNCHANGED <<stores, told, missed, outlived>>
    BY <1>2 DEF WriteOutput
  <2> QED BY <2>2, <2>3, ScheduleEnds
<1>3. ASSUME NEW sources \in SUBSET Child, NEW conflict \in {"none", "ok", "short"},
             Reconcile(sources, conflict)
      PROVE  \A d \in Agent : EndInv(d)'
  <2>1. PICK t \in Attempts : t = [NoAttempt EXCEPT !.at = "read", !.unread = sources,
                                                    !.conflict = conflict]
    BY NoAttemptType DEF NoAttempt, Attempts, Stage
  <2>2. t.at = "read" /\ Schedule(Parent, t) /\ Parent \in Agent
    BY <1>3, <2>1 DEF NoAttempt, Reconcile, Agent
  <2>3. UNCHANGED <<stores, told, missed, outlived>>
    BY <1>3 DEF Reconcile
  <2> QED BY <2>2, <2>3, ScheduleEnds
<1>4. ASSUME NEW k \in Agent \X Slot, ActivityStep(k)
      PROVE  \A d \in Agent : EndInv(d)'
  <2>1. PICK a \in Agent, s \in Slot : k = <<a, s>>
    OBVIOUS
  <2> QED BY <1>4, <2>1, ActivityEnds
<1>5. CASE ParentResumes
  <2>1. /\ Parent \in Agent /\ Parent \notin Child /\ UNCHANGED <<stores, told, missed>>
        /\ Release(Parent) /\ Ended(<<Parent, "current">>)
    BY <1>5, AgentAssumption DEF ParentResumes, Agent
  <2> QED BY <2>1, ReleaseEnds
<1>6. ASSUME NEW c \in Child, SignalParent(c)
      PROVE  \A d \in Agent : EndInv(d)'
  <2>1. /\ c \in Agent /\ UNCHANGED stores /\ Release(c) /\ Ended(<<c, "current">>)
        /\ \/ told' = [told EXCEPT ![c] = job[c].body] /\ missed' = missed \ {c}
           \/ missed' = missed \cup {c} /\ UNCHANGED told
    BY <1>6 DEF SignalParent, Agent
  <2>2. /\ \A b \in Child \ {c} : told'[b] = told[b] /\ (b \in missed <=> b \in missed')
        /\ c \in missed' \/ told'[c] = job[c].body
    BY <2>1 DEF PinInv, TypeOK
  <2> QED BY <2>1, <2>2, ReleaseEnds
<1>7. CASE UNCHANGED vars
  BY <1>7, OthersUntouched DEF AllEndInv, vars, stores, elsewhere, Current, Late
<1>8. evidence \subseteq Record
  BY DEF PinInv, TypeOK
<1> QED
  BY <1>2, <1>3, <1>4, <1>5, <1>6, <1>7, <1>8, AttemptFailsEnds DEF Next, Agent

\* No activity, no Output and nothing to be told of at first.
LEMMA InitInv == Init => Inv
<1> SUFFICES ASSUME Init PROVE Inv
  OBVIOUS
<1>1. PinInv /\ TypeOK
  BY PinInit DEF PinInv
<1>2. ASSUME NEW a \in Agent PROVE EndInv(a)
  <2>1. Current(a) = NoAttempt /\ Late(a) = NoAttempt /\ job[a] = NoAttempt
    BY DEF Init, Current, Late, Slot
  <2> QED
    BY <2>1 DEF Init, EndInv, OnItsWay, InStep, Informed, NoAttempt
<1> QED BY <1>1, <1>2 DEF Inv, AllEndInv

\* Both stores converge: between two activities of an agent its file_index row is the
\* version of its file, for any failed or late attempts, as long as none outlived the
\* activity it was an attempt at (persist_output_impl).
THEOREM StoresAgree == Spec => []StoresConverge
<1>1. Inv => StoresConverge
  <2> SUFFICES ASSUME Inv, NEW a \in Agent, Settled(a), a \notin outlived
               PROVE  index[a] = output[a]
    BY DEF StoresConverge
  <2>1. OnItsWay(a) /\ InStep(a) /\ job[a] = NoAttempt
    BY DEF Inv, AllEndInv, EndInv, Settled, Waits
  <2> QED BY <2>1 DEF InStep, NoAttempt
<1> QED BY <1>1, InitInv, Inductive, PTL DEF Spec

\* The reference graph is complete when the write returns (persist_output_impl,
\* resolve_cited): for any cited records and failed attempts, the parent's version has
\* an edge for every one of them.
THEOREM EdgesAreComplete == Spec => []EdgesComplete
<1>1. Inv => EdgesComplete
  <2> SUFFICES ASSUME Inv, attempt[<<Parent, "current">>].at = "done",
                      job[Parent].at = FirstStage, NEW e \in job[Parent].cites
               PROVE  [citing |-> job[Parent].body, child |-> e.child, cited |-> e.read]
                          \in citations
    BY DEF EdgesComplete
  <2>1. OnItsWay(Parent) /\ job[Parent].at = "put" /\ Current(Parent).at = "done"
    BY PersistOrder DEF Inv, AllEndInv, EndInv, Agent, Current
  <2> QED BY <2>1 DEF OnItsWay, Edge
<1> QED BY <1>1, InitInv, Inductive, PTL DEF Spec

\* A parent that missed no signal was last told of the Output the child's file has now
\* (write_output, signal_parent_with_trigger), for any number of children.
THEOREM ParentIsCurrent == Spec => []ToldOfCurrent
<1>1. Inv => ToldOfCurrent
  <2> SUFFICES ASSUME Inv, NEW c \in Child, Settled(c), c \notin missed \cup outlived
               PROVE  told[c] = output[c]
    BY DEF ToldOfCurrent
  <2>1. Informed(c) /\ job[c] = NoAttempt
    BY DEF Inv, AllEndInv, EndInv, Settled, Waits, Agent
  <2> QED BY <2>1 DEF Informed, NoAttempt
<1> QED BY <1>1, InitInv, Inductive, PTL DEF Spec
=============================================================================
