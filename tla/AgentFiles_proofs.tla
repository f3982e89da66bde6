-------------------------- MODULE AgentFiles_proofs --------------------------
(***************************************************************************)
(* Proofs about AgentFiles: who writes where, which records stay as they   *)
(* were written, what an output cites, and what a refused batch leaves,    *)
(* for every set of requests the model may make.  And about RecentNotes:   *)
(* the seed's index of notes is true, however many notes there are and     *)
(* however few of them the sidecar holds.                                  *)
(***************************************************************************)
EXTENDS AgentFiles, RecentNotes, FiniteSetTheorems, SequenceTheorems, TLAPS

-----------------------------------------------------------------------------
(* Paths that are accepted are keys as they stand.                         *)

\* Without a ".." a cleaned path is the key the storage uses.
LEMMA CleanedIsKey ==
    ASSUME NEW raw \in Seq(STRING), ~Escapes(raw)
    PROVE  /\ Cleaned(raw) \in Seq(STRING)
           /\ KeyPath(Cleaned(raw)) = Cleaned(raw)
<1>1. /\ Cleaned(raw) \in Seq(STRING)
      /\ \A i \in DOMAIN Cleaned(raw) : Cleaned(raw)[i] # ParentDir
  <2>1. CASE raw # <<>> /\ raw[1] = CurDir
    <3>1. Cleaned(raw) = Tail(raw)
      BY <2>1 DEF Cleaned
    <3>2. /\ Tail(raw) \in Seq(STRING)
          /\ \A i \in DOMAIN Tail(raw) : i + 1 \in DOMAIN raw /\ Tail(raw)[i] = raw[i + 1]
      BY <2>1
    <3> QED BY <3>1, <3>2 DEF Escapes
  <2>2. CASE ~(raw # <<>> /\ raw[1] = CurDir)
    BY <2>2 DEF Cleaned, Escapes
  <2> QED BY <2>1, <2>2
<1>2. ParentDir \notin Range(Cleaned(raw))
  BY <1>1 DEF Range
<1> QED BY <1>1, <1>2 DEF KeyPath

InNotes(p) == p[1] = "notes" /\ Last(p) # TailName

\* A path that may be written names a note, and no sidecar.
LEMMA WritableIsNote ==
    ASSUME NEW raw \in Seq(STRING), Writable(raw)
    PROVE  InNotes(NotesKey(raw))
<1> DEFINE rel == Cleaned(raw)
<1>1. /\ rel \in Seq(STRING) /\ NotesKey(raw) = rel
      /\ Len(rel) > 1 /\ rel[1] = "notes" /\ Last(Tail(rel)) # TailName
  BY CleanedIsKey DEF Writable, HasNotesKey, IsNoteRecord, NotesKey
<1>2. Last(Tail(rel)) = Last(rel)
  <2> HIDE DEF rel
  <2>1. /\ Tail(rel) \in Seq(STRING) /\ Len(Tail(rel)) = Len(rel) - 1
        /\ Tail(rel)[Len(rel) - 1] = rel[Len(rel)]
    BY <1>1
  <2> QED BY <2>1 DEF Last
<1> QED BY <1>1, <1>2 DEF InNotes

\* Records: evidence and conflicts, without the sidecar, and the mandate.
IsRecord(p) ==
    p = Mandate \/ p[1] = "conflicts" \/ (p[1] = "evidence" /\ p # EvidenceTail)

\* What may be cited is evidence, and not its sidecar.
LEMMA CitableIsEvidence ==
    ASSUME NEW raw \in Seq(STRING), Citable(raw)
    PROVE  CitedKey(raw)[1] = "evidence" /\ IsRecord(CitedKey(raw))
BY CleanedIsKey DEF Citable, CitedKey, EvidenceTail, IsRecord

-----------------------------------------------------------------------------
(* The step in progress.                                                   *)

Looks == {"read", "list", "search"}
Acts == Looks \cup {"rewrite", "output", "tool", "conflict"}

\* A step has its request, and nothing is answered while it runs.
StepIsWhole ==
    step # NoStep =>
        /\ step.act \in Acts /\ observed = Nothing
        /\ step = [act |-> step.act, arg |-> step.arg, done |-> step.done,
                   errors |-> step.errors]
        /\ step.act = "rewrite" =>
              step.arg \in Rewrites /\ step.done \in 0 .. Len(step.arg)
        /\ step.act = "output" => step.arg \in Citations

\* Until its first op is applied, and in a step that only reads, the files are
\* as they were when the step began.
UntouchedSoFar ==
    step # NoStep =>
        /\ step.act \in Looks \cup {"output"} => files = before
        /\ step.act = "rewrite" /\ ~Valid(step.arg) => files = before

\* The files of the model are the notes, and the runtime writes everywhere else.
OneAuthor ==
    \A p \in Present : /\ files[p].by \in {"model", "runtime"}
                       /\ files[p].by = "model" <=> InNotes(p)

\* What the output cites are records.
CitesRecords == \A c \in cited : IsRecord(c.path)

FilesInv ==
    /\ StepIsWhole /\ UntouchedSoFar /\ OneAuthor /\ CitesRecords
    /\ CitationsHold /\ RefusedLeavesNothing

-----------------------------------------------------------------------------
(* What a step may do to the files.                                        *)

RecordsStay == \A p \in Present : IsRecord(p) => p \in Present' /\ files'[p] = files[p]

\* A file is as it was, or new by the author of the place.
WritesInPlace ==
    \A p \in Present' : \/ p \in Present /\ files'[p] = files[p]
                        \/ files'[p].by = "model" /\ InNotes(p)
                        \/ files'[p].by = "runtime" /\ ~InNotes(p)

\* No output appears.
NoNewOutput == CanonicalOutput \in Present' => CanonicalOutput \in Present

Proper(new) ==
    \A p \in DOMAIN new : /\ ~(IsRecord(p) /\ p \in Present)
                          /\ \/ new[p].by = "model" /\ InNotes(p)
                             \/ new[p].by = "runtime" /\ ~InNotes(p)

LEMMA PutAllEffect ==
    ASSUME NEW new, PutAll(new), Proper(new)
    PROVE  /\ RecordsStay /\ WritesInPlace
           /\ CanonicalOutput \notin DOMAIN new => NoNewOutput
BY DEF PutAll, Over, Proper, RecordsStay, WritesInPlace, NoNewOutput, Present

\* A file that the runtime writes outside notes/, or to its sidecar.
LEMMA RuntimeFile ==
    ASSUME NEW p, NEW v, ~InNotes(p), ~(IsRecord(p) /\ p \in Present)
    PROVE  /\ Proper(Single(p, File("runtime", v)))
           /\ DOMAIN Single(p, File("runtime", v)) = {p}
BY DEF Proper, Single, File

LEMMA RuntimeRecord ==
    ASSUME NEW p, NEW v, ~InNotes(p)
    PROVE  /\ Proper(PutIfAbsent(p, File("runtime", v)))
           /\ DOMAIN PutIfAbsent(p, File("runtime", v)) \subseteq {p}
BY DEF Proper, PutIfAbsent, File

LEMMA ProperOver ==
    ASSUME NEW f, NEW g, Proper(f), Proper(g)
    PROVE  Proper(Over(f, g)) /\ DOMAIN Over(f, g) = DOMAIN f \cup DOMAIN g
BY DEF Proper, Over

LEMMA OverAvoids ==
    ASSUME NEW f, NEW g, NEW p, DOMAIN Over(f, g) = DOMAIN f \cup DOMAIN g,
           p \notin DOMAIN f, p \notin DOMAIN g
    PROVE  p \notin DOMAIN Over(f, g)
OBVIOUS

\* The places of the runtime.
LEMMA Places ==
    /\ ~InNotes(Mandate) /\ ~InNotes(CanonicalOutput) /\ ~InNotes(Retirement)
    /\ ~InNotes(NotesTail) /\ ~InNotes(EvidenceTail)
    /\ ~IsRecord(CanonicalOutput) /\ ~IsRecord(Retirement)
    /\ ~IsRecord(NotesTail) /\ ~IsRecord(EvidenceTail)
    /\ CanonicalOutput \notin {Mandate, Retirement, NotesTail, EvidenceTail}
BY DEF InNotes, IsRecord, Mandate, CanonicalOutput, Retirement, NotesTail, EvidenceTail, Last

LEMMA RecordPlaces ==
    /\ \A n : ~InNotes(LogName(n)) /\ ~IsRecord(LogName(n)) /\ LogName(n) # CanonicalOutput
    /\ \A s, e : ~InNotes(EvidenceRelpath(s, e)) /\ EvidenceRelpath(s, e) # CanonicalOutput
    /\ \A e : ~InNotes(ConflictKey(e)) /\ ConflictKey(e) # CanonicalOutput
BY DEF InNotes, IsRecord, LogName, EvidenceRelpath, ConflictKey, CanonicalOutput, Mandate

LEMMA NotePlaces ==
    ASSUME NEW p, InNotes(p)
    PROVE  ~IsRecord(p) /\ p # CanonicalOutput
BY DEF InNotes, IsRecord, Mandate, CanonicalOutput

\* A step puts files where their author writes, and takes only notes away.
LEMMA StepEffect ==
    ASSUME FilesInv, [Next]_vars
    PROVE  RecordsStay /\ WritesInPlace /\ (NoNewOutput \/ WriteOutput)
<1> USE DEF FilesInv
<1>1. CASE Decide
  <2> DEFINE mandate == PutIfAbsent(Mandate, File("runtime", "mandate"))
             entry == Single(LogName(steps), File("runtime", "log"))
  <2>1. Proper(mandate) /\ DOMAIN mandate \subseteq {Mandate}
    BY Places, RuntimeRecord
  <2>2. Proper(entry) /\ DOMAIN entry = {LogName(steps)}
    BY RecordPlaces, RuntimeFile
  <2>3. PutAll(Over(mandate, entry))
    BY <1>1 DEF Decide, OpenAndLog
  <2> HIDE DEF mandate, entry
  <2>4. /\ Proper(Over(mandate, entry))
        /\ DOMAIN Over(mandate, entry) = DOMAIN mandate \cup DOMAIN entry
    BY <2>1, <2>2, ProperOver
  <2>5. CanonicalOutput \notin DOMAIN mandate /\ CanonicalOutput \notin DOMAIN entry
    BY <2>1, <2>2, Places, RecordPlaces
  <2>6. CanonicalOutput \notin DOMAIN Over(mandate, entry)
    BY <2>4, <2>5, OverAvoids
  <2> QED BY <2>3, <2>4, <2>6, PutAllEffect
<1>2. CASE ApplyOp
  <2> DEFINE op == step.arg[step.done + 1]
             key == NotesKey(op.path)
             note == Single(key, File("model", op.value))
             sidecar == Single(NotesTail, File("runtime", "tail"))
  <2>1. InNotes(key)
    <3>1. /\ step.arg \in Rewrites /\ step.done \in 0 .. Len(step.arg)
          /\ step.done < Len(step.arg) /\ Valid(step.arg)
      BY <1>2 DEF ApplyOp, At, Refused, StepIsWhole, NoStep
    <3>2. step.done + 1 \in DOMAIN step.arg
      BY <3>1, PathAssumption
    <3> QED BY <3>1, <3>2, PathAssumption, WritableIsNote DEF Valid
  <2>2. \/ UNCHANGED files
        \/ PutAll(Over(note, sidecar))
        \/ Delete(key)
    BY <1>2 DEF ApplyOp
  <2>3. ASSUME PutAll(Over(note, sidecar))
        PROVE  RecordsStay /\ WritesInPlace /\ NoNewOutput
    <3>1. Proper(note) /\ DOMAIN note = {key}
      BY <2>1, NotePlaces DEF Proper, Single, File
    <3>2. Proper(sidecar) /\ DOMAIN sidecar = {NotesTail}
      BY Places, RuntimeFile
    <3> HIDE DEF note, sidecar, key
    <3>3. /\ Proper(Over(note, sidecar))
          /\ DOMAIN Over(note, sidecar) = DOMAIN note \cup DOMAIN sidecar
      BY <3>1, <3>2, ProperOver
    <3>4. CanonicalOutput \notin DOMAIN note /\ CanonicalOutput \notin DOMAIN sidecar
      BY <2>1, <3>1, <3>2, Places, NotePlaces
    <3>5. CanonicalOutput \notin DOMAIN Over(note, sidecar)
      BY <3>3, <3>4, OverAvoids
    <3> QED BY <2>3, <3>3, <3>5, PutAllEffect
  <2>4. ASSUME Delete(key)
        PROVE  RecordsStay /\ WritesInPlace /\ NoNewOutput
    <3> HIDE DEF key
    <3> QED BY <2>1, <2>4, NotePlaces
        DEF Delete, RecordsStay, WritesInPlace, NoNewOutput, Present
  <2>5. ASSUME UNCHANGED files
        PROVE  RecordsStay /\ WritesInPlace /\ NoNewOutput
    BY <2>5 DEF RecordsStay, WritesInPlace, NoNewOutput, Present
  <2> QED BY <2>2, <2>3, <2>4, <2>5
<1>3. CASE RecordEvidence
  <2> DEFINE key == EvidenceRelpath(step.arg[1], step.arg[2])
             record == PutIfAbsent(key, File("runtime", step.arg[2]))
             sidecar == Single(EvidenceTail, File("runtime", "tail"))
  <2>1. Proper(record) /\ DOMAIN record \subseteq {key}
    BY RecordPlaces, RuntimeRecord
  <2>2. Proper(sidecar) /\ DOMAIN sidecar = {EvidenceTail}
    BY Places, RuntimeFile
  <2>3. PutAll(Over(record, sidecar)) /\ key # CanonicalOutput
    BY <1>3, RecordPlaces DEF RecordEvidence
  <2> HIDE DEF record, sidecar, key
  <2>4. /\ Proper(Over(record, sidecar))
        /\ DOMAIN Over(record, sidecar) = DOMAIN record \cup DOMAIN sidecar
    BY <2>1, <2>2, ProperOver
  <2>5. CanonicalOutput \notin DOMAIN record /\ CanonicalOutput \notin DOMAIN sidecar
    BY <2>1, <2>2, <2>3, Places
  <2>6. CanonicalOutput \notin DOMAIN Over(record, sidecar)
    BY <2>4, <2>5, OverAvoids
  <2> QED BY <2>3, <2>4, <2>6, PutAllEffect
<1>4. CASE WriteConflict
  <2> DEFINE record == PutIfAbsent(ConflictKey(step.arg), File("runtime", step.arg))
  <2>1. /\ Proper(record) /\ DOMAIN record \subseteq {ConflictKey(step.arg)}
        /\ CanonicalOutput # ConflictKey(step.arg)
    BY RecordPlaces, RuntimeRecord
  <2>2. PutAll(record)
    BY <1>4 DEF WriteConflict
  <2> HIDE DEF record
  <2> QED BY <2>1, <2>2, PutAllEffect
<1>5. CASE WriteOutput
  <2> DEFINE body == Single(CanonicalOutput, File("runtime", "body"))
  <2>1. Proper(body)
    BY Places, RuntimeFile
  <2>2. files' = Over(body, files)
    BY <1>5 DEF WriteOutput, Put
  <2> HIDE DEF body
  <2> QED BY <1>5, <2>1, <2>2 DEF Over, Proper, RecordsStay, WritesInPlace, Present
<1>6. CASE Retire
  <2> DEFINE marker == Single(Retirement, File("runtime", "retired"))
  <2>1. Proper(marker) /\ DOMAIN marker = {Retirement}
    BY Places, RuntimeFile
  <2>2. PutAll(marker)
    BY <1>6 DEF Retire
  <2> HIDE DEF marker
  <2> QED BY <2>1, <2>2, Places, PutAllEffect
<1>7. CASE \/ Refuse \/ BatchDone \/ ReadFile \/ ListStep \/ SearchStep
           \/ RejectOutput \/ AttemptDies \/ UNCHANGED vars
  <2>1. UNCHANGED files
    BY <1>7 DEF Refuse, BatchDone, ReadFile, ListStep, SearchStep, Answer, Fails,
                RejectOutput, AttemptDies, vars
  <2> QED BY <2>1 DEF RecordsStay, WritesInPlace, NoNewOutput, Present
<1> QED BY <1>1, <1>2, <1>3, <1>4, <1>5, <1>6, <1>7 DEF Next

-----------------------------------------------------------------------------
(* Steps.                                                                  *)

\* An attempt that fails or dies starts over.
LEMMA StartedOver ==
    ASSUME StepIsWhole, step # NoStep,
           \/ StorageError
           \/ step' = [step EXCEPT !.done = 0] /\ UNCHANGED observed
    PROVE  /\ step'.act = step.act /\ step'.arg = step.arg /\ step'.done = 0
           /\ StepIsWhole'
<1> DEFINE s == step'
<1>1. /\ step = [act |-> step.act, arg |-> step.arg, done |-> step.done, errors |-> step.errors]
      /\ observed' = Nothing
  BY DEF StepIsWhole, StorageError
<1>2. /\ s.act = step.act /\ s.arg = step.arg /\ s.done = 0
      /\ s = [act |-> s.act, arg |-> s.arg, done |-> s.done, errors |-> s.errors]
  <2>1. CASE step' = [step EXCEPT !.done = 0] /\ UNCHANGED observed
    BY <1>1, <2>1
  <2>2. CASE StorageError
    <3>1. PICK half : half = [step EXCEPT !.done = 0]
      OBVIOUS
    <3>2. /\ half.act = step.act /\ half.arg = step.arg /\ half.done = 0
          /\ half = [act |-> half.act, arg |-> half.arg, done |-> half.done,
                     errors |-> half.errors]
      BY <1>1, <3>1
    <3>3. s = [half EXCEPT !.errors = TRUE]
      BY <2>2, <3>1, Zenon DEF StorageError
    <3> QED BY <3>2, <3>3
  <2> QED BY <2>1, <2>2
<1>3. step.act \in Acts
      /\ (step.act = "rewrite" => step.arg \in Rewrites /\ 0 \in 0 .. Len(step.arg))
      /\ (step.act = "output" => step.arg \in Citations)
  BY PathAssumption DEF StepIsWhole
<1> QED BY <1>1, <1>2, <1>3 DEF StepIsWhole

LEMMA StepStaysWhole ==
    ASSUME FilesInv, [Next]_vars
    PROVE  StepIsWhole'
<1> USE DEF FilesInv
<1>1. CASE Decide
  <2>1. PICK act, arg : /\ Start(act, arg) /\ act \in Acts
                        /\ act = "rewrite" => arg \in Rewrites
                        /\ act = "output" => arg \in Citations
    <3> DEFINE Asks(act, arg) == /\ Start(act, arg) /\ act \in Acts
                                 /\ act = "rewrite" => arg \in Rewrites
                                 /\ act = "output" => arg \in Citations
    <3>1. ASSUME NEW b \in Rewrites, Start("rewrite", b) PROVE Asks("rewrite", b)
      BY <3>1 DEF Acts
    <3>2. ASSUME NEW r \in Place, NEW act \in Looks, Start(act, r) PROVE Asks(act, r)
      BY <3>2 DEF Acts, Looks
    <3>3. ASSUME NEW c \in Citations, Start("output", c) PROVE Asks("output", c)
      BY <3>3 DEF Acts
    <3>4. ASSUME NEW e, Start("tool", e) PROVE Asks("tool", e)
      BY <3>4 DEF Acts
    <3>5. ASSUME NEW e, Start("conflict", e) PROVE Asks("conflict", e)
      BY <3>5 DEF Acts
    <3> HIDE DEF Asks
    <3>6. \E act, arg : Asks(act, arg)
      BY <1>1, <3>1, <3>2, <3>3, <3>4, <3>5 DEF Decide, Looks
    <3> QED BY <3>6 DEF Asks
  <2>2. /\ step' = [act |-> act, arg |-> arg, done |-> 0, errors |-> FALSE]
        /\ observed' = Nothing
    BY <2>1 DEF Start
  <2>3. act = "rewrite" => 0 \in 0 .. Len(arg)
    BY <2>1, PathAssumption
  <2> QED BY <2>1, <2>2, <2>3 DEF StepIsWhole
<1>2. CASE ApplyOp
  <2>1. /\ step # NoStep /\ step.act = "rewrite" /\ step.done < Len(step.arg)
        /\ \/ StorageError
           \/ step' = [step EXCEPT !.done = @ + 1] /\ UNCHANGED observed
    BY <1>2 DEF ApplyOp, At, NoStep
  <2>2. CASE StorageError
    BY <2>1, <2>2, StartedOver
  <2>3. CASE step' = [step EXCEPT !.done = @ + 1] /\ UNCHANGED observed
    <3>1. step.arg \in Rewrites /\ step.done \in 0 .. Len(step.arg) /\ Len(step.arg) \in Nat
      BY <2>1, PathAssumption DEF StepIsWhole
    <3>2. /\ step'.act = step.act /\ step'.arg = step.arg /\ step'.done = step.done + 1
          /\ step' = [act |-> step'.act, arg |-> step'.arg, done |-> step'.done,
                      errors |-> step'.errors]
      BY <2>1, <2>3 DEF StepIsWhole
    <3> QED BY <2>1, <2>3, <3>1, <3>2 DEF StepIsWhole
  <2> QED BY <2>1, <2>2, <2>3
<1>3. CASE AttemptDies
  BY <1>3, StartedOver DEF AttemptDies
<1>4. CASE \/ Refuse \/ BatchDone \/ ReadFile \/ ListStep \/ SearchStep
           \/ RecordEvidence \/ WriteConflict \/ WriteOutput \/ RejectOutput
  <2>1. step # NoStep /\ (step' = NoStep \/ StorageError)
    BY <1>4 DEF Refuse, BatchDone, ReadFile, ListStep, SearchStep, RecordEvidence,
                WriteConflict, WriteOutput, RejectOutput, Answer, Fails, Observe, At, NoStep
  <2>2. CASE step' = NoStep
    BY <2>2 DEF StepIsWhole
  <2> QED BY <2>1, <2>2, StartedOver
<1>5. CASE Retire \/ UNCHANGED vars
  BY <1>5 DEF Retire, vars, StepIsWhole
<1> QED BY <1>1, <1>2, <1>3, <1>4, <1>5 DEF Next

LEMMA StepUntouched ==
    ASSUME FilesInv, [Next]_vars
    PROVE  UntouchedSoFar' /\ RefusedLeavesNothing'
<1> USE DEF FilesInv
<1> DEFINE Both == UntouchedSoFar' /\ RefusedLeavesNothing'
           Kept == UNCHANGED <<files, before>>
<1>1. CASE Decide
  <2>1. before' = files'
    BY <1>1 DEF Decide
  <2> QED BY <2>1 DEF UntouchedSoFar, RefusedLeavesNothing
<1>2. CASE Retire
  BY <1>2 DEF Retire, UntouchedSoFar, RefusedLeavesNothing, Nothing, Correction
<1>3. ASSUME step # NoStep, StorageError, Kept
      PROVE  Both
  BY <1>3, StartedOver
  DEF UntouchedSoFar, RefusedLeavesNothing, StepIsWhole, Nothing, Correction, StorageError
<1>4. ASSUME NEW o, Observe(o), Kept, o = Correction => files = before
      PROVE  Both
  BY <1>4 DEF Observe, UntouchedSoFar, RefusedLeavesNothing
<1>5. ASSUME NEW o, Observe(o), o # Correction
      PROVE  Both
  BY <1>5 DEF Observe, UntouchedSoFar, RefusedLeavesNothing
<1>6. CASE Refuse
  <2>1. step # NoStep /\ step.act = "rewrite" /\ ~Valid(step.arg) /\ Observe(Correction) /\ Kept
    BY <1>6 DEF Refuse, Refused, At, NoStep
  <2> QED BY <2>1, <1>4 DEF UntouchedSoFar
<1>7. CASE ApplyOp
  <2>1. /\ step # NoStep /\ step.act = "rewrite" /\ Valid(step.arg) /\ UNCHANGED before
        /\ \/ StorageError /\ UNCHANGED files
           \/ step' = [step EXCEPT !.done = @ + 1] /\ UNCHANGED observed
    BY <1>7 DEF ApplyOp, Refused, At, NoStep
  <2>2. CASE step' = [step EXCEPT !.done = @ + 1] /\ UNCHANGED observed
    <3>1. step'.act = step.act /\ step'.arg = step.arg /\ observed' = Nothing
      BY <2>1, <2>2 DEF StepIsWhole
    <3>2. Valid(step.arg)' /\ step'.act \notin Looks \cup {"output"}
      BY <2>1, <3>1 DEF Valid, Looks
    <3> QED BY <3>1, <3>2 DEF UntouchedSoFar, RefusedLeavesNothing, Nothing, Correction
  <2> QED BY <2>1, <2>2, <1>3
<1>8. CASE ReadFile \/ ListStep \/ SearchStep \/ RejectOutput
  <2>1. step # NoStep /\ step.act \in Looks \cup {"output"} /\ Kept
    BY <1>8 DEF ReadFile, ListStep, SearchStep, RejectOutput, Answer, Fails, At, NoStep, Looks
  <2>2. StorageError \/ \E o : Observe(o)
    BY <1>8 DEF ReadFile, ListStep, SearchStep, RejectOutput, Answer, Fails
  <2> QED BY <2>1, <2>2, <1>3, <1>4 DEF UntouchedSoFar
<1>9. CASE BatchDone \/ RecordEvidence \/ WriteConflict \/ WriteOutput
  <2>1. \E o : Observe(o) /\ o # Correction
    <3>1. Ok # Correction
      BY DEF Ok, Correction
    <3>2. \A key : [kind |-> "evidence", path |-> key] # Correction
      BY DEF Correction
    <3> QED BY <1>9, <3>1, <3>2 DEF BatchDone, RecordEvidence, WriteConflict, WriteOutput
  <2> QED BY <2>1, <1>5
<1>10. CASE AttemptDies
  <2>1. /\ step # NoStep /\ Kept
        /\ step' = [step EXCEPT !.done = 0] /\ UNCHANGED observed
    BY <1>10 DEF AttemptDies
  <2> QED BY <2>1, StartedOver
      DEF UntouchedSoFar, RefusedLeavesNothing, StepIsWhole, Nothing, Correction
<1>11. CASE UNCHANGED vars
  BY <1>11 DEF vars, UntouchedSoFar, RefusedLeavesNothing, Valid
<1> QED BY <1>1, <1>2, <1>6, <1>7, <1>8, <1>9, <1>10, <1>11 DEF Next

LEMMA AuthorsStay ==
    ASSUME FilesInv, [Next]_vars
    PROVE  OneAuthor'
BY StepEffect DEF FilesInv, OneAuthor, WritesInPlace, Present

\* An output is written with citations, each the name of a record that is there.
LEMMA OutputCites ==
    ASSUME FilesInv, WriteOutput
    PROVE  /\ cited' # {}
           /\ \A c \in cited' : IsRecord(c.path) /\ c.path \in Present /\ c.file = files[c.path]
<1>1. /\ step.arg \in Seq(Seq(STRING)) /\ step.arg # <<>> /\ BadCitations(step.arg) = {}
      /\ cited' = {[path |-> CitedKey(c), file |-> files[CitedKey(c)]] : c \in Range(step.arg)}
  BY PathAssumption DEF WriteOutput, FilesInv, StepIsWhole, At, NoStep
<1>2. Range(step.arg) # {}
  <2>1. 1 \in DOMAIN step.arg
    BY <1>1
  <2> QED BY <2>1 DEF Range
<1>3. ASSUME NEW c \in Range(step.arg)
      PROVE  IsRecord(CitedKey(c)) /\ CitedKey(c) \in Present
  <2>1. PICK i \in DOMAIN step.arg : c = step.arg[i]
    BY DEF Range
  <2>2. Citable(c) /\ CitedKey(c) \in Present /\ c \in Seq(STRING)
    BY <1>1, <2>1 DEF BadCitations, Unfit, Unresolved
  <2> QED BY <2>2, CitableIsEvidence
<1>4. cited' # {}
  <2>1. PICK c : c \in Range(step.arg)
    BY <1>2
  <2>2. [path |-> CitedKey(c), file |-> files[CitedKey(c)]] \in cited'
    BY <1>1, <2>1
  <2> QED BY <2>2
<1>5. ASSUME NEW x \in cited'
      PROVE  IsRecord(x.path) /\ x.path \in Present /\ x.file = files[x.path]
  <2>1. PICK c \in Range(step.arg) : x = [path |-> CitedKey(c), file |-> files[CitedKey(c)]]
    BY <1>1
  <2>2. x.path = CitedKey(c) /\ x.file = files[CitedKey(c)]
    BY <2>1
  <2> QED BY <1>3, <2>2
<1> QED BY <1>4, <1>5

LEMMA CitationsStay ==
    ASSUME FilesInv, [Next]_vars
    PROVE  CitesRecords' /\ CitationsHold'
<1>1. CASE WriteOutput
  BY <1>1, StepEffect, OutputCites DEF CitesRecords, CitationsHold, RecordsStay
<1>2. CASE ~WriteOutput
  <2>1. UNCHANGED cited
    BY <1>2 DEF Next, vars, Decide, Start, Refuse, ApplyOp, BatchDone, ReadFile, ListStep,
                SearchStep, RecordEvidence, WriteConflict, RejectOutput, AttemptDies, Retire,
                Answer, Fails
  <2>2. RecordsStay /\ NoNewOutput
    BY <1>2, StepEffect
  <2> QED BY <2>1, <2>2 DEF FilesInv, CitesRecords, CitationsHold, RecordsStay, NoNewOutput
<1> QED BY <1>1, <1>2

-----------------------------------------------------------------------------
(* Theorems.                                                               *)

LEMMA FilesInvHolds == Spec => []FilesInv
<1>1. Init => FilesInv
  <2> SUFFICES ASSUME Init
               PROVE  FilesInv
    OBVIOUS
  <2>1. /\ files = <<>> /\ step = NoStep /\ observed = Nothing /\ cited = {} /\ before = <<>>
    BY DEF Init
  <2>2. Present = {}
    BY <2>1 DEF Present
  <2> QED BY <2>1, <2>2
      DEF FilesInv, StepIsWhole, UntouchedSoFar, OneAuthor, CitesRecords, CitationsHold,
          RefusedLeavesNothing
<1>2. FilesInv /\ [Next]_vars => FilesInv'
  BY StepStaysWhole, StepUntouched, AuthorsStay, CitationsStay DEF FilesInv
<1> QED BY <1>1, <1>2, PTL DEF Spec

\* notes/ is the model's sole writable surface, and the model is its sole writer:
\* whatever paths the decisions name, a file is the model's exactly when it is a
\* note, so that no rewrite_fs reaches a record, an output or a sidecar
\* (fs.rs apply_ops and resolve_notes_key).
THEOREM NotesAreTheModels == Spec => [](AuthorshipBoundary /\ OneAuthor)
<1>1. FilesInv => AuthorshipBoundary /\ OneAuthor
  BY DEF FilesInv, OneAuthor, AuthorshipBoundary, InNotes
<1> QED BY <1>1, FilesInvHolds, PTL

\* An output cites something, and each record it cites stays on disk as it was
\* when the output was written: nothing the agent may decide later takes a cited
\* record away or writes another over it (fs.rs persist_output, record_evidence).
THEOREM CitedRecordsStay == Spec => []CitationsHold
<1>1. FilesInv => CitationsHold
  BY DEF FilesInv
<1> QED BY <1>1, FilesInvHolds, PTL

\* No step of the agent changes or removes a record of evidence, a record of a
\* conflict or the mandate: the first writer of each is the last (fs.rs
\* record_evidence, write_conflict, new_with_storage through put_if_absent).
THEOREM RecordsAreWrittenOnce == Spec => [][RecordsStay]_vars
<1>1. FilesInv /\ [Next]_vars => [RecordsStay]_vars
  BY StepEffect
<1> QED BY <1>1, FilesInvHolds, PTL DEF Spec

\* A correction that the model reads about a batch, a path or a citation means
\* that its step changed no file, through whatever attempts it went (fs.rs
\* apply_ops: the pre-validation; agent_core.rs execute_step).
THEOREM CorrectionsLeaveNothing == Spec => []RefusedLeavesNothing
<1>1. FilesInv => RefusedLeavesNothing
  BY DEF FilesInv
<1> QED BY <1>1, FilesInvHolds, PTL

-----------------------------------------------------------------------------
(* The lists that the sidecar and the seed are made of.                    *)

LEMMA UpTo ==
    ASSUME NEW n \in Nat
    PROVE  IsFiniteSet(1 .. n) /\ Cardinality(1 .. n) = n
<1>1. IsFiniteSet(1 .. n) /\ Cardinality(1 .. n) = IF 1 > n THEN 0 ELSE n - 1 + 1
  BY FS_Interval
<1> QED BY <1>1

\* A list without repetitions is as long as it has members.
LEMMA ListCounts ==
    ASSUME NEW s \in Seq(Nat), IsInjective(s)
    PROVE  IsFiniteSet(ToSet(s)) /\ Cardinality(ToSet(s)) = Len(s)
<1>1. Len(s) \in Nat /\ DOMAIN s = 1 .. Len(s)
  OBVIOUS
<1>2. IsFiniteSet(1 .. Len(s)) /\ Cardinality(1 .. Len(s)) = Len(s)
  BY <1>1, UpTo
<1>3. s \in Surjection(1 .. Len(s), ToSet(s))
  BY <1>1 DEF Surjection, ToSet
<1>4. s \in Injection(1 .. Len(s), ToSet(s))
  BY <1>1 DEF Injection, ToSet, IsInjective
<1>5. s \in Bijection(1 .. Len(s), ToSet(s))
  BY <1>3, <1>4 DEF Bijection
<1> QED BY <1>2, <1>5, FS_Bijection DEF ExistsBijection

\* Ascending lists the members of a set, each once.
LEMMA AscendingLists ==
    ASSUME NEW S, IsFiniteSet(S), S \subseteq Nat
    PROVE  LET list == Ascending(S)
           IN  /\ list \in Seq(Nat) /\ Len(list) = Cardinality(S) /\ Cardinality(S) \in Nat
               /\ ToSet(list) = S /\ IsInjective(list)
<1> DEFINE Below(x) == {y \in S : y < x}
           list == Ascending(S)
           size == Cardinality(S)
           rank == [x \in S |-> Cardinality(Below(x)) + 1]
<1>1. size \in Nat /\ IsFiniteSet(1 .. size) /\ Cardinality(1 .. size) = size
  BY FS_CardinalityType, FS_Interval
<1>2. ASSUME NEW x \in S PROVE Cardinality(Below(x)) \in 0 .. size - 1
  <2>1. Below(x) \in SUBSET (S \ {x})
    OBVIOUS
  <2>2. IsFiniteSet(S \ {x}) /\ Cardinality(S \ {x}) = size - 1
    BY FS_RemoveElement
  <2>3. IsFiniteSet(Below(x)) /\ Cardinality(Below(x)) <= size - 1
    <3> HIDE DEF Below
    <3> QED BY <2>1, <2>2, FS_Subset
  <2>4. Cardinality(Below(x)) \in Nat
    <3> HIDE DEF Below
    <3> QED BY <2>3, FS_CardinalityType
  <2> QED BY <1>1, <2>3, <2>4
<1>3. ASSUME NEW x \in S, NEW z \in S, x < z
      PROVE  Cardinality(Below(x)) < Cardinality(Below(z))
  <2>1. Below(x) \in SUBSET Below(z)
    <3>1. \A y \in S : y < x => y < z
      BY <1>3
    <3> QED BY <3>1
  <2>2. x \in Below(z) /\ x \notin Below(x)
    BY <1>3
  <2>3. IsFiniteSet(Below(z))
    <3>1. Below(z) \in SUBSET S
      OBVIOUS
    <3> HIDE DEF Below
    <3> QED BY <3>1, FS_Subset
  <2>4. Below(x) # Below(z)
    BY <2>2
  <2>5. Cardinality(Below(x)) \in Nat /\ Cardinality(Below(z)) \in Nat
    <3> HIDE DEF Below
    <3> QED BY <1>1, <1>2
  <2> HIDE DEF Below
  <2> QED BY <2>1, <2>3, <2>4, <2>5, FS_Subset
<1>4. \A x \in S, z \in S : Cardinality(Below(x)) = Cardinality(Below(z)) => x = z
  <2> SUFFICES ASSUME NEW x \in S, NEW z \in S, x # z
               PROVE  Cardinality(Below(x)) # Cardinality(Below(z))
    OBVIOUS
  <2>1. x < z \/ z < x
    OBVIOUS
  <2> HIDE DEF Below
  <2> QED BY <1>1, <1>2, <1>3, <2>1
<1>5. rank \in Injection(S, 1 .. size)
  <2>1. rank \in [S -> 1 .. size]
    <3> HIDE DEF Below
    <3> QED BY <1>1, <1>2
  <2>2. \A x, z \in S : rank[x] = rank[z] => x = z
    <3> HIDE DEF Below
    <3> QED BY <1>1, <1>2, <1>4
  <2> HIDE DEF rank
  <2> QED BY <2>1, <2>2 DEF Injection, IsInjective
<1>6. rank \in Surjection(S, 1 .. size)
  <2> HIDE DEF rank
  <2> QED BY <1>1, <1>5, FS_Injection
<1>7. \A i \in 1 .. size : \E x \in S : Cardinality(Below(x)) = i - 1
  <2> SUFFICES ASSUME NEW i \in 1 .. size PROVE \E x \in S : Cardinality(Below(x)) = i - 1
    OBVIOUS
  <2>1. PICK x \in S : rank[x] = i
    BY <1>6 DEF Surjection
  <2> HIDE DEF Below
  <2>2. Cardinality(Below(x)) + 1 = i
    BY <2>1
  <2> QED BY <1>1, <1>2, <2>2
<1>8. \A i \in 1 .. size : list[i] \in S /\ Cardinality(Below(list[i])) = i - 1
  BY <1>7 DEF Ascending
<1>9. DOMAIN list = 1 .. size /\ list \in [1 .. size -> S]
  BY <1>8 DEF Ascending
<1>10. list \in Seq(Nat) /\ Len(list) = size
  <2> HIDE DEF list, size
  <2>1. list \in [1 .. size -> Nat]
    BY <1>9
  <2> QED BY <1>1, <2>1
<1>11. IsInjective(list)
  <2>1. \A i \in 1 .. size, j \in 1 .. size : list[i] = list[j] => i - 1 = j - 1
    BY <1>8
  <2> HIDE DEF list, size
  <2> QED BY <1>1, <1>9, <2>1 DEF IsInjective
<1>12. ASSUME NEW x \in S PROVE \E i \in 1 .. size : list[i] = x
  <2> DEFINE i == Cardinality(Below(x)) + 1
  <2>1. i \in 1 .. size /\ i - 1 = Cardinality(Below(x))
    <3> HIDE DEF Below
    <3> QED BY <1>1, <1>2
  <2>2. list[i] \in S /\ Cardinality(Below(list[i])) = Cardinality(Below(x))
    BY <1>8, <2>1
  <2> HIDE DEF Below, list
  <2>3. list[i] = x
    BY <1>4, <2>2
  <2> QED BY <2>1, <2>3
<1>13. ToSet(list) = S
  <2> HIDE DEF list, size
  <2> QED BY <1>8, <1>9, <1>12 DEF ToSet
<1> QED BY <1>1, <1>10, <1>11, <1>13

LEMMA WithoutLists ==
    ASSUME NEW s \in Seq(Nat), NEW f
    PROVE  LET rest == Without(s, f)
           IN  /\ rest \in Seq(Nat) /\ ToSet(rest) = ToSet(s) \ {f}
               /\ Len(rest) <= Len(s)
               /\ IsInjective(s) => IsInjective(rest)
<1> DEFINE kept == {i \in DOMAIN s : s[i] # f}
           list == Ascending(kept)
           rest == Without(s, f)
<1>1. Len(s) \in Nat /\ DOMAIN s = 1 .. Len(s)
  OBVIOUS
<1> DEFINE whole == 1 .. Len(s)
<1>0. IsFiniteSet(whole) /\ Cardinality(whole) = Len(s)
  BY <1>1, UpTo
<1>2. kept \in SUBSET (1 .. Len(s)) /\ kept \subseteq Nat
  BY <1>1
<1>3. IsFiniteSet(kept) /\ Cardinality(kept) <= Len(s)
  <2>1. kept \in SUBSET whole
    BY <1>2
  <2> HIDE DEF kept, whole
  <2> QED BY <1>0, <2>1, FS_Subset
<1>4. /\ list \in Seq(Nat) /\ Len(list) = Cardinality(kept) /\ Cardinality(kept) \in Nat
      /\ ToSet(list) = kept /\ IsInjective(list)
  <2> HIDE DEF kept
  <2> QED BY <1>2, <1>3, AscendingLists
<1>5. DOMAIN list = 1 .. Len(list) /\ \A r \in 1 .. Len(list) : list[r] \in kept
  <2> HIDE DEF list, kept
  <2>1. DOMAIN list = 1 .. Len(list)
    BY <1>4
  <2> QED BY <1>4, <2>1 DEF ToSet
<1>6. rest = [r \in 1 .. Len(list) |-> s[list[r]]]
  BY <1>5 DEF Without
<1>7. \A r \in 1 .. Len(list) : s[list[r]] \in Nat /\ s[list[r]] # f /\ list[r] \in DOMAIN s
  <2>1. \A i \in kept : s[i] \in Nat /\ s[i] # f /\ i \in DOMAIN s
    BY <1>1
  <2> HIDE DEF kept, list
  <2> QED BY <1>5, <2>1
<1>8. rest \in Seq(Nat) /\ Len(rest) = Len(list)
  <2> DEFINE l == Len(list)
  <2>1. l \in Nat
    BY <1>4
  <2>2. rest \in [1 .. l -> Nat]
    <3> HIDE DEF rest, list, l
    <3> QED BY <1>6, <1>7 DEF l
  <2> HIDE DEF rest, list, l
  <2>3. rest \in Seq(Nat) /\ Len(rest) = l
    BY <2>1, <2>2
  <2> QED BY <2>3 DEF l
<1>9. ToSet(rest) = ToSet(s) \ {f}
  <2>1. ToSet(rest) \subseteq ToSet(s) \ {f}
    <3> HIDE DEF rest, list
    <3> QED BY <1>6, <1>7 DEF ToSet
  <2>2. ASSUME NEW x \in ToSet(s) \ {f} PROVE x \in ToSet(rest)
    <3>1. PICK i \in DOMAIN s : s[i] = x
      BY DEF ToSet
    <3>2. i \in kept
      BY <2>2, <3>1
    <3> HIDE DEF kept
    <3>3. PICK r \in 1 .. Len(list) : list[r] = i
      BY <1>4, <1>5, <3>2 DEF ToSet
    <3> HIDE DEF rest, list
    <3> QED BY <1>6, <3>1, <3>3 DEF ToSet
  <2> QED BY <2>1, <2>2
<1>10. ASSUME IsInjective(s) PROVE IsInjective(rest)
  <2>1. DOMAIN rest = 1 .. Len(list)
    BY <1>6
  <2> HIDE DEF rest, list
  <2> SUFFICES ASSUME NEW i \in 1 .. Len(list), NEW j \in 1 .. Len(list), rest[i] = rest[j]
               PROVE  i = j
    BY <2>1 DEF IsInjective
  <2>2. s[list[i]] = s[list[j]]
    BY <1>6
  <2>3. list[i] = list[j]
    BY <1>7, <1>10, <2>2 DEF IsInjective
  <2> QED BY <1>4, <1>5, <2>3 DEF IsInjective
<1> QED BY <1>1, <1>3, <1>4, <1>8, <1>9, <1>10

LEMMA Prefix ==
    ASSUME NEW s \in Seq(Nat), NEW n \in Nat, n <= Len(s)
    PROVE  LET cut == SubSeq(s, 1, n)
           IN  /\ cut \in Seq(Nat) /\ Len(cut) = n /\ DOMAIN cut = 1 .. n
               /\ \A i \in 1 .. n : cut[i] = s[i] /\ i \in DOMAIN s
<1>1. Len(s) \in Nat
  OBVIOUS
<1>2. \A i \in 1 .. n : i \in 1 .. Len(s)
  <2>1. \A l \in Nat : n <= l => \A i \in 1 .. n : i \in 1 .. l
    OBVIOUS
  <2> QED BY <1>1, <2>1, Zenon
<1>3. DOMAIN s = 1 .. Len(s)
  OBVIOUS
<1>4. \A i \in 1 .. n : i \in 1 .. Len(s) /\ 1 <= i /\ i <= n
  BY <1>2
<1> QED BY <1>1, <1>3, <1>4, SubSeqProperties

LEMMA TruncatedLists ==
    ASSUME NEW s \in Seq(Nat)
    PROVE  LET cut == Truncated(s)
           IN  /\ cut \in Seq(Nat) /\ Len(cut) <= TAIL_K
               /\ ToSet(cut) \subseteq ToSet(s)
               /\ IsInjective(s) => IsInjective(cut)
               /\ Len(s) <= TAIL_K => cut = s
               /\ Len(s) > TAIL_K => Len(cut) = TAIL_K
               /\ \A x : s # <<>> /\ s[1] = x => x \in ToSet(cut)
<1> DEFINE size == IF Len(s) < TAIL_K THEN Len(s) ELSE TAIL_K
           cut == Truncated(s)
<1>1. Len(s) \in Nat /\ DOMAIN s = 1 .. Len(s) /\ TAIL_K \in Nat \ {0}
  BY NoteAssumption
<1>2. /\ size \in Nat /\ size <= Len(s) /\ size <= TAIL_K /\ (s # <<>> => size >= 1)
      /\ Len(s) <= TAIL_K => size = Len(s)
      /\ Len(s) > TAIL_K => size = TAIL_K
  <2>1. \A l \in Nat, k \in Nat \ {0} :
           LET n == IF l < k THEN l ELSE k
           IN  /\ n \in Nat /\ n <= l /\ n <= k /\ (l # 0 => n >= 1)
               /\ l <= k => n = l
               /\ l > k => n = k
    OBVIOUS
  <2>2. s # <<>> => Len(s) # 0
    OBVIOUS
  <2> QED BY <1>1, <2>1, <2>2, Zenon
<1>3. cut = SubSeq(s, 1, size)
  BY DEF Truncated
<1>4. cut \in Seq(Nat) /\ Len(cut) = size /\ DOMAIN cut = 1 .. size
      /\ \A i \in 1 .. size : cut[i] = s[i] /\ i \in DOMAIN s
  <2> HIDE DEF cut, size
  <2> QED BY <1>1, <1>2, <1>3, Prefix
<1>5. Len(s) <= TAIL_K => cut = s
  <2> SUFFICES ASSUME Len(s) <= TAIL_K PROVE cut = s
    OBVIOUS
  <2>1. size = Len(s)
    BY <1>2
  <2> HIDE DEF cut, size
  <2> QED BY <1>1, <1>4, <2>1
<1>6. Len(s) > TAIL_K => Len(cut) = TAIL_K
  <2> HIDE DEF cut, size
  <2> QED BY <1>2, <1>4
<1>7. ToSet(cut) \subseteq ToSet(s) /\ (IsInjective(s) => IsInjective(cut))
  <2> HIDE DEF cut, size
  <2> QED BY <1>4 DEF ToSet, IsInjective
<1>8. \A x : s # <<>> /\ s[1] = x => x \in ToSet(cut)
  <2> HIDE DEF cut, size
  <2> QED BY <1>2, <1>4 DEF ToSet
<1>9. Len(cut) <= TAIL_K
  <2> HIDE DEF cut, size
  <2> QED BY <1>2, <1>4
<1> HIDE DEF size
<1> QED BY <1>9, <1>4, <1>5, <1>6, <1>7, <1>8

LEMMA Rear ==
    ASSUME NEW s \in Seq(Nat), NEW n \in Nat, n <= Len(s)
    PROVE  LET cut == SubSeq(s, n + 1, Len(s))
           IN  /\ cut \in Seq(Nat) /\ Len(cut) = Len(s) - n
               /\ ToSet(cut) \subseteq ToSet(s)
               /\ IsInjective(s) => IsInjective(cut)
<1> DEFINE cut == SubSeq(s, n + 1, Len(s))
           l == Len(s)
<1>1. l \in Nat /\ DOMAIN s = 1 .. l
  OBVIOUS
<1>2. n <= l /\ cut = SubSeq(s, n + 1, l)
  OBVIOUS
<1> HIDE DEF cut, l
<1>3. \A i \in n + 1 .. l : s[i] \in Nat
  BY <1>1
<1>4. /\ cut \in Seq(Nat) /\ Len(cut) = l - n
      /\ \A i \in 1 .. l - n : cut[i] = s[n + i]
  <2>1. n + 1 \in Int /\ l \in Int /\ l - (n + 1) + 1 = l - n
    BY <1>1
  <2>2. /\ cut \in Seq(Nat)
        /\ Len(cut) = IF n + 1 <= l THEN l - (n + 1) + 1 ELSE 0
        /\ \A i \in 1 .. l - (n + 1) + 1 : cut[i] = s[n + 1 + i - 1]
    BY <1>2, <1>3, <2>1, SubSeqProperties
  <2>3. \A i \in 1 .. l - n : n + 1 + i - 1 = n + i
    BY <1>1
  <2> QED BY <1>1, <1>2, <2>1, <2>2, <2>3
<1>5. DOMAIN cut = 1 .. l - n
  BY <1>4
<1>6. \A i \in 1 .. l - n : n + i \in 1 .. l
  BY <1>1, <1>2
<1>7. ToSet(cut) \subseteq ToSet(s)
  BY <1>1, <1>4, <1>5, <1>6 DEF ToSet
<1>8. ASSUME IsInjective(s) PROVE IsInjective(cut)
  <2> SUFFICES ASSUME NEW i \in 1 .. l - n, NEW j \in 1 .. l - n, cut[i] = cut[j]
               PROVE  i = j
    BY <1>5 DEF IsInjective
  <2>1. n + i = n + j
    BY <1>1, <1>4, <1>6, <1>8 DEF IsInjective
  <2> QED BY <1>1, <2>1
<1> QED BY <1>4, <1>7, <1>8 DEF cut, l

LEMMA ConsLists ==
    ASSUME NEW rest \in Seq(Nat), IsInjective(rest), NEW f \in Nat, f \notin ToSet(rest)
    PROVE  LET full == <<f>> \o rest
           IN  full \in Seq(Nat) /\ IsInjective(full) /\ ToSet(full) = ToSet(rest) \cup {f}
<1> DEFINE full == <<f>> \o rest
           others == ToSet(rest)
<1>3. /\ full \in Seq(Nat) /\ Len(full) = Len(rest) + 1 /\ full # <<>> /\ full[1] = f
      /\ DOMAIN full = 1 .. Len(rest) + 1 /\ Len(rest) \in Nat
      /\ \A i \in 1 .. Len(rest) : full[i + 1] = rest[i]
  OBVIOUS
<1> HIDE DEF full
<1>4. DOMAIN rest = 1 .. Len(rest)
  OBVIOUS
<1>5. \A i \in DOMAIN full : i = 1 \/ (i - 1 \in 1 .. Len(rest) /\ full[i] = rest[i - 1])
  <2> SUFFICES ASSUME NEW i \in DOMAIN full, i # 1
               PROVE  i - 1 \in 1 .. Len(rest) /\ full[i] = rest[i - 1]
    OBVIOUS
  <2>1. i - 1 \in 1 .. Len(rest) /\ i - 1 + 1 = i
    BY <1>3
  <2> QED BY <1>3, <2>1
<1>6. ToSet(full) = others \cup {f}
  <2>1. ToSet(full) \subseteq others \cup {f}
    <3> SUFFICES ASSUME NEW i \in DOMAIN full PROVE full[i] \in others \cup {f}
      BY DEF ToSet
    <3> QED BY <1>3, <1>4, <1>5 DEF ToSet
  <2>2. f \in ToSet(full)
    BY <1>3 DEF ToSet
  <2>3. ASSUME NEW x \in others PROVE x \in ToSet(full)
    <3>1. PICK i \in 1 .. Len(rest) : rest[i] = x
      BY <1>4 DEF ToSet
    <3>2. i + 1 \in DOMAIN full
      BY <1>3
    <3> QED BY <1>3, <3>1, <3>2 DEF ToSet
  <2> QED BY <2>1, <2>2, <2>3
<1>7. \A i \in 1 .. Len(rest) : rest[i] # f
  BY <1>4 DEF ToSet
<1>8. IsInjective(full)
  <2> SUFFICES ASSUME NEW i \in DOMAIN full, NEW j \in DOMAIN full, full[i] = full[j]
               PROVE  i = j
    BY DEF IsInjective
  <2>1. i \in Int /\ j \in Int
    BY <1>3
  <2>2. CASE i = 1 \/ j = 1
    BY <1>3, <1>5, <1>7, <2>2
  <2>3. CASE i # 1 /\ j # 1
    <3>1. i - 1 = j - 1
      BY <1>4, <1>5, <2>3 DEF IsInjective
    <3> QED BY <2>1, <3>1
  <2> QED BY <2>2, <2>3
<1> QED BY <1>3, <1>6, <1>8 DEF full

\* A sidecar names each note once, and no more than it may hold.
IsTail(t) == t = NoTail \/ (t \in Seq(Nat) /\ IsInjective(t) /\ Len(t) <= TAIL_K)

LEMMA EntriesAre ==
    ASSUME NEW t, IsTail(t)
    PROVE  /\ Entries(t) \in Seq(Nat) /\ IsInjective(Entries(t)) /\ Len(Entries(t)) <= TAIL_K
           /\ t # NoTail => Entries(t) = t
<1>1. CASE t = NoTail
  <2>1. <<>> \in Seq(Nat) /\ Len(<<>>) = 0 /\ DOMAIN <<>> = {}
    OBVIOUS
  <2>2. 0 <= TAIL_K
    BY NoteAssumption
  <2> QED BY <1>1, <2>1, <2>2 DEF Entries, IsInjective
<1>2. CASE t # NoTail
  BY <1>2 DEF Entries, IsTail
<1> QED BY <1>1, <1>2

\* append_to_tail puts f first and loses no other entry, unless there is one too many.
LEMMA AppendIs ==
    ASSUME NEW t, IsTail(t), NEW f \in Note
    PROVE  LET next == AppendToTail(t, f)
               others == ToSet(Entries(t)) \ {f}
           IN  /\ IsTail(next) /\ next # NoTail /\ f \in ToSet(next)
               /\ ToSet(next) \subseteq others \cup {f}
               /\ Len(Without(Entries(t), f)) < TAIL_K => ToSet(next) = others \cup {f}
<1> DEFINE rest == Without(Entries(t), f)
           full == <<f>> \o rest
           next == AppendToTail(t, f)
           others == ToSet(Entries(t)) \ {f}
<1>1. /\ rest \in Seq(Nat) /\ ToSet(rest) = others /\ IsInjective(rest)
  BY EntriesAre, WithoutLists
<1>2. next = Truncated(full) /\ f \in Nat
  BY NoteAssumption DEF AppendToTail
<1> HIDE DEF rest
<1>3. /\ full \in Seq(Nat) /\ Len(full) = Len(rest) + 1 /\ full # <<>> /\ full[1] = f
      /\ Len(rest) \in Nat
  BY <1>1, <1>2
<1>7. f \notin ToSet(rest)
  BY <1>1
<1> HIDE DEF full
<1>8. ToSet(full) = others \cup {f} /\ IsInjective(full)
  BY <1>1, <1>2, <1>7, ConsLists DEF full
<1>9. /\ next \in Seq(Nat) /\ Len(next) <= TAIL_K /\ IsInjective(next) /\ f \in ToSet(next)
      /\ ToSet(next) \subseteq ToSet(full)
      /\ Len(full) <= TAIL_K => next = full
  BY <1>2, <1>3, <1>8, TruncatedLists
<1>10. Len(rest) < TAIL_K => Len(full) <= TAIL_K
  BY <1>3, NoteAssumption
<1> HIDE DEF next, others
<1>11. IsTail(next) /\ next # NoTail
  BY <1>9, NoteAssumption DEF IsTail
<1> QED BY <1>8, <1>9, <1>10, <1>11 DEF next, others, rest

LEMMA RemoveIs ==
    ASSUME NEW t, IsTail(t), NEW f
    PROVE  /\ IsTail(RemoveFromTail(t, f))
           /\ ToSet(Entries(RemoveFromTail(t, f))) = ToSet(Entries(t)) \ {f}
<1>1. CASE t = NoTail
  <2>1. ToSet(Entries(t)) = {}
    BY <1>1 DEF Entries, ToSet
  <2>2. RemoveFromTail(t, f) = t
    BY <1>1 DEF RemoveFromTail
  <2> QED BY <2>1, <2>2
<1>2. CASE t # NoTail
  <2>1. t \in Seq(Nat) /\ IsInjective(t) /\ Len(t) <= TAIL_K /\ Entries(t) = t
    BY <1>2, EntriesAre DEF IsTail
  <2> DEFINE rest == Without(t, f)
  <2>2. rest \in Seq(Nat) /\ ToSet(rest) = ToSet(t) \ {f} /\ IsInjective(rest) /\ Len(rest) <= Len(t)
    BY <2>1, WithoutLists
  <2>3. RemoveFromTail(t, f) = rest
    BY <1>2 DEF RemoveFromTail
  <2> HIDE DEF rest
  <2>4. Len(rest) <= TAIL_K
    <3>1. Len(rest) \in Nat /\ Len(t) \in Nat /\ TAIL_K \in Nat
      BY <2>1, <2>2, NoteAssumption
    <3> QED BY <2>1, <2>2, <3>1
  <2>5. rest # NoTail
    BY <2>2, NoteAssumption
  <2> QED BY <2>1, <2>2, <2>3, <2>4, <2>5 DEF IsTail, Entries
<1> QED BY <1>1, <1>2

LEMMA ReverseLists ==
    ASSUME NEW s \in Seq(Nat)
    PROVE  LET back == Reverse(s)
           IN  /\ back \in Seq(Nat) /\ Len(back) = Len(s) /\ ToSet(back) = ToSet(s)
               /\ IsInjective(s) => IsInjective(back)
<1> DEFINE n == Len(s)
           back == Reverse(s)
<1>1. n \in Nat /\ DOMAIN s = 1 .. n /\ \A i \in 1 .. n : s[i] \in Nat
  OBVIOUS
<1>2. back = [i \in 1 .. n |-> s[n - i + 1]]
  BY DEF Reverse
<1> HIDE DEF n, back
<1>3. \A i \in 1 .. n : n - i + 1 \in 1 .. n /\ n - (n - i + 1) + 1 = i
  BY <1>1
<1>4. back \in Seq(Nat) /\ Len(back) = n /\ DOMAIN back = 1 .. n
  BY <1>1, <1>2, <1>3
<1>5. \A i \in 1 .. n : back[i] = s[n - i + 1]
  BY <1>2
<1>6. ToSet(back) = ToSet(s)
  <2>1. \A i \in 1 .. n : back[i] \in ToSet(s)
    BY <1>1, <1>3, <1>5 DEF ToSet
  <2>2. ASSUME NEW i \in 1 .. n PROVE s[i] \in ToSet(back)
    <3>1. n - i + 1 \in DOMAIN back /\ back[n - i + 1] = s[i]
      BY <1>3, <1>4, <1>5
    <3> QED BY <3>1 DEF ToSet
  <2> QED BY <1>1, <1>4, <2>1, <2>2 DEF ToSet
<1>7. ASSUME IsInjective(s) PROVE IsInjective(back)
  <2> SUFFICES ASSUME NEW i \in 1 .. n, NEW j \in 1 .. n, back[i] = back[j] PROVE i = j
    BY <1>4 DEF IsInjective
  <2>1. s[n - i + 1] = s[n - j + 1]
    BY <1>5
  <2>2. n - i + 1 \in DOMAIN s /\ n - j + 1 \in DOMAIN s
    BY <1>1, <1>3
  <2>3. n - i + 1 = n - j + 1
    BY <1>7, <2>1, <2>2 DEF IsInjective
  <2> QED BY <1>1, <2>3
<1> QED BY <1>4, <1>6, <1>7 DEF back, n

\* Opening the file system drops no entry of a note, and adds none of what is no note.
LEMMA OpenIs ==
    ASSUME IsTail(tail), IsFiniteSet(notes), notes \subseteq Note, OpenFs
    PROVE  LET old == ToSet(Entries(tail))
               new == ToSet(Entries(tail'))
           IN  /\ IsTail(tail') /\ new \subseteq old \cup notes
               /\ overflowed' \in BOOLEAN /\ (~overflowed' => notes \subseteq new)
               /\ notes \subseteq new \/ (tail' # NoTail /\ Len(tail') = TAIL_K)
<1> DEFINE old == ToSet(Entries(tail))
           new == ToSet(Entries(tail'))
<1>1. tail' = ReconcileTail /\ overflowed' = (Cardinality(notes) > TAIL_K)
  BY DEF OpenFs
<1>2. CASE ~TailLags
  <2>1. tail' = tail /\ notes \subseteq old
    BY <1>1, <1>2 DEF TailLags, ReconcileTail
  <2> QED BY <1>1, <2>1
<1>3. CASE TailLags
  <2> DEFINE up == Ascending(notes)
             down == Reverse(up)
  <2>1. notes \subseteq Nat /\ TAIL_K \in Nat \ {0}
    BY NoteAssumption
  <2>2. /\ up \in Seq(Nat) /\ Len(up) = Cardinality(notes) /\ Cardinality(notes) \in Nat
        /\ ToSet(up) = notes /\ IsInjective(up)
    BY <2>1, AscendingLists
  <2>4. down \in Seq(Nat) /\ Len(down) = Cardinality(notes) /\ ToSet(down) = notes
        /\ IsInjective(down)
    <3> HIDE DEF up
    <3> QED BY <2>2, ReverseLists
  <2>5. tail' = Truncated(down)
    BY <1>1, <1>3 DEF ReconcileTail
  <2> HIDE DEF down
  <2>6. /\ tail' \in Seq(Nat) /\ Len(tail') <= TAIL_K /\ IsInjective(tail')
        /\ ToSet(tail') \subseteq notes
        /\ Cardinality(notes) <= TAIL_K => ToSet(tail') = notes
        /\ Cardinality(notes) > TAIL_K => Len(tail') = TAIL_K
    BY <2>4, <2>5, TruncatedLists
  <2>7. tail' # NoTail /\ Entries(tail') = tail' /\ IsTail(tail')
    BY <2>6, NoteAssumption DEF Entries, IsTail
  <2>8. Cardinality(notes) <= TAIL_K \/ Cardinality(notes) > TAIL_K
    BY <2>1, <2>2
  <2>9. ~overflowed' => Cardinality(notes) <= TAIL_K
    BY <1>1, <2>8, Zenon
  <2> QED BY <1>1, <2>6, <2>7, <2>8, <2>9
<1> QED BY <1>2, <1>3

-----------------------------------------------------------------------------
(* The seed's index.                                                       *)

\* What is said of an index that is true of the notes.
IsTrue(w) ==
    LET named == ToSet(w.filenames)
        beyond == Cardinality(notes \ named)
    IN  /\ named \subseteq notes
        /\ IF w.more.exact THEN w.more.count = beyond ELSE w.more.count <= beyond

IsWindow(w) ==
    /\ w = [filenames |-> w.filenames, more |-> [exact |-> w.more.exact, count |-> w.more.count]]
    /\ w.filenames \in Seq(Nat) /\ IsInjective(w.filenames) /\ w.more.count \in Nat

\* A list of notes leaves out as many as there are beyond it.
LEMMA Beyond ==
    ASSUME IsFiniteSet(notes), NEW s \in Seq(Nat), IsInjective(s), ToSet(s) \subseteq notes
    PROVE  /\ Cardinality(notes) \in Nat /\ Len(s) \in Nat
           /\ Cardinality(notes \ ToSet(s)) = Cardinality(notes) - Len(s)
           /\ Len(s) <= Cardinality(notes)
<1>1. Cardinality(ToSet(s)) = Len(s) /\ IsFiniteSet(ToSet(s)) /\ Len(s) \in Nat
  BY ListCounts
<1>2. Cardinality(notes) \in Nat
  BY FS_CardinalityType
<1>3. ToSet(s) \in SUBSET notes /\ notes \cap ToSet(s) = ToSet(s)
  OBVIOUS
<1>4. Cardinality(notes \ ToSet(s)) = Cardinality(notes) - Cardinality(notes \cap ToSet(s))
  BY FS_Difference
<1>5. Len(s) <= Cardinality(notes)
  BY <1>1, <1>3, FS_Subset
<1> QED BY <1>1, <1>2, <1>3, <1>4, <1>5

\* recent_window is true of the notes if the sidecar is, for as long as it is not full.
LEMMA WindowIs ==
    ASSUME NEW t, IsTail(t), IsFiniteSet(notes), notes \subseteq Note
    PROVE  LET w == ReadWindow(t)
           IN  /\ IsWindow(w)
               /\ \/ t = NoTail
                  \/ /\ ToSet(t) \subseteq notes
                     /\ ToSet(t) = notes \/ Len(t) = TAIL_K
                  => IsTrue(w)
<1> DEFINE w == ReadWindow(t)
<1>0. notes \subseteq Nat /\ Shown \in Nat /\ TAIL_K \in Nat \ {0}
  BY NoteAssumption
<1>1. CASE t = NoTail
  <2> DEFINE all == Ascending(notes)
             start == IF Len(all) > Shown THEN Len(all) - Shown ELSE 0
             last == SubSeq(all, start + 1, Len(all))
  <2>1. /\ all \in Seq(Nat) /\ Len(all) = Cardinality(notes) /\ Cardinality(notes) \in Nat
        /\ ToSet(all) = notes /\ IsInjective(all)
    BY <1>0, AscendingLists
  <2>2. w = [filenames |-> last, more |-> [exact |-> TRUE, count |-> start]]
    BY <1>1 DEF ReadWindow
  <2> HIDE DEF all
  <2>4. start \in Nat /\ start <= Len(all)
    <3>1. \A l \in Nat : LET n == IF l > Shown THEN l - Shown ELSE 0 IN n \in Nat /\ n <= l
      BY <1>0
    <3> QED BY <2>1, <3>1, Zenon
  <2> HIDE DEF start
  <2>5. last \in Seq(Nat) /\ IsInjective(last) /\ ToSet(last) \subseteq notes
        /\ Len(last) = Cardinality(notes) - start
    BY <2>1, <2>4, Rear
  <2>6. Cardinality(notes \ ToSet(last)) = start
    <3> HIDE DEF last
    <3> QED BY <2>1, <2>4, <2>5, Beyond
  <2> HIDE DEF last, w
  <2>7. w.filenames = last /\ w.more.exact = TRUE /\ w.more.count = start
    BY <2>2
  <2>8. IsWindow(w)
    BY <2>2, <2>4, <2>5, <2>7 DEF IsWindow
  <2>9. IsTrue(w)
    BY <2>5, <2>6, <2>7 DEF IsTrue
  <2> QED BY <2>8, <2>9 DEF w
<1>2. CASE t # NoTail
  <2> DEFINE take == IF Len(t) < Shown THEN Len(t) ELSE Shown
             first == SubSeq(t, 1, take)
  <2>1. t \in Seq(Nat) /\ IsInjective(t) /\ Len(t) \in Nat /\ Len(t) <= TAIL_K
    BY <1>2 DEF IsTail
  <2>2. w = [filenames |-> first,
             more |-> [exact |-> Len(t) # TAIL_K, count |-> Len(t) - take]]
    BY <1>2 DEF ReadWindow
  <2>3. take \in Nat /\ take <= Len(t)
    <3>1. \A l \in Nat : LET n == IF l < Shown THEN l ELSE Shown IN n \in Nat /\ n <= l
      BY <1>0
    <3> QED BY <2>1, <3>1, Zenon
  <2> HIDE DEF take
  <2>4. /\ first \in Seq(Nat) /\ Len(first) = take /\ DOMAIN first = 1 .. take
        /\ \A i \in 1 .. take : first[i] = t[i] /\ i \in DOMAIN t
    BY <2>1, <2>3, Prefix
  <2> HIDE DEF first
  <2>5. IsInjective(first) /\ ToSet(first) \subseteq ToSet(t)
    BY <2>1, <2>4 DEF IsInjective, ToSet
  <2>6. Len(t) - take \in Nat
    <3>1. \A l \in Nat : take <= l => l - take \in Nat
      BY <2>3
    <3> QED BY <2>1, <2>3, <3>1
  <2> HIDE DEF w
  <2>7. IsWindow(w)
    BY <2>2, <2>4, <2>5, <2>6 DEF IsWindow
  <2>8. ASSUME ToSet(t) \subseteq notes, ToSet(t) = notes \/ Len(t) = TAIL_K
        PROVE  IsTrue(w)
    <3>1. Cardinality(notes \ ToSet(first)) = Cardinality(notes) - take
      BY <2>4, <2>5, <2>8, Beyond
    <3>2. Len(t) <= Cardinality(notes) /\ Cardinality(notes) \in Nat
      BY <2>1, <2>8, Beyond
    <3>3. Len(t) # TAIL_K => Len(t) = Cardinality(notes)
      BY <2>1, <2>8, ListCounts
    <3>4. Len(t) - take <= Cardinality(notes) - take
      BY <2>1, <2>3, <3>2
    <3> QED BY <2>2, <2>5, <2>8, <3>1, <3>3, <3>4 DEF IsTrue
  <2> QED BY <1>2, <2>7, <2>8 DEF w
<1> QED BY <1>1, <1>2

\* Pinning keeps an index true, and lists the standing status note once.
LEMMA PinIs ==
    ASSUME NEW w, IsWindow(w), IsFiniteSet(notes), notes \subseteq Note
    PROVE  LET pinned == PinStatus(w)
           IN  /\ pinned.filenames \in Seq(Nat) /\ IsInjective(pinned.filenames)
               /\ STATUS \in notes => STATUS \in ToSet(pinned.filenames)
               /\ IsTrue(w) => IsTrue(pinned)
<1> DEFINE pinned == PinStatus(w)
           s == w.filenames
           full == <<STATUS>> \o s
           less == IF w.more.count = 0 THEN 0 ELSE w.more.count - 1
<1>0. s \in Seq(Nat) /\ IsInjective(s) /\ w.more.count \in Nat /\ STATUS \in Nat
  BY NoteAssumption DEF IsWindow
<1>1. CASE ~(STATUS \in notes /\ STATUS \notin ToSet(s))
  <2>1. pinned = w
    BY <1>1 DEF PinStatus
  <2> QED BY <1>0, <1>1, <2>1
<1>2. CASE STATUS \in notes /\ STATUS \notin ToSet(s)
  <2>1. pinned = [filenames |-> full, more |-> [exact |-> w.more.exact, count |-> less]]
    <3>1. w.more = [exact |-> w.more.exact, count |-> w.more.count]
      BY DEF IsWindow
    <3>2. Decremented(w.more) = [exact |-> w.more.exact, count |-> less]
      <4> DEFINE e == w.more.exact
                 c == w.more.count
      <4>1. w.more = [exact |-> e, count |-> c]
        BY <3>1
      <4> HIDE DEF e, c
      <4> QED BY <4>1 DEF Decremented, e, c
    <3>3. pinned = [filenames |-> full, more |-> Decremented(w.more)]
      BY <1>2 DEF PinStatus
    <3> HIDE DEF pinned, full, less
    <3> QED BY <3>2, <3>3
  <2>2. pinned.filenames = full /\ pinned.more.exact = w.more.exact /\ pinned.more.count = less
    <3> HIDE DEF pinned, full, less
    <3> QED BY <2>1
  <2>3. full \in Seq(Nat) /\ IsInjective(full) /\ ToSet(full) = ToSet(s) \cup {STATUS}
    <3> HIDE DEF s
    <3> QED BY <1>0, <1>2, ConsLists DEF s
  <2> HIDE DEF pinned, full
  <2>4. ASSUME IsTrue(w) PROVE IsTrue(pinned)
    <3>1. ToSet(s) \subseteq notes /\ ToSet(full) \subseteq notes
      BY <1>2, <2>3, <2>4 DEF IsTrue
    <3>2. /\ Cardinality(notes \ ToSet(s)) = Cardinality(notes) - Len(s)
          /\ Cardinality(notes \ ToSet(full)) = Cardinality(notes) - Len(full)
          /\ Len(full) <= Cardinality(notes) /\ Cardinality(notes) \in Nat
          /\ Len(s) \in Nat
      <4> HIDE DEF s
      <4> QED BY <1>0, <2>3, <3>1, Beyond
    <3>3. Len(full) = Len(s) + 1
      <4> HIDE DEF s
      <4> QED BY <1>0 DEF full
    <3> DEFINE c == w.more.count
               n == Cardinality(notes)
               l == Len(s)
    <3>4. IF w.more.exact THEN c = n - l ELSE c <= n - l
      BY <2>4, <3>2 DEF IsTrue
    <3>5. c \in Nat /\ n \in Nat /\ l \in Nat /\ l + 1 <= n
      BY <1>0, <3>2, <3>3
    <3>6. less = IF c = 0 THEN 0 ELSE c - 1
      OBVIOUS
    <3> HIDE DEF c, n, l, less
    <3>7. IF w.more.exact THEN less = n - (l + 1) ELSE less <= n - (l + 1)
      <4>1. CASE w.more.exact
        BY <3>4, <3>5, <3>6, <4>1
      <4>2. CASE ~w.more.exact
        BY <3>4, <3>5, <3>6, <4>2
      <4> QED BY <4>1, <4>2
    <3>8. Cardinality(notes \ ToSet(full)) = n - (l + 1)
      BY <3>2, <3>3 DEF n, l
    <3> QED BY <2>2, <3>1, <3>7, <3>8 DEF IsTrue
  <2> QED BY <2>2, <2>3, <2>4 DEF pinned
<1> QED BY <1>1, <1>2

-----------------------------------------------------------------------------
(* The sidecar and the notes.                                              *)

\* The sidecar's entries that are not there any more, and the notes that it lacks.
Stale == ToSet(Entries(tail)) \ notes
Missing == notes \ ToSet(Entries(tail))

\* What the attempt has still to delete, and what it is changing now.
Deletes(n) == n \in DOMAIN batch /\ n > done /\ batch[n].op = "delete"
ToDelete == {x \in Note : \E n \in DOMAIN batch : Deletes(n) /\ batch[n].note = x}
Changing == IF pc = "tail" THEN {Current.note} ELSE {}

NoteOp == [op : {"write", "delete"}, note : Note]
NotesTypes ==
    /\ host \in {"durable", "inprocess"}
    /\ pc \in {"rest", "seeded", "cycle", "object", "tail", "down"}
    /\ notes \subseteq Note /\ IsFiniteSet(notes) /\ IsTail(tail)
    /\ batch \in Seq(NoteOp) /\ done \in Nat
    /\ pc \in {"object", "tail"} => done < Len(batch)
    /\ overflowed \in BOOLEAN /\ lapsed \in BOOLEAN

\* Between two steps the sidecar names no note that is gone, and what it lacks the next
\* open restores.  An attempt that failed may have left an entry of what it deleted,
\* which its retry deletes again.
DurableInv ==
    /\ pc # "down" /\ ~lapsed
    /\ Stale \subseteq (IF pc \in {"object", "tail"} THEN ToDelete ELSE {})

\* Sidecar and notes agree but for the one that is being changed.
InProcessInv ==
    ~lapsed => /\ Stale \subseteq Changing
               /\ ~overflowed /\ pc # "down" => Missing \subseteq Changing

NotesInv ==
    /\ NotesTypes
    /\ pc = "tail" => (Current.note \in notes <=> Current.op = "write")
    /\ host = "durable" => DurableInv
    /\ host = "inprocess" => InProcessInv

LEMMA NotesStart == NotesInit => NotesInv
<1> SUFFICES ASSUME NotesInit PROVE NotesInv
  OBVIOUS
<1>1. IsFiniteSet({}) /\ IsTail(NoTail) /\ <<>> \in Seq(NoteOp)
  BY FS_EmptySet DEF IsTail
<1>2. Stale = {} /\ Missing = {}
  BY DEF NotesInit, Stale, Missing, Entries, ToSet
<1> QED BY <1>1, <1>2, NoteAssumption DEF NotesInit, NotesInv, NotesTypes, DurableInv, InProcessInv

LEMMA CurrentIs ==
    ASSUME NotesTypes, pc \in {"object", "tail"}
    PROVE  /\ done + 1 \in DOMAIN batch /\ Current \in NoteOp
           /\ Current.note \in Note /\ Current.note \in Nat /\ Len(batch) \in Nat
<1>1. Len(batch) \in Nat /\ DOMAIN batch = 1 .. Len(batch) /\ done \in Nat /\ done < Len(batch)
  BY DEF NotesTypes
<1>2. done + 1 \in DOMAIN batch
  BY <1>1
<1>3. Current \in NoteOp
  BY <1>1, <1>2 DEF NotesTypes, Current
<1> QED BY <1>1, <1>2, <1>3, NoteAssumption DEF NoteOp

\* The file system is opened, or kept open: either way what was true of the sidecar stays
\* so, and it is whole again if it was opened.
LEMMA OpenKeeps ==
    ASSUME NotesTypes, notes' = notes, OpenFs
    PROVE  /\ IsTail(tail') /\ Stale' \subseteq Stale
           /\ overflowed' \in BOOLEAN /\ (~overflowed' => Missing' = {})
           /\ Missing' = {} \/ (tail' # NoTail /\ Len(tail') = TAIL_K)
BY OpenIs DEF NotesTypes, Stale, Missing

LEMMA ActivityKeeps ==
    ASSUME NotesInv, notes' = notes, host' = host, lapsed' = lapsed, OpenPerActivity,
           pc \in {"rest", "cycle"}
    PROVE  /\ IsTail(tail') /\ overflowed' \in BOOLEAN
           /\ ~lapsed => Stale' = {}
           /\ host = "inprocess" /\ ~lapsed /\ ~overflowed' => Missing' = {}
           /\ host = "durable" => /\ ~lapsed
                                  /\ Missing' = {} \/ (tail' # NoTail /\ Len(tail') = TAIL_K)
<1>1. host \in {"durable", "inprocess"} /\ IsTail(tail) /\ overflowed \in BOOLEAN
  BY DEF NotesInv, NotesTypes
<1>2. ~lapsed => Stale = {}
  BY <1>1 DEF NotesInv, DurableInv, InProcessInv, Changing
<1>3. CASE host = "durable"
  <2>1. OpenFs
    BY <1>3 DEF OpenPerActivity
  <2> QED BY <1>2, <1>3, <2>1, OpenKeeps DEF NotesInv, DurableInv
<1>4. CASE host = "inprocess"
  <2>1. tail' = tail /\ overflowed' = overflowed
    BY <1>4 DEF OpenPerActivity, KeepOpen
  <2>2. Stale' = Stale /\ Missing' = Missing
    BY <2>1 DEF Stale, Missing
  <2>3. ~lapsed /\ ~overflowed => Missing = {}
    BY <1>4 DEF NotesInv, InProcessInv, Changing
  <2> QED BY <1>1, <1>2, <1>4, <2>1, <2>2, <2>3
<1> QED BY <1>1, <1>3, <1>4

LEMMA OpsAre ==
    ASSUME NEW ops \in Batch, ValidBatch(ops), ops # <<>>
    PROVE  ops \in Seq(NoteOp) /\ 0 < Len(ops)
<1>1. PICK n \in 0 .. MaxOps : ops \in [1 .. n -> FsOp]
  BY DEF Batch
<1>2. n \in Nat
  OBVIOUS
<1>3. \A i \in 1 .. n : ops[i] \in NoteOp
  <2> SUFFICES ASSUME NEW i \in 1 .. n PROVE ops[i] \in NoteOp
    OBVIOUS
  <2>1. ops[i] \in FsOp /\ ops[i].note \in Note
    BY <1>1 DEF ValidBatch
  <2> QED BY <2>1 DEF FsOp, NoteOp
<1>4. ops \in Seq(NoteOp)
  BY <1>1, <1>2, <1>3
<1> QED BY <1>4

LEMMA StartKeeps ==
    ASSUME NotesInv, NEW ops \in Batch, StartBatch(ops) PROVE NotesInv'
<1>1. ops \in Seq(NoteOp) /\ 0 < Len(ops)
  BY OpsAre DEF StartBatch
<1>2. /\ pc = "cycle" /\ pc' = "object" /\ batch' = ops /\ done' = 0 /\ OpenPerActivity
      /\ host' = host /\ notes' = notes /\ lapsed' = lapsed
  BY DEF StartBatch
<1>3. /\ IsTail(tail') /\ overflowed' \in BOOLEAN
      /\ ~lapsed => Stale' = {}
      /\ host = "inprocess" /\ ~lapsed /\ ~overflowed' => Missing' = {}
      /\ host = "durable" => ~lapsed
  BY <1>2, ActivityKeeps
<1>4. NotesTypes'
  BY <1>1, <1>2, <1>3 DEF NotesInv, NotesTypes
<1> QED BY <1>2, <1>3, <1>4 DEF NotesInv, DurableInv, InProcessInv

LEMMA ActivityEnds ==
    ASSUME NotesInv, pc \in {"rest", "cycle"}, pc' \in {"seeded", "cycle"}, OpenPerActivity,
           UNCHANGED <<host, notes, batch, done, lapsed>>
    PROVE  NotesInv'
<1>3. /\ IsTail(tail') /\ overflowed' \in BOOLEAN
      /\ ~lapsed => Stale' = {}
      /\ host = "inprocess" /\ ~lapsed /\ ~overflowed' => Missing' = {}
      /\ host = "durable" => ~lapsed
  BY ActivityKeeps
<1>4. NotesTypes'
  BY <1>3 DEF NotesInv, NotesTypes
<1> QED BY <1>3, <1>4 DEF NotesInv, DurableInv, InProcessInv

LEMMA PauseKeeps ==
    ASSUME NotesInv, pc \in {"seeded", "cycle"}, pc' \in {"cycle", "rest"},
           UNCHANGED <<host, notes, tail, batch, done, overflowed, lapsed>>
    PROVE  NotesInv'
<1>1. Stale' = Stale /\ Missing' = Missing /\ IsTail(tail')
  BY DEF Stale, Missing, NotesInv, NotesTypes
<1>2. Changing = {} /\ Changing' = {}
  BY DEF Changing
<1>4. NotesTypes'
  BY <1>1 DEF NotesInv, NotesTypes
<1> QED BY <1>1, <1>2, <1>4 DEF NotesInv, DurableInv, InProcessInv

LEMMA ObjectKeeps ==
    ASSUME NotesInv, ChangeObject PROVE NotesInv'
<1> DEFINE f == Current.note
           writes == Current.op = "write"
<1>1. /\ pc = "object" /\ pc' = "tail" /\ tail' = tail /\ batch' = batch /\ done' = done
      /\ notes' = IF writes THEN notes \cup {f} ELSE notes \ {f}
      /\ UNCHANGED <<host, overflowed, lapsed>>
  BY DEF ChangeObject, progress
<1>2. /\ done + 1 \in DOMAIN batch /\ Current \in NoteOp /\ f \in Note /\ Len(batch) \in Nat
      /\ done \in Nat
  BY <1>1, CurrentIs DEF NotesInv, NotesTypes
<1>3. Current' = Current
  BY <1>1 DEF Current
<1> DEFINE named == ToSet(Entries(tail))
<1>4. ToSet(Entries(tail'))  = named
  BY <1>1
<1>5. Changing = {} /\ Changing' = {f}
  BY <1>1, <1>3 DEF Changing
<1>6. writes \/ Current.op = "delete"
  BY <1>2 DEF NoteOp
<1>7. /\ notes' \subseteq Note /\ IsFiniteSet(notes')
      /\ f \in notes' <=> writes
  <2>1. notes \subseteq Note /\ IsFiniteSet(notes)
    BY DEF NotesInv, NotesTypes
  <2>2. IsFiniteSet(notes \cup {f}) /\ IsFiniteSet(notes \ {f})
    BY <2>1, FS_AddElement, FS_RemoveElement
  <2> HIDE DEF f, writes
  <2> QED BY <1>1, <1>2, <2>1, <2>2 DEF f
<1> HIDE DEF f, named
<1>8. /\ Stale' \subseteq Stale \cup (IF writes THEN {} ELSE {f})
      /\ Missing' \subseteq Missing \cup {f}
  BY <1>1, <1>4 DEF Stale, Missing, named
<1>9. NotesTypes'
  BY <1>1, <1>7 DEF NotesInv, NotesTypes
<1>10. ASSUME host = "durable" PROVE DurableInv'
  <2>1. ToDelete' = ToDelete
    BY <1>1 DEF ToDelete, Deletes
  <2>2. ~writes => f \in ToDelete
    <3> SUFFICES ASSUME ~writes PROVE f \in ToDelete
      OBVIOUS
    <3>1. Deletes(done + 1) /\ batch[done + 1].note = f
      BY <1>2, <1>6 DEF Deletes, Current, f
    <3> QED BY <1>2, <3>1 DEF ToDelete
  <2> QED BY <1>1, <1>8, <1>10, <2>1, <2>2 DEF NotesInv, DurableInv
<1>11. ASSUME host = "inprocess" PROVE InProcessInv'
  BY <1>1, <1>5, <1>8, <1>11 DEF NotesInv, InProcessInv
<1>12. pc' = "tail" => (Current'.note \in notes' <=> Current'.op = "write")
  BY <1>3, <1>7 DEF f
<1> QED BY <1>1, <1>9, <1>10, <1>11, <1>12 DEF NotesInv

LEMMA TailKeeps ==
    ASSUME NotesInv, ChangeTail PROVE NotesInv'
<1> DEFINE f == Current.note
           writes == Current.op = "write"
           old == ToSet(Entries(tail))
           new == ToSet(Entries(tail'))
           ends == done + 1 = Len(batch)
<1>1. /\ pc = "tail" /\ UNCHANGED <<host, notes, lapsed>>
      /\ IF ends THEN pc' = "cycle" /\ batch' = <<>> /\ done' = 0
                 ELSE pc' = "object" /\ done' = done + 1 /\ batch' = batch
  BY DEF ChangeTail
<1>2. /\ done + 1 \in DOMAIN batch /\ Current \in NoteOp /\ f \in Note /\ Len(batch) \in Nat
      /\ DOMAIN batch = 1 .. Len(batch) /\ done \in Nat /\ done < Len(batch)
      /\ IsTail(tail) /\ overflowed \in BOOLEAN /\ (f \in notes <=> writes)
  BY <1>1, CurrentIs DEF NotesInv, NotesTypes
<1>3. writes \/ (~writes /\ Current.op = "delete")
  BY <1>2 DEF NoteOp
<1>4. /\ IsTail(tail') /\ overflowed' \in BOOLEAN
      /\ Stale' \subseteq Stale \ {f}
      /\ ~overflowed' => ~overflowed /\ Missing' \subseteq Missing \ {f}
  <2>1. CASE writes
    <3>1. tail' = AppendToTail(tail, f)
          /\ overflowed' = (overflowed \/ Len(Without(Entries(tail), f)) >= TAIL_K)
      BY <2>1 DEF ChangeTail
    <3> HIDE DEF f
    <3>2. /\ IsTail(tail') /\ tail' # NoTail /\ f \in ToSet(tail')
          /\ ToSet(tail') \subseteq (old \ {f}) \cup {f}
          /\ Len(Without(Entries(tail), f)) < TAIL_K => ToSet(tail') = (old \ {f}) \cup {f}
      BY <1>2, <3>1, AppendIs
    <3>3. new = ToSet(tail')
      BY <3>2, EntriesAre
    <3>4. ~overflowed' => ~overflowed /\ Len(Without(Entries(tail), f)) < TAIL_K
      <4>1. Len(Without(Entries(tail), f)) \in Nat /\ TAIL_K \in Nat
        BY <1>2, EntriesAre, WithoutLists, NoteAssumption
      <4>2. Len(Without(Entries(tail), f)) >= TAIL_K \/ Len(Without(Entries(tail), f)) < TAIL_K
        BY <4>1
      <4> QED BY <3>1, <4>2, Zenon
    <3>5. overflowed' \in BOOLEAN
      BY <3>1, Zenon
    <3> HIDE DEF old, new, writes
    <3>6. Stale' \subseteq Stale \ {f}
      BY <1>1, <1>2, <2>1, <3>2, <3>3 DEF Stale, old, new
    <3>7. ASSUME ~overflowed' PROVE Missing' \subseteq Missing \ {f}
      BY <1>1, <1>2, <2>1, <3>2, <3>3, <3>4, <3>7 DEF Missing, old, new
    <3> QED BY <3>2, <3>4, <3>5, <3>6, <3>7
  <2>2. CASE ~writes
    <3>1. tail' = RemoveFromTail(tail, f) /\ overflowed' = overflowed
      BY <2>2 DEF ChangeTail
    <3>2. IsTail(tail') /\ new = old \ {f}
      BY <1>2, <3>1, RemoveIs
    <3>3. f \notin notes
      BY <1>2, <2>2
    <3> HIDE DEF f
    <3>4. Stale' \subseteq Stale \ {f} /\ Missing' \subseteq Missing \ {f}
      BY <1>1, <3>2, <3>3 DEF Stale, Missing
    <3> QED BY <1>2, <3>1, <3>2, <3>4
  <2> QED BY <2>1, <2>2
<1>5. NotesTypes'
  <2>1. /\ batch' \in Seq(NoteOp) /\ done' \in Nat /\ pc' \in {"cycle", "object"}
        /\ pc' = "object" => done' < Len(batch')
    <3>1. batch \in Seq(NoteOp) /\ <<>> \in Seq(NoteOp)
      BY DEF NotesInv, NotesTypes
    <3>2. ~ends => done + 1 < Len(batch)
      <4>1. \A d \in Nat, l \in Nat : d < l /\ d + 1 # l => d + 1 < l
        OBVIOUS
      <4> QED BY <1>2, <4>1, Zenon
    <3>3. CASE ends
      BY <1>1, <3>1, <3>3
    <3>4. CASE ~ends
      <4>1. pc' = "object" /\ done' = done + 1 /\ batch' = batch
        BY <1>1, <3>4
      <4>2. done + 1 \in Nat
        BY <1>2
      <4>3. done' < Len(batch') /\ done' \in Nat
        BY <3>2, <3>4, <4>1, <4>2, Zenon
      <4> QED BY <3>1, <4>1, <4>3
    <3> QED BY <3>3, <3>4
  <2> QED BY <1>1, <1>4, <2>1 DEF NotesInv, NotesTypes
<1>6. ASSUME host = "durable" PROVE DurableInv'
  <2>1. Stale \subseteq ToDelete /\ ~lapsed
    BY <1>1, <1>6 DEF NotesInv, DurableInv
  <2>2. ASSUME NEW x \in ToDelete, x # f
        PROVE  ~ends /\ x \in ToDelete'
    <3>1. PICK n \in DOMAIN batch : n > done /\ batch[n].op = "delete" /\ batch[n].note = x
      BY DEF ToDelete, Deletes
    <3>2. n # done + 1
      BY <2>2, <3>1 DEF Current
    <3>3. n > done + 1 /\ n <= Len(batch) /\ n \in Nat
      BY <1>2, <3>1, <3>2
    <3>4. ~ends
      <4>1. \A d \in Nat, l \in Nat : n > d + 1 /\ n <= l => d + 1 # l
        BY <3>3
      <4> QED BY <1>2, <3>3, <4>1, Zenon
    <3>5. batch' = batch /\ done' = done + 1
      BY <1>1, <3>4
    <3>6. Deletes(n)'
      BY <3>1, <3>3, <3>5 DEF Deletes
    <3>7. x \in Note
      BY DEF ToDelete
    <3> QED BY <3>1, <3>4, <3>5, <3>6, <3>7 DEF ToDelete
  <2>3. pc' = "object" \/ (pc' = "cycle" /\ ends)
    BY <1>1
  <2> HIDE DEF f, ends
  <2>4. Stale' \subseteq (IF pc' \in {"object", "tail"} THEN ToDelete' ELSE {})
    BY <1>4, <2>1, <2>2, <2>3
  <2> QED BY <1>1, <2>1, <2>3, <2>4 DEF DurableInv
<1>7. ASSUME host = "inprocess" PROVE InProcessInv'
  <2>1. Changing = {f}
    BY <1>1 DEF Changing
  <2>2. pc' # "down" /\ pc # "down" /\ lapsed' = lapsed
    BY <1>1
  <2> HIDE DEF f, ends, old, new, writes
  <2> QED BY <1>4, <1>7, <2>1, <2>2 DEF NotesInv, InProcessInv
<1>8. pc' # "tail"
  BY <1>1
<1> QED BY <1>1, <1>5, <1>6, <1>7, <1>8 DEF NotesInv

LEMMA FailureKeeps ==
    ASSUME NotesInv, BatchFails PROVE NotesInv'
<1>1. /\ pc \in {"object", "tail"} /\ UNCHANGED <<host, notes>>
      /\ Retry \/ Die
  BY DEF BatchFails
<1>2. NotesTypes
  BY DEF NotesInv
<1>3. CASE Retry
  <2>1. /\ host = "durable" /\ pc' = "object" /\ done' = 0 /\ batch' = batch /\ lapsed' = lapsed
        /\ OpenFs
    BY <1>3 DEF Retry
  <2>2. IsTail(tail') /\ Stale' \subseteq Stale /\ overflowed' \in BOOLEAN
    BY <1>1, <1>2, <2>1, OpenKeeps
  <2>3. Len(batch) \in Nat /\ done \in Nat /\ done < Len(batch) /\ DOMAIN batch = 1 .. Len(batch)
    BY <1>1, <1>2 DEF NotesTypes
  <2>4. NotesTypes'
    BY <1>1, <1>2, <2>1, <2>2, <2>3 DEF NotesTypes
  <2>5. ToDelete \subseteq ToDelete'
    <3>1. \A n : Deletes(n) => Deletes(n)'
      BY <2>1, <2>3 DEF Deletes
    <3> QED BY <2>1, <3>1 DEF ToDelete
  <2> QED BY <1>1, <2>1, <2>2, <2>4, <2>5 DEF NotesInv, DurableInv
<1>4. CASE Die
  <2>1. /\ host = "inprocess" /\ pc' = "down" /\ lapsed' = (lapsed \/ pc = "tail")
        /\ batch' = <<>> /\ done' = 0 /\ tail' = tail /\ overflowed' = overflowed
    BY <1>4 DEF Die, KeepOpen
  <2>2. lapsed' \in BOOLEAN /\ (~lapsed' => ~lapsed /\ pc # "tail")
    BY <2>1, Zenon
  <2>3. <<>> \in Seq(NoteOp)
    OBVIOUS
  <2>4. NotesTypes'
    BY <1>1, <1>2, <2>1, <2>2, <2>3 DEF NotesTypes
  <2>5. Stale' = Stale
    BY <1>1, <2>1 DEF Stale
  <2> QED BY <1>1, <2>1, <2>2, <2>4, <2>5 DEF NotesInv, InProcessInv, Changing
<1> QED BY <1>1, <1>3, <1>4

LEMMA RestartKeeps ==
    ASSUME NotesInv, Restart PROVE NotesInv'
<1>1. /\ pc = "down" /\ pc' = "rest" /\ OpenFs
      /\ UNCHANGED <<host, notes, batch, done, lapsed>>
  BY DEF Restart, progress
<1>2. NotesTypes
  BY DEF NotesInv
<1>3. /\ IsTail(tail') /\ Stale' \subseteq Stale
      /\ overflowed' \in BOOLEAN /\ (~overflowed' => Missing' = {})
  BY <1>1, <1>2, OpenKeeps
<1>4. NotesTypes'
  BY <1>1, <1>2, <1>3 DEF NotesTypes
<1> QED BY <1>1, <1>3, <1>4 DEF NotesInv, DurableInv, InProcessInv, Changing

LEMMA NotesStep == NotesInv /\ [NotesNext]_notesVars => NotesInv'
<1> SUFFICES ASSUME NotesInv, [NotesNext]_notesVars PROVE NotesInv'
  OBVIOUS
<1>1. CASE BuildSeed
  BY <1>1, ActivityEnds DEF BuildSeed, progress
<1>2. CASE StartSteps \/ Idle
  BY <1>2, PauseKeeps DEF StartSteps, Idle, disk, progress
<1>3. ASSUME NEW ops \in Batch, StartBatch(ops) PROVE NotesInv'
  BY <1>3, StartKeeps
<1>4. ASSUME NEW ops \in Batch, RefuseBatch(ops) PROVE NotesInv'
  BY <1>4, ActivityEnds DEF RefuseBatch, progress
<1>5. CASE ChangeObject
  BY <1>5, ObjectKeeps
<1>6. CASE ChangeTail
  BY <1>6, TailKeeps
<1>7. CASE BatchFails
  BY <1>7, FailureKeeps
<1>8. CASE Restart
  BY <1>8, RestartKeeps
<1>9. CASE UNCHANGED notesVars
  <2>1. UNCHANGED <<host, pc, notes, tail, batch, done, overflowed, lapsed>>
    BY <1>9 DEF notesVars, disk, progress
  <2>2. Stale' = Stale /\ Missing' = Missing /\ Changing' = Changing /\ ToDelete' = ToDelete
        /\ Current' = Current
    BY <2>1 DEF Stale, Missing, Changing, ToDelete, Deletes, Current
  <2>3. NotesTypes'
    BY <2>1 DEF NotesInv, NotesTypes, IsTail
  <2> QED BY <2>1, <2>2, <2>3 DEF NotesInv, DurableInv, InProcessInv
<1> QED BY <1>1, <1>2, <1>3, <1>4, <1>5, <1>6, <1>7, <1>8, <1>9 DEF NotesNext

\* Reading the seed's index: the one step after which an index is there to be true.
LEMMA SeedIsTrue ==
    ASSUME NotesInv, BuildSeed PROVE SeedIndexIsTrue'
<1>1. /\ pc = "rest" /\ OpenPerActivity /\ index' = PinStatus(ReadWindow(tail'))
      /\ UNCHANGED <<host, notes, lapsed>>
  BY DEF BuildSeed
<1> DEFINE w == ReadWindow(tail')
           listed == index'.filenames
<1>2. IsFiniteSet(notes) /\ notes \subseteq Note /\ host \in {"durable", "inprocess"}
  BY DEF NotesInv, NotesTypes
<1>3. /\ IsTail(tail') /\ overflowed' \in BOOLEAN
      /\ ~lapsed => Stale' = {}
      /\ host = "inprocess" /\ ~lapsed /\ ~overflowed' => Missing' = {}
      /\ host = "durable" => Missing' = {} \/ (tail' # NoTail /\ Len(tail') = TAIL_K)
  BY <1>1, ActivityKeeps
<1>4. ASSUME host = "durable" \/ ~overflowed', ~lapsed PROVE IsTrue(w)
  <2>1. tail' # NoTail => /\ ToSet(tail') \subseteq notes
                          /\ ToSet(tail') = notes \/ Len(tail') = TAIL_K
    <3> SUFFICES ASSUME tail' # NoTail
                 PROVE  /\ ToSet(tail') \subseteq notes
                        /\ ToSet(tail') = notes \/ Len(tail') = TAIL_K
      OBVIOUS
    <3>1. Entries(tail') = tail'
      BY <1>3, EntriesAre
    <3> QED BY <1>1, <1>2, <1>3, <1>4, <3>1 DEF Stale, Missing
  <2> QED BY <1>2, <1>3, <2>1, WindowIs
<1>5. IsWindow(w)
  BY <1>2, <1>3, WindowIs
<1> HIDE DEF w
<1>6. /\ listed \in Seq(Nat) /\ IsInjective(listed)
      /\ STATUS \in notes => STATUS \in ToSet(listed)
      /\ IsTrue(w) => IsTrue(index')
  BY <1>1, <1>2, <1>5, PinIs DEF w
<1>7. ASSUME STATUS \in notes
      PROVE  Cardinality({i \in DOMAIN listed : listed[i] = STATUS}) = 1
  <2>1. PICK i \in DOMAIN listed : listed[i] = STATUS
    BY <1>6, <1>7 DEF ToSet
  <2>2. {j \in DOMAIN listed : listed[j] = STATUS} = {i}
    <3> HIDE DEF listed
    <3> QED BY <1>6, <2>1 DEF IsInjective
  <2> QED BY <2>2, FS_Singleton
<1> QED BY <1>1, <1>4, <1>6, <1>7 DEF SeedIndexIsTrue, IsTrue

\* Under both hosts, whatever the batches, the failed attempts and the crashes between a
\* note and its entry, the seed names notes that exist, each once, and counts those it
\* leaves out (recent_window, build_seed), but for the two cases SeedIndexIsTrue names.
THEOREM SeedIndexHolds == NotesSpec => []SeedIndexIsTrue
<1> DEFINE Inv == NotesInv /\ SeedIndexIsTrue
<1>1. NotesInit => Inv
  BY NotesStart DEF NotesInit, SeedIndexIsTrue
<1>2. Inv /\ [NotesNext]_notesVars => Inv'
  <2> SUFFICES ASSUME Inv, [NotesNext]_notesVars PROVE SeedIndexIsTrue'
    BY NotesStep
  <2>1. CASE BuildSeed
    BY <2>1, SeedIsTrue
  <2>2. CASE UNCHANGED notesVars
    BY <2>2 DEF notesVars, disk, SeedIndexIsTrue
  <2>3. ASSUME pc' # "seeded" PROVE SeedIndexIsTrue'
    BY <2>3 DEF SeedIndexIsTrue
  <2>4. ASSUME NotesNext, ~BuildSeed PROVE pc' # "seeded"
    BY <2>4 DEF NotesNext, StartSteps, Idle, StartBatch, RefuseBatch, ChangeObject, ChangeTail,
                BatchFails, Retry, Die, Restart
  <2> QED BY <2>1, <2>2, <2>3, <2>4
<1>3. Inv => SeedIndexIsTrue
  OBVIOUS
<1> QED BY <1>1, <1>2, <1>3, PTL DEF NotesSpec
=============================================================================
