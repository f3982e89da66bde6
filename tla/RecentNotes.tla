---------------------------- MODULE RecentNotes ----------------------------
(***************************************************************************)
(* The notes directory of one agent and its recency sidecar                *)
(* (crates/coral_node/src/fs.rs), the batches of rewrite_fs that change    *)
(* them, and the seed's index of notes that is read from them              *)
(* (agent_core.rs), under both hosts:                                      *)
(*                                                                         *)
(* - durable: every activity opens the file system anew, which reconciles  *)
(*   the sidecar, and an activity that fails is attempted again from its   *)
(*   start (coral_temporal/src/activities.rs);                             *)
(* - in-process: the file system is opened when the process starts, and a  *)
(*   failed batch ends the process; the next one does not know of it.      *)
(*                                                                         *)
(* A note is its rank in the order LIST sorts names by.  An agent has one  *)
(* writer, so nothing comes between the GET and the PUT of a sidecar, and  *)
(* they are one step.                                                      *)
(***************************************************************************)
EXTENDS Integers, Sequences, SequencesExt, FiniteSetsExt

CONSTANTS
    Note,       \* names under notes/, as ranks
    STATUS,     \* STATUS_NOTE, one of them
    Outside,    \* a path that is not a note's
    Host,       \* the hosts to start under: "durable", "inprocess"
    TAIL_K,     \* cap on the sidecar
    Shown,      \* SEED_INDEX_NOTES, less than TAIL_K
    NoTail,     \* there is no sidecar
    MaxOps,     \* bound on the operations of one batch
    MaxFailures \* bound on the failed batches

ASSUME NoteAssumption ==
    /\ Note \subseteq Nat /\ STATUS \in Note /\ Host \subseteq {"durable", "inprocess"}
    /\ TAIL_K \in Nat \ {0} /\ Shown \in Nat \ {0} /\ NoTail \notin Seq(Nat)

FsOp == [op : {"write", "delete"}, note : Note \cup {Outside}]
Batch == UNION {[1 .. n -> FsOp] : n \in 0 .. MaxOps}
Remainder == [exact : BOOLEAN, count : Nat]

VARIABLES
    host,
    pc,         \* "rest", "seeded", "cycle", "object", "tail", or "down"
    notes,      \* the notes on disk
    tail,       \* notes/_tail.json, newest first
    batch,      \* ops of the batch under way
    done,       \* how many of them this attempt has finished
    index,      \* notes of the cycle's FsIndex, while pc = "seeded"
    failures,
    \* history
    overflowed, \* since the last open, the sidecar could not hold every note
    lapsed      \* a process died between a note and its entry

disk == <<notes, tail>>
progress == <<batch, done>>
notesVars == <<host, pc, disk, progress, index, failures, overflowed, lapsed>>

NoIndex == [filenames |-> <<>>, more |-> [exact |-> TRUE, count |-> 0]]

NotesInit ==
    /\ host \in Host /\ pc = "rest" /\ notes = {} /\ tail = NoTail
    /\ batch = <<>> /\ done = 0 /\ index = NoIndex /\ failures = 0
    /\ overflowed = FALSE /\ lapsed = FALSE

-----------------------------------------------------------------------------
(* The sidecar.                                                            *)

\* serde's unwrap_or_default reads an absent sidecar as an empty one.
Entries(t) == IF t = NoTail THEN <<>> ELSE t
Truncated(s) == SubSeq(s, 1, IF Len(s) < TAIL_K THEN Len(s) ELSE TAIL_K)

\* The members of a set, the least first.
Ascending(S) ==
    [r \in 1 .. Cardinality(S) |-> CHOOSE x \in S : Cardinality({y \in S : y < x}) = r - 1]

Without(s, f) ==
    LET kept == Ascending({i \in DOMAIN s : s[i] # f})
    IN  [r \in DOMAIN kept |-> s[kept[r]]]

AppendToTail(t, f) == Truncated(<<f>> \o Without(Entries(t), f))

RemoveFromTail(t, f) == IF t = NoTail THEN NoTail ELSE Without(t, f)

\* A sidecar that misses a file is rebuilt from the greatest names.
TailLags == notes # {} /\ ~ notes \subseteq ToSet(Entries(tail))
ReconcileTail ==
    IF TailLags THEN Truncated(Reverse(Ascending(notes))) ELSE tail

\* new_with_storage, as far as notes are concerned.
OpenFs ==
    /\ tail' = ReconcileTail
    /\ overflowed' = (Cardinality(notes) > TAIL_K)

KeepOpen == UNCHANGED <<tail, overflowed>>

\* What an activity does first, and the loop of a process never.
\* Fault: activities attach, and reconcile nothing.
AttachPerActivity == KeepOpen
OpenPerActivity == IF host = "durable" THEN OpenFs ELSE KeepOpen

-----------------------------------------------------------------------------
(* The seed.                                                               *)

ReadWindow(t) ==
    IF t = NoTail
    THEN LET all == Ascending(notes)
             start == IF Len(all) > Shown THEN Len(all) - Shown ELSE 0
         IN [filenames |-> SubSeq(all, start + 1, Len(all)),
             more |-> [exact |-> TRUE, count |-> start]]
    ELSE LET take == IF Len(t) < Shown THEN Len(t) ELSE Shown
         IN [filenames |-> SubSeq(t, 1, take),
             more |-> [exact |-> Len(t) # TAIL_K, count |-> Len(t) - take]]

Decremented(r) == [r EXCEPT !.count = IF @ = 0 THEN 0 ELSE @ - 1]

PinStatus(w) ==
    IF STATUS \in notes /\ STATUS \notin ToSet(w.filenames)
    THEN [filenames |-> <<STATUS>> \o w.filenames, more |-> Decremented(w.more)]
    ELSE w

\* agent_core::build_seed, and the activity around it.
BuildSeed ==
    /\ pc = "rest" /\ pc' = "seeded"
    /\ OpenPerActivity
    /\ index' = PinStatus(ReadWindow(tail'))
    /\ UNCHANGED <<host, notes, progress, failures, lapsed>>

\* The model reads its seed and takes the cycle's first step.
StartSteps ==
    /\ pc = "seeded" /\ pc' = "cycle" /\ index' = NoIndex
    /\ UNCHANGED <<host, disk, progress, failures, overflowed, lapsed>>

Idle ==
    /\ pc = "cycle" /\ pc' = "rest"
    /\ UNCHANGED <<host, disk, progress, index, failures, overflowed, lapsed>>

-----------------------------------------------------------------------------
(* rewrite_fs.                                                             *)

ValidBatch(ops) == \A i \in DOMAIN ops : ops[i].note \in Note

\* A batch with a path that is no note's is refused before its first write.  Like
\* an empty one, and like the cycle's other activities, it opens the file system.
RefuseBatch(ops) ==
    /\ pc = "cycle" /\ (ops = <<>> \/ ~ValidBatch(ops)) /\ OpenPerActivity
    /\ UNCHANGED <<host, pc, notes, progress, index, failures, lapsed>>

StartBatch(ops) ==
    /\ pc = "cycle" /\ ValidBatch(ops) /\ ops # <<>> /\ OpenPerActivity
    /\ pc' = "object" /\ batch' = ops /\ done' = 0
    /\ UNCHANGED <<host, notes, index, failures, lapsed>>

Current == batch[done + 1]

\* put or delete of the note itself.
ChangeObject ==
    /\ pc = "object" /\ pc' = "tail"
    /\ notes' = IF Current.op = "write" THEN notes \cup {Current.note} ELSE notes \ {Current.note}
    /\ UNCHANGED <<host, tail, progress, index, failures, overflowed, lapsed>>

\* append_to_tail or remove_from_tail, and the end of the batch after the last.
ChangeTail ==
    /\ pc = "tail"
    /\ IF Current.op = "write"
       THEN /\ tail' = AppendToTail(tail, Current.note)
            /\ overflowed' = (overflowed \/ Len(Without(Entries(tail), Current.note)) >= TAIL_K)
       ELSE /\ tail' = RemoveFromTail(tail, Current.note)
            /\ UNCHANGED overflowed
    /\ IF done + 1 = Len(batch)
       THEN pc' = "cycle" /\ batch' = <<>> /\ done' = 0
       ELSE pc' = "object" /\ done' = done + 1 /\ UNCHANGED batch
    /\ UNCHANGED <<host, notes, index, failures, lapsed>>

\* Temporal runs the activity again, from its start.
Retry ==
    /\ host = "durable" /\ pc' = "object" /\ done' = 0 /\ OpenFs
    /\ UNCHANGED <<batch, lapsed>>

\* `?` returns from Agent::run.
Die ==
    /\ host = "inprocess" /\ pc' = "down" /\ lapsed' = (lapsed \/ pc = "tail")
    /\ batch' = <<>> /\ done' = 0
    /\ KeepOpen

BatchFails ==
    /\ pc \in {"object", "tail"} /\ failures < MaxFailures /\ failures' = failures + 1
    /\ Retry \/ Die
    /\ UNCHANGED <<host, notes, index>>

\* A new process opens the file system.
Restart ==
    /\ pc = "down" /\ pc' = "rest" /\ OpenFs
    /\ UNCHANGED <<host, notes, progress, index, failures, lapsed>>

NotesNext ==
    \/ BuildSeed \/ StartSteps \/ Idle
    \/ \E ops \in Batch : StartBatch(ops) \/ RefuseBatch(ops)
    \/ ChangeObject \/ ChangeTail
    \/ BatchFails \/ Restart

NotesSpec == NotesInit /\ [][NotesNext]_notesVars

-----------------------------------------------------------------------------
(* Properties.                                                             *)

\* The seed names notes that exist, each once, and says how many there are
\* beyond: exactly, or at least so many (recent_window).  Two things undo it, in
\* a process that does not open the file system again: a sidecar that could not
\* hold every note and has lost an entry to a delete, and a death of the process
\* before it between a note and its entry.  The standing status note is listed
\* once in spite of those, whenever there is one (agent_core.rs 162-172).
SeedIndexIsTrue ==
    LET named == ToSet(index.filenames)
        beyond == Cardinality(notes \ named)
    IN pc = "seeded" =>
        /\ STATUS \in notes =>
              Cardinality({i \in DOMAIN index.filenames : index.filenames[i] = STATUS}) = 1
        /\ (host = "durable" \/ ~overflowed) /\ ~lapsed =>
              /\ IsInjective(index.filenames) /\ named \subseteq notes
              /\ IF index.more.exact THEN index.more.count = beyond
                                     ELSE index.more.count <= beyond
=============================================================================
