----------------------------- MODULE AgentFiles -----------------------------
(***************************************************************************)
(* The file system of one agent as its decisions use it: the steps of a    *)
(* cycle that write notes, read, list, search, record evidence and         *)
(* conflicts and write the output (coral_temporal/src/activities.rs,       *)
(* coral_node/src/agent_core.rs, coral_node/src/fs.rs) over the            *)
(* directories of LocalStorage.  A step is an activity: it answers with an *)
(* observation, or fails and is attempted again from its start, without a  *)
(* limit.  An agent has one writer; LocalStorage's own module is about the *)
(* calls beneath, RecentNotes about what the sidecars say.                 *)
(***************************************************************************)
EXTENDS AgentPaths, FiniteSets

CONSTANTS
    Rewrites,   \* the batches of rewrite_fs the model may ask for
    Place,      \* the raw paths it may read, list and search
    Citations,  \* the lists of raw paths it may cite
    MaxSteps,   \* Bound: steps of the model
    MaxFaults   \* Bound: attempts that die

\* A request is a list, and what it names is a path.
ASSUME PathAssumption ==
    /\ \A ops \in Rewrites : /\ ops \in Seq(Range(ops))
                             /\ \A i \in DOMAIN ops : ops[i].path \in Seq(STRING)
    /\ Citations \subseteq Seq(Seq(STRING))

VARIABLES
    files,      \* the files: path -> who wrote it, and what
    dirs,       \* the directories: they outlive what is in them
    step,       \* the step in progress
    observed,   \* what the last step answered
    steps, faults,
    cited,      \* history: the records the output on disk cites, as they were
    before      \* history: files when the step began, its log entry written

vars == <<files, dirs, step, observed, steps, faults, cited, before>>

NoStep == [act |-> "none"]
Nothing == [kind |-> "none"]

Init ==
    /\ files = <<>> /\ dirs = {<<>>}
    /\ step = NoStep /\ observed = Nothing /\ steps = 0 /\ faults = 0
    /\ cited = {} /\ before = <<>>

-----------------------------------------------------------------------------
(* The storage.                                                            *)

Present == DOMAIN files
File(by, v) == [by |-> by, value |-> v]

GetFails(p) == Blocked(Present, p) \/ p \in dirs
PutFails(p) == GetFails(p)
DeleteFails(p) == GetFails(p)
ListFails(dir) == dir \in Present

\* A directory of the files of two; the first holds where both have a path.
Single(p, f) == [q \in {p} |-> f]
Over(f, g) == [q \in DOMAIN f \cup DOMAIN g |-> IF q \in DOMAIN f THEN f[q] ELSE g[q]]

Put(p, f) == /\ files' = Over(Single(p, f), files)
             /\ dirs' = dirs \cup Above(p)
Delete(p) == files' = [q \in Present \ {p} |-> files[q]] /\ UNCHANGED dirs

\* Several keys at once; the first write of a record is the one that stays.
PutAll(new) == /\ files' = Over(new, files)
               /\ dirs' = dirs \cup UNION {Above(p) : p \in DOMAIN new}
PutIfAbsent(p, f) == [q \in {p} \ Present |-> f]

-----------------------------------------------------------------------------
(* Steps.                                                                  *)

At(act) == step.act = act

\* The step ends, and its observation goes into the session.
Observe(o) == step' = NoStep /\ observed' = o
Correction == [kind |-> "correction"]
Ok == [kind |-> "ok"]

\* A storage error: the attempt fails and the step is attempted again.
StorageError == step' = [step EXCEPT !.done = 0, !.errors = TRUE] /\ UNCHANGED observed

Start(act, arg) ==
    /\ step = NoStep /\ steps < MaxSteps /\ steps' = steps + 1
    /\ step' = [act |-> act, arg |-> arg, done |-> 0, errors |-> FALSE]
    /\ observed' = Nothing
    /\ UNCHANGED <<faults, cited>>

\* The seed of the first cycle opens the file system, and the step's entry in
\* the decision log is written before the step runs.
LogName(n) == <<"decisions", ToString(n)>>
OpenAndLog ==
    PutAll(Over(PutIfAbsent(Mandate, File("runtime", "mandate")),
                Single(LogName(steps), File("runtime", "log"))))

Decide ==
    /\ \/ \E b \in Rewrites : Start("rewrite", b)
       \/ \E r \in Place : \E act \in {"read", "list", "search"} : Start(act, r)
       \/ \E c \in Citations : Start("output", c)
       \/ \E s \in Seed, e \in Content : Start("tool", <<s, e>>)
       \/ \E e \in Content : Start("conflict", e)
    /\ OpenAndLog /\ before' = files'

-----------------------------------------------------------------------------
(* rewrite_fs.                                                             *)

NotesKey(raw) == KeyPath(Cleaned(raw))
Valid(ops) == \A i \in DOMAIN ops : Writable(ops[i].path)

\* Fault: a path is checked when its turn comes.
RefusedInTurn(ops, done) == done < Len(ops) /\ ~Writable(ops[done + 1].path)

\* A batch is refused for any path in it, before the first op.
Refused(ops, done) == ~Valid(ops)

Refuse ==
    /\ At("rewrite") /\ Refused(step.arg, step.done)
    /\ Observe(Correction)
    /\ UNCHANGED <<files, dirs, steps, faults, cited, before>>

OpFails(op, key) == IF op.op = "write" THEN PutFails(key) ELSE DeleteFails(key)

\* The next op, with the sidecar.
ApplyOp ==
    /\ At("rewrite") /\ ~Refused(step.arg, step.done) /\ step.done < Len(step.arg)
    /\ LET op == step.arg[step.done + 1]
           key == NotesKey(op.path)
       IN  \/ /\ OpFails(op, key)
              /\ StorageError
              /\ UNCHANGED <<files, dirs>>
           \/ /\ ~OpFails(op, key)
              /\ step' = [step EXCEPT !.done = @ + 1] /\ UNCHANGED observed
              /\ IF op.op = "write"
                 THEN PutAll(Over(Single(key, File("model", op.value)),
                                  Single(NotesTail, File("runtime", "tail"))))
                 ELSE Delete(key)
    /\ UNCHANGED <<steps, faults, cited, before>>

BatchDone ==
    /\ At("rewrite") /\ ~Refused(step.arg, step.done) /\ step.done = Len(step.arg)
    /\ Observe(Ok)
    /\ UNCHANGED <<files, dirs, steps, faults, cited, before>>

-----------------------------------------------------------------------------
(* read, list, search: read_fs attaches, and writes nothing.               *)

Answer(o) == Observe(o) /\ UNCHANGED <<files, dirs, steps, faults, cited, before>>
Fails == StorageError /\ UNCHANGED <<files, dirs, steps, faults, cited, before>>

ReadFile ==
    /\ At("read")
    /\ LET key == KeyPath(Cleaned(step.arg)) IN
       IF ~Readable(step.arg) THEN Answer(Correction)
       ELSE IF GetFails(key) THEN Fails
       ELSE IF key \notin Present THEN Answer(Correction)
       ELSE Answer([kind |-> "file", path |-> key])

ListStep ==
    /\ At("list")
    /\ LET dir == KeyPath(Cleaned(step.arg)) IN
       IF ~Readable(step.arg) THEN Answer(Correction)
       ELSE IF ListFails(dir) THEN Fails
       ELSE Answer([kind |-> "listing", path |-> dir, entries |-> ListDir(Present, dir)])

SearchStep ==
    /\ At("search")
    /\ LET dir == KeyPath(Cleaned(step.arg)) IN
       IF ~Readable(step.arg) THEN Answer(Correction)
       ELSE IF ListFails(dir) THEN Fails
       ELSE Answer([kind |-> "hits", path |-> dir, found |-> Searched(Present, dir)])

-----------------------------------------------------------------------------
(* What the runtime writes on the model's behalf.                          *)

\* execute_tool and reconcile_children: the record, and its path to cite.  The
\* first writer of a path is kept.
RecordEvidence ==
    /\ At("tool")
    /\ LET key == EvidenceRelpath(step.arg[1], step.arg[2]) IN
       /\ PutAll(Over(PutIfAbsent(key, File("runtime", step.arg[2])),
                   Single(EvidenceTail, File("runtime", "tail"))))
       /\ Observe([kind |-> "evidence", path |-> key])
    /\ UNCHANGED <<steps, faults, cited, before>>

WriteConflict ==
    /\ At("conflict")
    /\ PutAll(PutIfAbsent(ConflictKey(step.arg), File("runtime", step.arg)))
    /\ Observe(Ok)
    /\ UNCHANGED <<steps, faults, cited, before>>

CitedKey(raw) == KeyPath(Cleaned(raw))

\* The citations that persist_output cannot resolve, each for what goes wrong.
Unfit(cs) == {i \in DOMAIN cs : ~Citable(cs[i])}
Unreadable(cs) == {i \in DOMAIN cs \ Unfit(cs) : GetFails(CitedKey(cs[i]))}
Unresolved(cs) == {i \in DOMAIN cs \ Unfit(cs) : CitedKey(cs[i]) \notin Present}
BadCitations(cs) == Unfit(cs) \cup Unreadable(cs) \cup Unresolved(cs)

\* persist_output: every citation names a record that is there, then the body.
WriteOutput ==
    /\ At("output") /\ step.arg # <<>> /\ BadCitations(step.arg) = {}
    /\ Put(CanonicalOutput, File("runtime", "body"))
    /\ cited' = {[path |-> CitedKey(c), file |-> files[CitedKey(c)]] : c \in Range(step.arg)}
    /\ Observe(Ok)
    /\ UNCHANGED <<steps, faults, before>>

\* persist_outcome: the first bad citation decides.
RejectOutput ==
    /\ At("output")
    /\ \/ step.arg = <<>> /\ Observe(Correction)
       \/ \E i \in BadCitations(step.arg) :
             /\ \A j \in BadCitations(step.arg) : i <= j
             /\ IF i \in Unreadable(step.arg) THEN StorageError ELSE Observe(Correction)
    /\ UNCHANGED <<files, dirs, steps, faults, cited, before>>

\* Failure: an attempt dies where it is, and the next one starts over.
AttemptDies ==
    /\ step # NoStep /\ faults < MaxFaults /\ faults' = faults + 1
    /\ step' = [step EXCEPT !.done = 0]
    /\ UNCHANGED <<files, dirs, observed, steps, cited, before>>

\* The agent is retired: the marker is the last thing it writes.
Retire ==
    /\ step = NoStep /\ Retirement \notin Present
    /\ PutAll(Single(Retirement, File("runtime", "retired")))
    /\ steps' = MaxSteps /\ observed' = Nothing
    /\ UNCHANGED <<step, faults, cited, before>>

Next ==
    \/ Decide
    \/ Refuse \/ ApplyOp \/ BatchDone
    \/ ReadFile \/ ListStep \/ SearchStep
    \/ RecordEvidence \/ WriteConflict
    \/ WriteOutput \/ RejectOutput
    \/ AttemptDies \/ Retire

Spec == Init /\ [][Next]_vars

-----------------------------------------------------------------------------
(* Properties.                                                             *)

\* notes/ is the model's sole writable surface, without its sidecars: whatever
\* path it gives, what it wrote is a note (fs.rs 643-647).
AuthorshipBoundary ==
    \A p \in Present : files[p].by = "model" => p[1] = "notes" /\ Last(p) # TailName

\* The output cites, and what it cites is on disk as it was: no later step of
\* the model or the runtime takes or changes it.
CitationsHold ==
    /\ CanonicalOutput \in Present => cited # {}
    /\ \A c \in cited : c.path \in Present /\ files[c.path] = c.file

\* A batch that is refused changed nothing, through whatever attempts.
RefusedLeavesNothing == observed = Correction => files = before

\* "Model mistakes fold into an in-cycle correction the model adapts to; only a
\* storage fault propagates" (agent_core.rs 240-243): no attempt fails for a
\* path that the model gave.
MistakesAreFolded == step # NoStep => ~step.errors
=============================================================================
