------------------------- MODULE OutputPropagation -------------------------
(***************************************************************************)
(* How a child's Output reaches its parent: the activities persist_output  *)
(* and reconcile_children of crates/coral_temporal/src/activities.rs over  *)
(* the agents' files (output.md, evidence/) and the structural DB          *)
(* (file_index, citations), with the ChildOutput signal of workflow.rs.    *)
(*                                                                         *)
(* An activity is a sequence of writes to two stores with no transaction   *)
(* around them.  Temporal runs an attempt of it, and another one when the  *)
(* attempt failed, was lost or timed out; a timed-out attempt may still be *)
(* running.  A body stands for its blob sha and its OutputId as well.      *)
(* Evidence of an agent's own tool calls, its edges and the wording of     *)
(* records are left out.                                                   *)
(***************************************************************************)
EXTENDS Naturals, FiniteSets

CONSTANTS
    Parent,         \* the parent agent
    Child,          \* its children
    Body,           \* the bodies an Output may have
    None,           \* no Output yet
    MaxWrites,      \* bound on the Outputs an agent writes
    MaxFolds,       \* bound on the reconciliations
    MaxFaults       \* bound on failed attempts

ASSUME AgentAssumption == Parent \notin Child /\ IsFiniteSet(Child)
ASSUME BodyAssumption == None \notin Body
ASSUME BoundAssumption ==
    /\ MaxWrites \in Nat /\ MaxFolds \in Nat /\ MaxFaults \in Nat

Agent == Child \cup {Parent}

\* A `reconcile` evidence record pins the body that was read.
Record == [child : Child, read : Body]

\* A cross-agent row of `citations`: the parent's Output at one version cites a
\* child's Output at one version.
Citation == [citing : Body, child : Child, cited : Body]

Slot == {"current", "late"}
Stage == {"none", "put", "index", "cite", "read", "record", "done", "failed"}

VARIABLES
    \* the two stores
    output,     \* outputs/output.md of every agent
    index,      \* its file_index row
    evidence,   \* the reconcile records under the parent's evidence/
    citations,  \* the cross-agent rows of `citations`
    \* the workflows
    job,        \* the activity, or the signal, an agent's run waits for
    attempt,    \* the attempts at it
    told,       \* the Output the parent was last told of by each child
    \* bounds and history
    writes, folds, faults,
    held,       \* the bodies output.md has held
    missed,     \* children whose last ChildOutput did not arrive
    outlived    \* agents with an attempt that went on after its activity ended

stores == <<output, index, evidence, citations>>
elsewhere == <<job, told, writes, folds, faults, missed, outlived>>
vars == <<stores, elsewhere, attempt, held>>

NoAttempt ==
    [at |-> "none", body |-> None, cites |-> {}, unread |-> {}, records |-> {},
     conflict |-> "none"]

Init ==
    /\ output = [a \in Agent |-> None] /\ index = [a \in Agent |-> None]
    /\ evidence = {} /\ citations = {}
    /\ job = [a \in Agent |-> NoAttempt]
    /\ attempt = [k \in Agent \X Slot |-> NoAttempt]
    /\ told = [c \in Child |-> None]
    /\ writes = [a \in Agent |-> 0] /\ folds = 0 /\ faults = 0
    /\ held = [a \in Agent |-> {}] /\ missed = {}
    /\ outlived = {}

Waits(a) == job[a] # NoAttempt

\* The run schedules an activity: `first` is what every attempt at it starts from.
Schedule(a, first) ==
    /\ ~Waits(a)
    /\ job' = [job EXCEPT ![a] = first]
    /\ attempt' = [attempt EXCEPT ![<<a, "current">>] = first]

-----------------------------------------------------------------------------
(* persist_output.                                                         *)

\* "FS first", "DB second".
PersistStages == <<"put", "index", "cite">>

FirstStage == PersistStages[1]

After(stage) == PersistStages[1 + CHOOSE i \in 1 .. 2 : PersistStages[i] = stage]

\* write_output with the evidence the model cites.  A parent may also cite none
\* of its reconcile records, and a child has none.
WriteOutput(a, b, cites) ==
    /\ writes[a] < MaxWrites
    /\ writes' = [writes EXCEPT ![a] = @ + 1]
    /\ Schedule(a, [NoAttempt EXCEPT !.at = FirstStage, !.body = b, !.cites = cites])
    /\ UNCHANGED <<stores, told, folds, faults, held, missed, outlived>>

\* Fault: the body is written as evidence is, by put_if_absent.
PutBodyIfAbsent(k) ==
    /\ attempt[k].at = "put"
    /\ output' = [output EXCEPT ![k[1]] = IF @ = None THEN attempt[k].body ELSE @]
    /\ held' = [held EXCEPT ![k[1]] = @ \cup {output'[k[1]]}]
    /\ attempt' = [attempt EXCEPT ![k].at = After("put")]
    /\ UNCHANGED <<index, evidence, citations, elsewhere>>

\* AgentFs::persist_output overwrites the file.
PutBody(k) ==
    /\ attempt[k].at = "put"
    /\ output' = [output EXCEPT ![k[1]] = attempt[k].body]
    /\ held' = [held EXCEPT ![k[1]] = @ \cup {attempt[k].body}]
    /\ attempt' = [attempt EXCEPT ![k].at = After("put")]
    /\ UNCHANGED <<index, evidence, citations, elsewhere>>

\* Fault: ON CONFLICT DO NOTHING, as for a citation.
SetFileVersionOnce(k) ==
    /\ attempt[k].at = "index"
    /\ index' = [index EXCEPT ![k[1]] = IF @ = None THEN attempt[k].body ELSE @]
    /\ attempt' = [attempt EXCEPT ![k].at = After("index")]
    /\ UNCHANGED <<output, evidence, citations, elsewhere, held>>

\* set_file_version: an upsert.
SetFileVersion(k) ==
    /\ attempt[k].at = "index"
    /\ index' = [index EXCEPT ![k[1]] = attempt[k].body]
    /\ attempt' = [attempt EXCEPT ![k].at = After("index")]
    /\ UNCHANGED <<output, evidence, citations, elsewhere, held>>

\* Fault: the pin is the child's version now.
PinCurrentFile(e) == output[e.child]

\* resolve_cited: the pin is the one captured when the child was read.
Pin(e) == e.read

\* resolve_cited and add_citation of one cited record.
AddCitation(k, e) ==
    /\ attempt[k].at = "cite" /\ e \in attempt[k].cites
    /\ citations' = citations \cup
           {[citing |-> attempt[k].body, child |-> e.child, cited |-> Pin(e)]}
    /\ attempt' = [attempt EXCEPT ![k].cites = @ \ {e}]
    /\ UNCHANGED <<output, index, evidence, elsewhere, held>>

PersistDone(k) ==
    /\ attempt[k].at = "cite" /\ attempt[k].cites = {}
    /\ attempt' = [attempt EXCEPT ![k].at = "done"]
    /\ UNCHANGED <<stores, elsewhere, held>>

-----------------------------------------------------------------------------
(* reconcile_children.                                                     *)

\* ReconcileChildren names sources and may carry a conflict, which has too few
\* alternatives when it is "short".
Reconcile(sources, conflict) ==
    /\ folds < MaxFolds
    /\ folds' = folds + 1
    /\ Schedule(Parent, [NoAttempt EXCEPT !.at = "read", !.unread = sources,
                                          !.conflict = conflict])
    /\ UNCHANGED <<stores, told, writes, faults, held, missed, outlived>>

\* Phase 1 reads every child's current body; a child without one is an error that
\* is not retried.
ReadChild(k, c) ==
    /\ attempt[k].at = "read" /\ c \in attempt[k].unread
    /\ attempt' =
          IF output[c] = None
          THEN [attempt EXCEPT ![k].at = "failed"]
          ELSE [attempt EXCEPT ![k].unread = @ \ {c},
                               ![k].records = @ \cup {[child |-> c, read |-> output[c]]}]
    /\ UNCHANGED <<stores, elsewhere, held>>

ReadDone(k) ==
    /\ attempt[k].at = "read" /\ attempt[k].unread = {}
    /\ attempt' = [attempt EXCEPT ![k].at = "record"]
    /\ UNCHANGED <<stores, elsewhere, held>>

\* Phase 2 records what was read, by put_if_absent.
RecordEvidence(k, e) ==
    /\ attempt[k].at = "record" /\ e \in attempt[k].records
    /\ evidence' = evidence \cup {e}
    /\ attempt' = [attempt EXCEPT ![k].records = @ \ {e}]
    /\ UNCHANGED <<output, index, citations, elsewhere, held>>

\* The conflict's alternatives are counted after the evidence is written.
CheckConflict(k) ==
    /\ attempt[k].at = "record" /\ attempt[k].records = {}
    /\ attempt' = [attempt EXCEPT ![k].at =
                       IF attempt[k].conflict = "short" THEN "failed" ELSE "done"]
    /\ UNCHANGED <<stores, elsewhere, held>>

-----------------------------------------------------------------------------
(* Temporal and the runs.                                                  *)

Ended(k) == attempt[k].at \in {"done", "failed"}
Running(k) == attempt[k].at # "none" /\ ~Ended(k)

\* An attempt fails with a retryable error, is lost with its worker, or times out;
\* in the last case it may still be running while the next one starts.
AttemptFails(a) ==
    /\ Running(<<a, "current">>) /\ faults < MaxFaults
    /\ faults' = faults + 1
    /\ \/ attempt' = [attempt EXCEPT ![<<a, "current">>] = job[a]]
       \/ /\ ~Running(<<a, "late">>)
          /\ attempt' = [attempt EXCEPT ![<<a, "late">>] = attempt[<<a, "current">>],
                                        ![<<a, "current">>] = job[a]]
    /\ UNCHANGED <<stores, job, told, writes, folds, held, missed, outlived>>

Release(a) ==
    /\ job' = [job EXCEPT ![a] = NoAttempt]
    /\ attempt' = [attempt EXCEPT ![<<a, "current">>] = NoAttempt]
    /\ outlived' = IF Running(<<a, "late">>) THEN outlived \cup {a} ELSE outlived

\* The parent's run takes the result of its activity, success or not.
ParentResumes ==
    /\ Ended(<<Parent, "current">>)
    /\ Release(Parent)
    /\ UNCHANGED <<stores, told, writes, folds, faults, held, missed>>

\* The child's run signals the parent the Output it persisted, best effort.
SignalParent(c) ==
    /\ Ended(<<c, "current">>)
    /\ Release(c)
    /\ \/ told' = [told EXCEPT ![c] = job[c].body] /\ missed' = missed \ {c}
       \/ missed' = missed \cup {c} /\ UNCHANGED told
    /\ UNCHANGED <<stores, writes, folds, faults, held>>

ActivityStep(k) ==
    \/ PutBody(k)
    \/ SetFileVersion(k)
    \/ \E e \in Record : AddCitation(k, e)
    \/ PersistDone(k)
    \/ \E c \in Child : ReadChild(k, c)
    \/ ReadDone(k)
    \/ \E e \in Record : RecordEvidence(k, e)
    \/ CheckConflict(k)

Next ==
    \/ \E c \in Child, b \in Body : WriteOutput(c, b, {})
    \/ \E b \in Body : \E cites \in SUBSET evidence : WriteOutput(Parent, b, cites)
    \/ \E sources \in (SUBSET Child) \ {{}}, conflict \in {"none", "ok", "short"} :
           Reconcile(sources, conflict)
    \/ \E k \in Agent \X Slot : ActivityStep(k)
    \/ \E a \in Agent : AttemptFails(a)
    \/ ParentResumes
    \/ \E c \in Child : SignalParent(c)

Spec == Init /\ [][Next]_vars

-----------------------------------------------------------------------------
(* Properties.                                                             *)

\* What every variable ranges over.
Attempts ==
    [at : Stage, body : Body \cup {None}, cites : SUBSET Record, unread : SUBSET Child,
     records : SUBSET Record, conflict : {"none", "ok", "short"}]
TypeOK ==
    /\ output \in [Agent -> Body \cup {None}] /\ index \in [Agent -> Body \cup {None}]
    /\ evidence \subseteq Record /\ citations \subseteq Citation
    /\ job \in [Agent -> Attempts]
    /\ attempt \in [Agent \X Slot -> Attempts]
    /\ told \in [Child -> Body \cup {None}]
    /\ writes \in [Agent -> 0 .. MaxWrites]
    /\ folds \in 0 .. MaxFolds /\ faults \in 0 .. MaxFaults
    /\ held \in [Agent -> SUBSET Body]
    /\ missed \subseteq Child /\ outlived \subseteq Agent

\* "Pin what you read": every cross-agent citation pins a version that the parent
\* folded and that the child's file really held, even though the child rewrites
\* its Output while the parent reads, records and cites it (reconcile_children_impl,
\* resolve_cited).
PinsWhatWasRead ==
    \A p \in citations :
        /\ [child |-> p.child, read |-> p.cited] \in evidence
        /\ p.cited \in held[p.child]

\* The DB never names a version that is not, and never was, on the file system
\* ("FS first"): a pin taken from it always resolves to bytes.
IndexBehindFile == \A a \in Agent : index[a] # None => index[a] \in held[a]

Settled(a) == ~Waits(a) /\ ~Running(<<a, "late">>)

\* "Both stores are idempotent, so a retried activity converges": between two
\* activities of an agent its file_index row is the version of its file, whichever
\* attempts failed between the two stores, were retried, or went on beside their
\* successor, as long as none outlived its activity.
StoresConverge ==
    \A a \in Agent : Settled(a) /\ a \notin outlived => index[a] = output[a]

\* The reference graph is complete when the write returns: the version the DB has
\* for the parent's Output has, once persist_output has ended, an edge for every
\* record its last write cited, whichever attempts failed on the way.
EdgesComplete ==
    attempt[<<Parent, "current">>].at = "done" /\ job[Parent].at = FirstStage =>
        \A e \in job[Parent].cites :
            [citing |-> job[Parent].body, child |-> e.child, cited |-> e.read] \in citations

\* A parent that missed no signal was last told of the Output the child's file has
\* now, once the child's run has moved on, if no attempt of the child outlived its
\* activity.
ToldOfCurrent ==
    \A c \in Child :
        Settled(c) /\ c \notin missed \cup outlived => told[c] = output[c]

=============================================================================
