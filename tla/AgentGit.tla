------------------------------ MODULE AgentGit ------------------------------
(***************************************************************************)
(* One agent's directory as the worker keeps it (per_agent_git.rs): the    *)
(* files of LocalStorage, and a git repository over them (git.rs) to which *)
(* the end of every cycle commits a tick.  Tasks put, create and delete    *)
(* files while commits run: an activity that timed out goes on beside its  *)
(* retry, so that two commits of one agent may overlap.                    *)
(*                                                                         *)
(* A blob is the contents it holds, and a commit is its tree: the sha of a *)
(* blob is a function of the contents (BlobSha::of_bytes), and messages    *)
(* are not read.                                                           *)
(***************************************************************************)
EXTENDS LocalStorage, SequencesExt

CONSTANTS
    Commit,     \* the attempts of commit_tick that may overlap
    MaxCalls,   \* Bound: operations begun
    MaxFaults   \* Bound: faults

VARIABLES
    index,      \* the index file: path -> blob
    locked,     \* whether index.lock exists
    head,       \* the history of HEAD: the tree of each commit
    commits,    \* the attempts in progress
    walk,       \* a listing in progress: its cursor and pages so far
    begun, faults,
    quiet,      \* history: attempts during which no file has changed
    steady      \* history: the keys that have resolved since the listing began

git == <<index, locked, head, commits>>
vars == <<disk, calls, git, walk, begun, faults, quiet, steady>>

NoCommit == [at |-> "none"]
NoWalk == [after |-> 0, pages |-> {}, over |-> FALSE]

Init ==
    /\ LSInit
    /\ index = <<>> /\ locked = FALSE /\ head = <<>> /\ commits = [a \in Commit |-> NoCommit]
    /\ walk = NoWalk /\ begun = 0 /\ faults = 0
    /\ quiet = {} /\ steady = {}

-----------------------------------------------------------------------------
(* commit_blocking.                                                        *)

On(a, step) == commits[a].at = step
Move(a, step) == commits' = [commits EXCEPT ![a].at = step]

\* Fault: Temporary files are staged as any other.
StagedAny(p) == p \in DOMAIN disk

Staged(p) == ~IsTempfile(p)

\* The index is read, and what is on disk staged: additions and modifications.
AddAll(a) ==
    /\ On(a, "none")
    /\ LET found == {p \in DOMAIN disk : Staged(p)}
       IN  commits' = [commits EXCEPT ![a] = [at |-> "added",
                          idx |-> [p \in found \cup DOMAIN index |->
                                      IF p \in found THEN disk[p] ELSE index[p]]]]
    /\ UNCHANGED <<index, locked, head>>

\* Removals are staged.  index.write() then creates index.lock, and answers
\* Locked, which is Transient, if it exists.
UpdateAll(a) ==
    /\ On(a, "added")
    /\ IF locked THEN Move(a, "transient") /\ UNCHANGED locked
       ELSE /\ locked' = TRUE
            /\ LET kept == DOMAIN commits[a].idx \cap DOMAIN disk
               IN  commits' = [commits EXCEPT ![a] = [at |-> "locked",
                                  idx |-> [p \in kept |-> disk[p]]]]
    /\ UNCHANGED <<index, head>>

\* The index is in place; write_tree, and the commit HEAD names now.
WriteIndex(a) ==
    /\ On(a, "locked") /\ index' = commits[a].idx /\ locked' = FALSE
    /\ commits' = [commits EXCEPT ![a] = [at |-> "staged", tree |-> commits[a].idx, parent |-> Len(head)]]
    /\ UNCHANGED head

\* A staged tree identical to HEAD's: the manifest, and no commit.
CleanTree(a) == commits[a].parent > 0 /\ head[commits[a].parent] = commits[a].tree

NoOp(a) == On(a, "staged") /\ CleanTree(a) /\ Move(a, "ok") /\ UNCHANGED <<index, locked, head>>

\* libgit2 refuses a commit whose parent HEAD no longer names.
CommitHead(a) ==
    /\ On(a, "staged") /\ ~CleanTree(a)
    /\ IF commits[a].parent = Len(head)
       THEN head' = Append(head, commits[a].tree) /\ Move(a, "ok")
       ELSE Move(a, "modified") /\ UNCHANGED head
    /\ UNCHANGED <<index, locked>>

Answered(a) == commits[a].at \in {"ok", "transient", "modified"}
Report(a) == Answered(a) /\ commits' = [commits EXCEPT ![a] = NoCommit] /\ UNCHANGED <<index, locked, head>>

CommitStep(a) ==
    UpdateAll(a) \/ WriteIndex(a) \/ NoOp(a) \/ CommitHead(a) \/ Report(a)

\* read_at: the blobs that the history names.
Resolves(b) == \E i \in DOMAIN head : b \in Range(head[i])

-----------------------------------------------------------------------------
(* A client that pages through the listing.                                *)

ListPage ==
    /\ ~walk.over
    /\ \E page \in SUBSET Listed(walk.after), next \in 0 .. Len(KeyOrder) :
          /\ IsPage(page, walk.after) /\ IsCursor(next, page, walk.after)
          /\ walk' = [after |-> next, pages |-> walk.pages \cup page, over |-> next = 0]
ListEnds == walk.over /\ walk' = NoWalk

-----------------------------------------------------------------------------
Observed ==
    /\ quiet' = IF disk' # disk THEN {} ELSE
                {a \in Commit : commits'[a] # NoCommit /\ (a \in quiet \/ commits[a] = NoCommit)}
    /\ steady' = IF walk' = NoWalk THEN {} ELSE
                 IF walk = NoWalk THEN Key \cap DOMAIN disk' ELSE steady \cap DOMAIN disk'

\* Operations that begin, and those that go on.
Begin ==
    /\ begun < MaxCalls /\ begun' = begun + 1
    /\ \/ (\E c \in Caller, r \in Request : Call(c, r)) /\ UNCHANGED <<git, walk>>
       \/ (\E a \in Commit : AddAll(a)) /\ UNCHANGED <<disk, calls, walk>>
       \/ walk = NoWalk /\ ListPage /\ UNCHANGED <<disk, calls, git>>
    /\ UNCHANGED faults

Proceed ==
    /\ \/ (\E c \in Caller : CallStep(c)) /\ UNCHANGED <<git, walk>>
       \/ (\E a \in Commit : CommitStep(a)) /\ UNCHANGED <<disk, calls, walk>>
       \/ walk # NoWalk /\ (ListPage \/ ListEnds) /\ UNCHANGED <<disk, calls, git>>
    /\ UNCHANGED <<begun, faults>>

CallFails ==
    /\ faults < MaxFaults /\ faults' = faults + 1
    /\ \E c \in Caller : IoError(c)
    /\ UNCHANGED <<git, walk, begun>>

\* Failure: the worker dies.  A commit leaves what it has written, its lock among it.
WorkerDies ==
    /\ faults < MaxFaults /\ faults' = faults + 1
    /\ Die /\ commits' = [a \in Commit |-> NoCommit] /\ walk' = NoWalk
    /\ UNCHANGED <<index, locked, head, begun>>

Next == (Begin \/ Proceed \/ CallFails \/ WorkerDies) /\ Observed

Spec == Init /\ [][Next]_vars

-----------------------------------------------------------------------------
(* What a caller sees.                                                     *)

Resolved == [k \in Key \cap DOMAIN disk |-> disk[k]]
Outcome(op, at) ==
    IF at \in {"ok", "existed", "error"} THEN at
    ELSE IF op = "put_if_absent" /\ at = "created" THEN "claimed"
    ELSE IF op = "put_if_absent" /\ at = "written" THEN "filled"
    ELSE "open"
CallsSeen ==
    [c \in Caller |->
        IF calls[c] = Idle THEN Idle
        ELSE [req |-> calls[c].req, op |-> calls[c].op,
              result |-> Outcome(calls[c].op, calls[c].at)]]
ListingSeen == [open |-> walk # NoWalk, owes |-> steady \ walk.pages]

-----------------------------------------------------------------------------
(* Properties.                                                             *)

\* A put is seen whole or not at all, a failed one not at all, and put_if_absent
\* falls short of that only as KeyStore says.  Whoever pages through a listing sees
\* every key that resolved all the while, whatever is written beside it.
Contract == INSTANCE KeyStore WITH store <- Resolved, calls <- CallsSeen, listing <- ListingSeen
ImplementsKeyStore == Contract!KSSpec

\* A tick during which no file changed holds what the keys resolved to: no
\* temporary file, and nothing that has been deleted.
TickIsSnapshot ==
    \A a \in quiet : On(a, "ok") => commits[a].tree = Resolved

=============================================================================
