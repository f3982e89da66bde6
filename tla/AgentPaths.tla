----------------------------- MODULE AgentPaths -----------------------------
(***************************************************************************)
(* The rules by which AgentFs (crates/coral_node/src/fs.rs) takes a path   *)
(* from the model, and the keys it makes itself.  A raw path is the        *)
(* sequence of its components as std::path yields them, with a "." only at *)
(* its start; a relative path holds names only.  Keys leave the agent's prefix out: it is a constant  *)
(* of the agent, and nothing here removes a component of it.               *)
(***************************************************************************)
EXTENDS Naturals, Sequences, SequencesExt, TLC

CONSTANTS
    Seed, Body,         \* claim seeds, and the slug of each: two may share one
    Content, Suffix,    \* contents of records, and the first digits of each's hash
    TmpName             \* names that look like a temporary file's

\* Distinct contents have distinct suffixes: the 32 bits of it that evidence
\* names keep are taken to tell them apart.
ASSUME SuffixAssumption == \A e, f \in Content : Suffix[e] = Suffix[f] => e = f

ParentDir == ".."
CurDir == "."
RootDir == "/"
TailName == "_tail.json"

Escapes(raw) == \E i \in DOMAIN raw : raw[i] \in {ParentDir, RootDir}
Cleaned(raw) == IF raw # <<>> /\ raw[1] = CurDir THEN Tail(raw) ELSE raw

\* Fault: only the directory's own sidecar is told apart.
IsNoteRecordShallow(rel) == rel # <<TailName>>

IsNoteRecord(rel) == Last(rel) # TailName

\* Fault: a path is judged by where it starts.
NotesKeyUnlessRooted(raw) ==
    /\ RootDir \notin Range(raw)
    /\ Len(Cleaned(raw)) > 1 /\ Cleaned(raw)[1] = "notes"

\* resolve_notes_key finds a key: of a file inside notes/, not of notes/ itself.
HasNotesKey(raw) ==
    /\ ~Escapes(raw)
    /\ Len(Cleaned(raw)) > 1 /\ Cleaned(raw)[1] = "notes"

Writable(raw) == HasNotesKey(raw) /\ IsNoteRecord(Tail(Cleaned(raw)))

Readable(raw) == ~Escapes(raw)

Citable(raw) ==
    /\ ~Escapes(raw)
    /\ LET rel == Cleaned(raw) IN
          Len(rel) > 1 /\ rel[1] = "evidence" /\ rel # <<"evidence", TailName>>

Mandate == <<"mandate.md">>
CanonicalOutput == <<"outputs", "output.md">>
Retirement == <<"retirement.json">>
NotesTail == <<"notes", TailName>>
EvidenceTail == <<"evidence", TailName>>

\* The readable part of a record's name, and the part that tells contents apart:
\* digits of the hash of their canonical form.
Slug(seed) == Body[seed]
ShortHash(e) == Suffix[e]

EvidenceRelpath(seed, e) == <<"evidence", Slug(seed) \o ShortHash(e)>>
ConflictKey(e) == <<"conflicts", ShortHash(e)>>

\* Where the storage looks for a key: LocalStorage joins it to its root and is
\* no sandbox, so that the operating system resolves what is left of a "..".
KeyPath(key) ==
    IF ParentDir \notin Range(key) THEN key
    ELSE FoldLeft(LAMBDA at, c : IF c = ParentDir /\ at # <<>> THEN Front(at) ELSE Append(at, c), <<>>, key)

-----------------------------------------------------------------------------
(* Directories.  `files` are the paths of the files there are.             *)

Above(p) == {SubSeq(p, 1, n) : n \in 0 .. Len(p) - 1}

\* A component of the path is a file.
Blocked(files, p) == Above(p) \cap files # {}

\* The keys that a listing of the storage yields under a directory.
ListedKeys(files, dir) == {p \in files : dir \in Above(p) /\ Last(p) \notin TmpName}

Rest(p, dir) == SubSeq(p, Len(dir) + 1, Len(p))

\* list_dir: the files directly under a directory, and a marker for each
\* directory there.
ListDir(files, dir) ==
    {[name |-> Rest(p, dir)[1], nested |-> Len(Rest(p, dir)) > 1] :
        p \in {q \in ListedKeys(files, dir) : Rest(q, dir) # <<TailName>>}}

\* search: the files it reads, without the sidecars.
Searched(files, dir) == {p \in ListedKeys(files, dir) : Last(p) # TailName}
=============================================================================
