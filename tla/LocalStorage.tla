---------------------------- MODULE LocalStorage ----------------------------
(***************************************************************************)
(* The on-disk backend (crates/coral_node/src/storage/local.rs): put       *)
(* writes a temporary file beside its key and renames it into place;       *)
(* put_if_absent creates the file itself (O_EXCL) and then fills it; list  *)
(* walks the directories and pages.  Any step may fail, or be the last     *)
(* before a crash.                                                         *)
(*                                                                         *)
(* A key is a file of the agent's prefix.  AgentFs writes evidence and     *)
(* conflicts by put_if_absent alone and everything else by put, and only   *)
(* deletes notes: a key is used in one way (Creates, the rest).            *)
(***************************************************************************)
EXTENDS Naturals, Sequences, FiniteSets

CONSTANTS
    KeyOrder,   \* the keys, in lexicographic order
    Value, Torn, Caller,
    Creates,    \* the keys that are written by put_if_absent
    Limit       \* the page size of a listing

Key == {KeyOrder[i] : i \in DOMAIN KeyOrder}

\* A page has room for a key: of none, the code's list makes an empty listing.
ASSUME StorageAssumption ==
    /\ Torn \notin Value /\ Creates \subseteq Key
    /\ KeyOrder \in Seq(Key) /\ Limit \in Nat \ {0}

VARIABLES
    disk,       \* the files: path -> contents
    calls       \* the calls in progress, each with the step it is at

Idle == [op |-> "none"]
Request ==
    [op : {"put"}, key : Key \ Creates, value : Value]
        \cup [op : {"put_if_absent"}, key : Creates, value : Value]
        \cup [op : {"delete"}, key : Key \ Creates]

LSInit == disk = <<>> /\ calls = [c \in Caller |-> Idle]

\* <key>.tmp.<pid>.<n>: one name per call in progress.  A worker in a container
\* is always pid 1, so that after a restart a name may be taken again.
TmpPathFor(c) == <<calls[c].req.key, c>>
IsTempfile(p) == p \notin Key

\* No key has the name of a temporary file.
ASSUME NameAssumption == \A k \in Key, c \in Caller : <<k, c>> \notin Key

At(c, op, step) == calls[c] # Idle /\ calls[c].op = op /\ calls[c].at = step
Go(c, step) == calls' = [calls EXCEPT ![c].at = step]
FileWith(p, v) == disk' = [q \in DOMAIN disk \cup {p} |-> IF q = p THEN v ELSE disk[q]]
Removed(p) == [q \in DOMAIN disk \ {p} |-> disk[q]]

\* Fault: A put that writes its key in place.
TargetInPlace(c) == calls[c].req.key

\* The file that a call has open.
Target(c) == IF calls[c].op = "put" THEN TmpPathFor(c) ELSE calls[c].req.key

Call(c, r) == /\ calls[c] = Idle
              /\ calls' = [calls EXCEPT ![c] = [req |-> r, op |-> r.op, at |-> "start"]]
              /\ UNCHANGED disk

CreateTmp(c) == At(c, "put", "start") /\ FileWith(TmpPathFor(c), Torn) /\ Go(c, "created")

CreateNew(c) ==
    /\ At(c, "put_if_absent", "start")
    /\ IF calls[c].req.key \in DOMAIN disk
       THEN Go(c, "existed") /\ UNCHANGED disk
       ELSE Go(c, "created") /\ FileWith(calls[c].req.key, Torn)

WriteAll(c) ==
    /\ \E op \in {"put", "put_if_absent"} : At(c, op, "created")
    /\ FileWith(Target(c), calls[c].req.value) /\ Go(c, "written")

SyncAll(c) ==
    /\ \/ At(c, "put", "written") /\ Go(c, "synced")
       \/ At(c, "put_if_absent", "written") /\ Go(c, "ok")
    /\ UNCHANGED disk

Rename(c) ==
    /\ At(c, "put", "synced") /\ Go(c, "ok")
    /\ LET key == calls[c].req.key
           tmp == TmpPathFor(c)
       IN  disk' = [q \in (DOMAIN disk \ {tmp}) \cup {key} |->
                       IF q = key THEN disk[tmp] ELSE disk[q]]

Delete(c) == At(c, "delete", "start") /\ disk' = Removed(calls[c].req.key) /\ Go(c, "ok")

\* Failure: an open, a write, a sync or a rename fails; what the call had created
\* is removed, best effort.
IoError(c) ==
    /\ calls[c] # Idle /\ calls[c].at \in {"start", "created", "written", "synced"}
    /\ Go(c, "error")
    /\ IF calls[c].at = "start" THEN UNCHANGED disk
                                ELSE disk' \in {Removed(Target(c)), disk}

Ack(c) == /\ calls[c] # Idle /\ calls[c].at \in {"ok", "existed", "error"}
          /\ calls' = [calls EXCEPT ![c] = Idle] /\ UNCHANGED disk

CallStep(c) == CreateTmp(c) \/ CreateNew(c) \/ WriteAll(c) \/ SyncAll(c) \/ Rename(c) \/ Delete(c) \/ Ack(c)

\* Failure: the process dies, or the machine: a file that has been written and not
\* synced may then be torn.  Directories are taken to be durable.
Unsynced(c) == \E op \in {"put", "put_if_absent"} : At(c, op, "written")
Die ==
    /\ calls' = [c \in Caller |-> Idle]
    /\ \E Lost \in SUBSET {c \in Caller : Unsynced(c)} :
          disk' = [p \in DOMAIN disk |-> IF \E c \in Lost : Target(c) = p THEN Torn ELSE disk[p]]

\* The keys after a cursor, none of them a temporary file.
Rank(k) == CHOOSE i \in DOMAIN KeyOrder : KeyOrder[i] = k
Listed(after) == {k \in Key \cap DOMAIN disk : Rank(k) > after}

\* One page of a listing: the first of those keys.
IsPage(page, after) ==
    /\ page \subseteq Listed(after)
    /\ \A k \in page, l \in Listed(after) \ page : Rank(k) < Rank(l)
    /\ Cardinality(page) = Limit \/ (Cardinality(page) < Limit /\ page = Listed(after))

\* Where to go on from: the last key of a page, if there are more after it.
IsCursor(next, page, after) ==
    IF page = Listed(after) THEN next = 0
    ELSE \E k \in page : next = Rank(k) /\ \A l \in page : Rank(l) <= next
=============================================================================
