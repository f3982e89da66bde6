------------------------------ MODULE KeyStore ------------------------------
(***************************************************************************)
(* What AgentStorage promises of its writes, as its in-memory backend      *)
(* keeps it (memory.rs): a call takes effect in one step between its       *)
(* invocation and its return, or fails and has none.  put_if_absent is the *)
(* exception the on-disk backend forces: it may take its key in one step   *)
(* (Claim), give it its value in another (Fill), and give it up (Unclaim). *)
(* A listing is not a snapshot: it is read page by page while keys come    *)
(* and go, and owes its reader the keys that resolve all the while.        *)
(***************************************************************************)
EXTENDS Naturals

CONSTANTS
    Key,        \* paths
    Value,      \* contents
    Torn,       \* of a file that is there with nothing, or a part, of its contents
    Caller      \* tasks that call the storage, each awaiting one call at a time

VARIABLES
    store,      \* the keys that resolve, with what get returns for each
    calls,      \* the call each task awaits
    listing     \* whether a listing is being read, and the keys it still owes

NotListing == [open |-> FALSE, owes |-> {}]
Idle == [op |-> "none"]
Request == [op : {"put", "put_if_absent"}, key : Key, value : Value] \cup [op : {"delete"}, key : Key]

KSInit == store = <<>> /\ calls = [c \in Caller |-> Idle] /\ listing = NotListing

Invoke(c, r) ==
    /\ calls[c] = Idle /\ calls' = [calls EXCEPT ![c] = [req |-> r, op |-> r.op, result |-> "open"]]
    /\ UNCHANGED store

Awaits(c, op, result) == calls[c] # Idle /\ calls[c].op = op /\ calls[c].result = result
Answer(c, result) == calls' = [calls EXCEPT ![c].result = result]
KeyOf(c) == calls[c].req.key
Write(c, v) == store' = [k \in DOMAIN store \cup {KeyOf(c)} |-> IF k = KeyOf(c) THEN v ELSE store[k]]
Erase(c) == store' = [k \in DOMAIN store \ {KeyOf(c)} |-> store[k]]

Put(c) == Awaits(c, "put", "open") /\ Write(c, calls[c].req.value) /\ Answer(c, "ok")

Delete(c) == Awaits(c, "delete", "open") /\ Erase(c) /\ Answer(c, "ok")

PutIfAbsent(c) ==
    /\ Awaits(c, "put_if_absent", "open")
    /\ IF KeyOf(c) \in DOMAIN store THEN Answer(c, "existed") /\ UNCHANGED store
                                    ELSE Answer(c, "ok") /\ Write(c, calls[c].req.value)

Claim(c) == /\ Awaits(c, "put_if_absent", "open") /\ KeyOf(c) \notin DOMAIN store
            /\ Write(c, Torn) /\ Answer(c, "claimed")
Fill(c) == Awaits(c, "put_if_absent", "claimed") /\ Write(c, calls[c].req.value) /\ Answer(c, "filled")
Settle(c) == Awaits(c, "put_if_absent", "filled") /\ Answer(c, "ok") /\ UNCHANGED store
Unclaim(c) == /\ \E r \in {"claimed", "filled"} : Awaits(c, "put_if_absent", r)
              /\ Erase(c) \/ UNCHANGED store       \* best effort
              /\ Answer(c, "error")

Fail(c) == calls[c] # Idle /\ calls[c].result = "open" /\ Answer(c, "error") /\ UNCHANGED store

Return(c) == /\ calls[c] # Idle /\ calls[c].result \in {"ok", "existed", "error"}
             /\ calls' = [calls EXCEPT ![c] = Idle] /\ UNCHANGED store

\* The process ends, and the machine with it or not: only a key that a call had
\* taken and not settled may be left torn.
Crash ==
    /\ calls' = [c \in Caller |-> Idle]
    /\ \E Lost \in SUBSET {c \in Caller : Awaits(c, "put_if_absent", "filled")} :
          store' = [k \in DOMAIN store |-> IF \E c \in Lost : KeyOf(c) = k THEN Torn ELSE store[k]]

Called(c) ==
    /\ \/ \E r \in Request : Invoke(c, r)
       \/ Put(c) \/ Delete(c) \/ PutIfAbsent(c)
       \/ Claim(c) \/ Fill(c) \/ Settle(c) \/ Unclaim(c)
       \/ Fail(c) \/ Return(c)
    /\ listing' = [listing EXCEPT !.owes = @ \cap DOMAIN store']

\* A page, the first of a listing or a later one, shows keys that resolve.
ShowPage == \E page \in SUBSET DOMAIN store :
    listing' = [open |-> TRUE,
                owes |-> (IF listing.open THEN listing.owes ELSE DOMAIN store) \ page]

\* A listing ends when it owes nothing.
EndListing == listing.open /\ listing.owes = {} /\ listing' = NotListing

KSNext ==
    \/ \E c \in Caller : Called(c)
    \/ (ShowPage \/ EndListing) /\ UNCHANGED <<store, calls>>
    \/ Crash /\ listing' = NotListing

KSSpec == KSInit /\ [][KSNext]_<<store, calls, listing>>
=============================================================================
