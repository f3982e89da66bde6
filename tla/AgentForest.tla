---------------------------- MODULE AgentForest ----------------------------
(***************************************************************************)
(* What the spawning and retiring of agents promises, with no rows, no     *)
(* activities, no retries, no continue-as-new and no signals in flight: a  *)
(* child appears alive and known to its parent in one step, an agent is    *)
(* asked to leave before its parent forgets it, and who leaves stays gone. *)
(* AgentTree implements this specification.                                *)
(***************************************************************************)
CONSTANTS
    Agents,     \* identities of agents
    Root,       \* the agent coral-apply started
    NoAgent     \* the parent of an agent that has none

VARIABLES
    status,     \* "absent", "open", "leaving" or "gone"
    parent,     \* who spawned an agent
    known       \* the children an agent accounts for

vars == <<status, parent, known>>

Init ==
    /\ status = [a \in Agents |-> IF a = Root THEN "open" ELSE "absent"]
    /\ parent = [a \in Agents |-> NoAgent]
    /\ known = [a \in Agents |-> {}]

Alive(a) == status[a] \in {"open", "leaving"}

Spawn(p, c) ==
    /\ Alive(p)
    /\ status[c] = "absent"
    /\ status' = [status EXCEPT ![c] = "open"]
    /\ parent' = [parent EXCEPT ![c] = p]
    /\ known' = [known EXCEPT ![p] = @ \cup {c}]

AskToLeave(c) ==
    /\ status[c] = "open"
    /\ status' = [status EXCEPT ![c] = "leaving"]
    /\ UNCHANGED <<parent, known>>

\* A parent may forget a child that is on its way out.
Dismiss(p, c) ==
    /\ Alive(p)
    /\ status[c] # "open"
    /\ known' = [known EXCEPT ![p] = @ \ {c}]
    /\ UNCHANGED <<status, parent>>

\* An agent goes when it has been asked to, or when its workflow fails.
Leave(c) ==
    /\ Alive(c)
    /\ status' = [status EXCEPT ![c] = "gone"]
    /\ UNCHANGED <<parent, known>>

Next ==
    \E a \in Agents :
        \/ \E c \in Agents : Spawn(a, c) \/ Dismiss(a, c)
        \/ AskToLeave(a)
        \/ Leave(a)

Spec == Init /\ [][Next]_vars

\* A parent that is alive knows every child of its own that nobody has asked to
\* leave: no agent works on unaccounted for.
NoStrayChild ==
    \A c \in Agents :
        status[c] = "open" /\ parent[c] # NoAgent /\ Alive(parent[c])
            => c \in known[parent[c]]

-----------------------------------------------------------------------------
(* Why NoStrayChild holds.                                                 *)

TypeOK ==
    /\ status \in [Agents -> {"absent", "open", "leaving", "gone"}]
    /\ parent \in [Agents -> Agents \cup {NoAgent}]
    /\ known \in [Agents -> SUBSET Agents]

\* The parent of an agent that has come to be has come to be: who starts now has no
\* children it could fail to know.
ParentsCameFirst ==
    \A c \in Agents : status[c] # "absent" /\ parent[c] # NoAgent => status[parent[c]] # "absent"

ForestInv == TypeOK /\ ParentsCameFirst /\ NoStrayChild
=============================================================================
