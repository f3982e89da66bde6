--------------------------- MODULE SignalHandOff ---------------------------
(***************************************************************************)
(* What an agent promises to whoever signals it, with no runs, no          *)
(* continue-as-new, no carryover and no buffering: signals are received in *)
(* order, a cycle takes every signal received so far and not yet taken, at *)
(* most one cycle is open, and a closed agent takes nothing.  The          *)
(* workflow of AgentWorkflow implements this specification.                *)
(***************************************************************************)
EXTENDS Naturals, Sequences

CONSTANTS
    Signal,     \* identities of the signals other parties may send
    Bucket,     \* the queues signals are pushed on
    BucketOf    \* which queue a signal goes to

VARIABLES
    received,   \* per bucket, every signal accepted, in order
    taken,      \* per bucket, the signals handed to cycles, in order
    cycles,     \* number of completed cycles
    phase       \* "waiting", "cycle" or "closed"

vars == <<received, taken, cycles, phase>>

Init ==
    /\ received = [b \in Bucket |-> <<>>]
    /\ taken = [b \in Bucket |-> <<>>]
    /\ cycles = 0
    /\ phase = "waiting"

\* A signal accepted while the agent closes is received and never taken.
Receive(s) ==
    /\ received' = [received EXCEPT ![BucketOf[s]] = Append(@, s)]
    /\ UNCHANGED <<taken, cycles, phase>>

Begin ==
    /\ phase = "waiting"
    /\ taken' = received
    /\ phase' = "cycle"
    /\ UNCHANGED <<received, cycles>>

Finish ==
    /\ phase = "cycle"
    /\ cycles' = cycles + 1
    /\ phase' = "waiting"
    /\ UNCHANGED <<received, taken>>

Close ==
    /\ phase # "closed"
    /\ phase' = "closed"
    /\ UNCHANGED <<received, taken, cycles>>

\* Finishing the cycle that reaches the cycle cap closes the agent at once.
FinishAndClose ==
    /\ phase = "cycle"
    /\ cycles' = cycles + 1
    /\ phase' = "closed"
    /\ UNCHANGED <<received, taken>>

Next ==
    \/ \E s \in Signal : Receive(s)
    \/ Begin
    \/ Finish
    \/ Close
    \/ FinishAndClose

Spec == Init /\ [][Next]_vars

(***************************************************************************)
(* The promise with its progress: work received while the agent waits      *)
(* starts a cycle, and an open cycle ends, unless the agent closes.  This  *)
(* is not weak fairness of Begin and Finish, since Close is an alternative *)
(* to each that nothing obliges.                                           *)
(***************************************************************************)
Progress ==
    /\ phase = "waiting" /\ taken # received ~> phase # "waiting"
    /\ phase = "cycle" ~> phase # "cycle"

LiveSpec == Spec /\ Progress
=============================================================================
