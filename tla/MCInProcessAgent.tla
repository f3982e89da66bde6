-------------------------- MODULE MCInProcessAgent --------------------------
(***************************************************************************)
(* A small instance of InProcessAgent for TLC.                             *)
(***************************************************************************)
EXTENDS InProcessAgent

CONSTANTS x, y, z

\* Two triggers of one class, so that their order shows, and one that overtakes them.
Triggers == {x, y, z}
Classes == [t \in Triggers |-> IF t = z THEN "human" ELSE "child"]

OneOfEach == [k \in Kind |-> 1]
=============================================================================
