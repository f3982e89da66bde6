-------------------------- MODULE MCAgentWorkflow --------------------------
(***************************************************************************)
(* A small instance of AgentWorkflow for TLC.                              *)
(***************************************************************************)
EXTENDS AgentWorkflow

CONSTANTS t1, t2, o1, p1

\* Two signals of one bucket, so that order and partial drains show, and one of
\* each other bucket.
FourSignals == {t1, t2, o1, p1}
FourSignalsBuckets ==
    [s \in FourSignals |-> IF s = o1 THEN "human_op" ELSE IF s = p1 THEN "mandate_patch" ELSE "trigger"]
=============================================================================
