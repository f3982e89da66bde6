---------------------------- MODULE MCAgentTree ----------------------------
(* Small instances of AgentTree.                                           *)
EXTENDS AgentTree

CONSTANTS search, shell

\* The graph defines one tool; a mandate may grant it, or one it does not define.
OneTool == {search}
GoodAndBadGrant == {{search}, {search, shell}}
=============================================================================
