--------------------------- MODULE MCGraphReaper ---------------------------
(***************************************************************************)
(* A small instance of GraphReaper for TLC: a root with two children, of   *)
(* which coral-apply starts the first or none and the root may spawn the   *)
(* others.                                                                 *)
(***************************************************************************)
EXTENDS GraphReaper

CONSTANTS root, mid, leaf

ThreeAgents == {root, mid, leaf}
Star == [a \in ThreeAgents |-> IF a = root THEN Kernel ELSE root]
RootAlone == {root}
GrownOrNot == {RootAlone, {root, mid}}
=============================================================================
