------------------------ MODULE MCOutputPropagation ------------------------
(***************************************************************************)
(* Small instances of OutputPropagation for TLC.                           *)
(***************************************************************************)
EXTENDS OutputPropagation, TLC

CONSTANTS c1, c2, b1, b2

OneChild == {c1}
TwoBodies == {b1, b2}

\* Bodies are compared only for equality.
BodySymmetry == Permutations(TwoBodies)
=============================================================================
