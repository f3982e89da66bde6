---------------------------- MODULE MCCoralApply ----------------------------
(* Documents for CoralApply: two valid ones that want the same name, and one *)
(* for every error the parser and the validator know.                        *)
EXTENDS CoralApply

CONSTANTS a1, a2

R == <<1>>
S == <<2>>
C == <<1, 1>>

\* Two roots, the first of which has a child; the child gets the first trigger.
Forest ==
    [api |-> "v1alpha1", kind |-> "Graph", name |-> "g", default |-> "Never",
     tools |-> << [id |-> "search", command |-> "builtin"],
                  [id |-> "mcp", command |-> "npx"] >>,
     id |-> R :> "r" @@ S :> "s" @@ C :> "c",
     cadence |-> R :> "5m" @@ S :> Absent @@ C :> Absent,
     grants |-> R :> {"search"} @@ S :> {} @@ C :> {"mcp"},
     triggers |-> << [agent |-> "c", at |-> "start"], [agent |-> "r", at |-> "start"] >>]

\* A chain of two under another shape of the same graph.
Chain == [Forest EXCEPT
    !.id = R :> "r" @@ C :> "c", !.cadence = R :> "never" @@ C :> "5m", !.default = Absent,
    !.grants = R :> {} @@ C :> {}, !.triggers = << [agent |-> "c", at |-> "start"] >>]

Broken ==
    { [Chain EXCEPT !.api = "v0"], [Chain EXCEPT !.kind = "Node"],
      [Chain EXCEPT !.name = "No Name"],
      [Chain EXCEPT !.id = <<>>, !.cadence = <<>>, !.grants = <<>>],
      [Chain EXCEPT !.tools = Append(@, @[1])],
      [Chain EXCEPT !.tools[2].command = ""],
      [Chain EXCEPT !.id[C] = "r"], [Forest EXCEPT !.id[S] = "c"],
      [Chain EXCEPT !.id[C] = "No Name"],
      [Chain EXCEPT !.cadence[C] = Absent], [Chain EXCEPT !.cadence[C] = "soon"],
      [Chain EXCEPT !.grants[C] = {"nope"}],
      [Chain EXCEPT !.triggers = <<>>], [Chain EXCEPT !.triggers[1].agent = "s"],
      [Chain EXCEPT !.triggers[1].at = "later"] }

MCApply == {a1, a2}
MCDocs == {Forest, Chain} \cup Broken
MCSafeName == {"g", "r", "s", "c"}
=============================================================================
