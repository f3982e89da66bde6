------------------------------ MODULE GraphYaml ------------------------------
(***************************************************************************)
(* graph.yaml (crates/coral_graph/src/yaml.rs): the document, its          *)
(* validation, and what coral-apply derives from a valid one.  Pure        *)
(* operators; CoralApply uses them.                                        *)
(*                                                                         *)
(* A document's agents are nodes: a node is where an agent stands in the   *)
(* file, so that two of them may carry the same id.  <<2, 1>> is the first *)
(* of the children of the second of the roots.  An id, a name or a mandate *)
(* text is a model value or a string that stands for itself.               *)
(***************************************************************************)
EXTENDS Integers, Sequences, SequencesExt, FiniteSetsExt

CONSTANTS
    Absent,     \* None
    SafeName    \* the names is_url_path_safe_name accepts

Nodes(g) == DOMAIN g.id

\* m is above n in the tree, or to the left of it.
Above(m, n) == Len(m) < Len(n) /\ \A i \in DOMAIN m : m[i] = n[i]
LeftOf(m, n) == \E i \in DOMAIN m \cap DOMAIN n :
                    m[i] < n[i] /\ \A j \in 1 .. i - 1 : m[j] = n[j]

\* Fault: children come before their parents.
FaultPrecedes(m, n) == Above(n, m) \/ LeftOf(m, n)

\* The walk every traversal of the file makes: depth first, parents first.
Precedes(m, n) == Above(m, n) \/ LeftOf(m, n)
Rank(g, n) == Cardinality({m \in Nodes(g) : Precedes(m, n)}) + 1
Preorder(g) == [r \in 1 .. Cardinality(Nodes(g)) |-> CHOOSE n \in Nodes(g) : Rank(g, n) = r]

ParentOf(n) == IF Len(n) = 1 THEN Absent ELSE Front(n)

\* What serde makes of a file: lists, and a forest of agents.
IsGraphYaml(g) ==
    /\ DOMAIN g = {"api", "kind", "name", "default", "tools", "id", "cadence", "grants",
                   "triggers"}
    /\ g.tools \in Seq(Range(g.tools)) /\ g.triggers \in Seq(Range(g.triggers))
    /\ DOMAIN g.cadence = Nodes(g) /\ DOMAIN g.grants = Nodes(g)
    /\ IsFiniteSet(Nodes(g))
    /\ \A n \in Nodes(g) :
        /\ n \in Seq(Nat) /\ n # <<>> /\ n # Absent
        /\ Len(n) > 1 => Front(n) \in Nodes(g)
        /\ Last(n) = 1 \/ [n EXCEPT ![Len(n)] = @ - 1] \in Nodes(g)

\* A cadence that is neither "never" nor a duration fails the parse.
Deserialized(cadence) ==
    CASE cadence = Absent -> Absent
      [] cadence \in {"never", "Never"} -> "never"
      [] cadence = "5m" -> "every"
      [] OTHER -> "error"

Parses(g) ==
    "error" \notin {Deserialized(c) : c \in {g.default} \cup Range(g.cadence)}

-----------------------------------------------------------------------------
\* Validation.  Each check is made in the order of the file, and the first
\* that fails is the error.
Check(failed, error) == IF failed THEN error ELSE "Ok"

FirstError(verdicts) ==
    LET failed == {i \in DOMAIN verdicts : verdicts[i] # "Ok"}
    IN  IF failed = {} THEN "Ok" ELSE verdicts[Min(failed)]

ValidateTools(g) ==
    FirstError([i \in DOMAIN g.tools |-> FirstError(
        << Check(\E j \in 1 .. i - 1 : g.tools[j].id = g.tools[i].id, "DuplicateToolId"),
           Check(g.tools[i].command = "", "EmptyMcpCommand") >>)])

Registered(g) == {g.tools[i].id : i \in DOMAIN g.tools}

ValidateAgent(g, order, i) ==
    LET n == order[i]
    IN  FirstError(
        << Check(\E m \in Nodes(g) : m = ParentOf(n) /\ g.id[m] = g.id[n], "CyclicChildren"),
           Check(g.id[n] \notin SafeName, "InvalidName"),
           Check(\E j \in 1 .. i - 1 : g.id[order[j]] = g.id[n], "DuplicateAgentId"),
           Check(g.cadence[n] = Absent /\ g.default = Absent, "MissingMandateIdlePeriod"),
           Check(~ g.grants[n] \subseteq Registered(g), "UnknownToolReference") >>)

ValidateAgentTree(g) ==
    LET order == Preorder(g)
    IN  FirstError([i \in DOMAIN order |-> ValidateAgent(g, order, i)])

ValidateTriggers(g) ==
    FirstError([i \in DOMAIN g.triggers |-> FirstError(
        << Check(g.triggers[i].agent \notin Range(g.id), "UnknownTriggerAgent"),
           Check(g.triggers[i].at # "start", "UnsupportedTriggerAt") >>)])

Validate(g) ==
    FirstError(<< Check(g.api # "v1alpha1", "UnsupportedApiVersion"),
                  Check(g.kind # "Graph", "UnsupportedKind"),
                  Check(g.name \notin SafeName, "InvalidName"),
                  Check(Nodes(g) = {}, "NoAgents"),
                  ValidateTools(g), ValidateAgentTree(g),
                  Check(g.triggers = <<>>, "EmptySeedTriggers"),
                  ValidateTriggers(g) >>)

ParseAndValidate(g) == IF Parses(g) THEN Validate(g) ELSE "Parse"

-----------------------------------------------------------------------------
\* What is derived.  applied : Seq([operator_id, agent, parent]) is the list
\* create_from_yaml returns.  Both maps are filled by insertion, so the last
\* entry of an id wins.
IndexAgents(g, id) ==
    LET order == Preorder(g)
    IN  order[Max({i \in DOMAIN order : g.id[order[i]] = id})]

IdMap(applied, id) ==
    applied[Max({i \in DOMAIN applied : applied[i].operator_id = id})].agent

\* resolve_mandate panics when no cadence resolves.
ResolvesMandate(g, n) == g.cadence[n] # Absent \/ g.default # Absent

ResolveMandate(g, n) ==
    [text |-> n, tools |-> g.grants[n],
     cadence |-> Deserialized(IF g.cadence[n] # Absent THEN g.cadence[n] ELSE g.default)]

OperatorId(applied, agent) ==
    applied[Min({i \in DOMAIN applied : applied[i].agent = agent})].operator_id

\* One workflow per agent: its id, the agent whose file system it writes, its
\* mandate, and the workflow its parent_handle names.
BuildWorkflowStarts(g, applied) ==
    [i \in DOMAIN applied |->
        [workflow |-> IdMap(applied, applied[i].operator_id),
         agent    |-> applied[i].agent,
         mandate  |-> ResolveMandate(g, IndexAgents(g, applied[i].operator_id)),
         parent   |-> IF applied[i].parent = Absent THEN Absent
                      ELSE IdMap(applied, OperatorId(applied, applied[i].parent))]]

\* Fault: the last trigger of the file is sent first.
FaultReversedTriggers(g, applied) ==
    [i \in DOMAIN g.triggers |->
        LET j == Len(g.triggers) + 1 - i
        IN  [workflow |-> IdMap(applied, g.triggers[j].agent), trigger |-> j]]

YamlSeedTriggers(g, applied) ==
    [i \in DOMAIN g.triggers |->
        [workflow |-> IdMap(applied, g.triggers[i].agent), trigger |-> i]]
=============================================================================
