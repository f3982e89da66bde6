---------------------------- MODULE StructuralDb ----------------------------
(***************************************************************************)
(* The structural database as store.rs uses it: graphs, agents, edges,     *)
(* tools, the file index and the citations, each a set of rows with the    *)
(* unique and foreign keys of the migrations.  Activities and applies send *)
(* single statements, each a transaction of its own: a statement that was  *)
(* executed but not answered is sent again by the activity's retry, with   *)
(* another id, and an operator drops a graph while they are under way.     *)
(*                                                                         *)
(* Names, commands, arguments and metadata are not looked at.  now() is    *)
(* when the statement's transaction began, not when it is executed.        *)
(***************************************************************************)
EXTENDS Integers, FiniteSets

CONSTANTS
    Client,     \* whoever holds a connection of the pool
    Name,       \* names of graphs
    Path, Sha,
    MaxStatements, MaxRetries   \* Bounds

VARIABLES
    graphs, agents, edges, tools, files, citations,
    clock,
    statements, \* the statement a client is waiting for
    sent, retries

\* Ids are minted in order; the first belong to the graph that is there and its agents.
Root == 0
Parent == 1
Child == 2

tables == <<graphs, agents, edges, tools, files, citations>>
dbvars == <<tables, clock, statements, sent, retries>>

Waiting == [at |-> "none"]

File == [agent : {Parent, Child}, path : Path]
Persisted == CHOOSE s \in Sha : TRUE

\* What an apply has left behind, its rows with one created_at, and the parent's
\* first output, which cites its child's.
DbInit ==
    /\ graphs = {[id |-> Root, name |-> "root", created_at |-> 0]}
    /\ agents = {[id |-> a, graph_id |-> Root, created_at |-> 0] : a \in {Parent, Child}}
    /\ edges = {[id |-> 0, parent |-> Parent, child |-> Child, created_at |-> 0]}
    /\ files = {[file |-> f, sha |-> Persisted, created_at |-> 1, updated_at |-> 1] : f \in File}
    /\ citations = {[id |-> 0, created_at |-> 1,
                     ends |-> [citing |-> Parent, version |-> Persisted,
                               cited |-> [agent |-> Child, path |-> p], sha |-> Persisted]] : p \in Path}
    /\ tools = {[id |-> 0, graph_id |-> Root, def_id |-> "search", created_at |-> 0]}
    /\ clock = 3 /\ statements = [c \in Client |-> Waiting] /\ sent = 0 /\ retries = 0

-----------------------------------------------------------------------------
(* Statements: what they are asked with.                                   *)

GraphIds == {g.id : g \in graphs}
AgentIds == {a.id : a \in agents}
Statements ==
    [op : {"create_graph"}, name : Name]
    \cup [op : {"add_agent", "drop_graph"}, graph : {Root}]
    \cup [op : {"add_edge"}, parent : {Parent}, child : AgentIds \ {Parent}]
    \cup [op : {"register_tool"}, graph : {Root}, def_id : {"search", "mail"}]
    \cup [op : {"set_file_version"}, file : File, sha : Sha]
    \cup [op : {"add_citation"}, citing : {Parent}, version : Sha, cited : File, sha : Sha]

-----------------------------------------------------------------------------
(* Statements: what they do.  id is minted by the caller, now the time at  *)
(* which the transaction began.                                            *)

CreateGraph(s, id, now) ==
    /\ graphs' = graphs \cup {[id |-> id, name |-> s.name, created_at |-> now]}
    /\ UNCHANGED <<agents, edges, tools, files, citations>>

AddAgent(s, id, now) ==
    /\ agents' = agents \cup {[id |-> id, graph_id |-> s.graph, created_at |-> now]}
    /\ UNCHANGED <<graphs, edges, tools, files, citations>>

AddEdge(s, id, now) ==
    /\ edges' = edges \cup {[id |-> id, parent |-> s.parent, child |-> s.child, created_at |-> now]}
    /\ UNCHANGED <<graphs, agents, tools, files, citations>>

RegisterTool(s, id, now) ==
    /\ tools' = tools \cup {[id |-> id, graph_id |-> s.graph, def_id |-> s.def_id, created_at |-> now]}
    /\ UNCHANGED <<graphs, agents, edges, files, citations>>

\* ON CONFLICT DO UPDATE: the pointer is moved in place.
SetFileVersion(s, now) ==
    LET old == {f \in files : f.file = s.file}
    IN /\ files' = (files \ old)
             \cup {[file |-> s.file, sha |-> s.sha, updated_at |-> now,
                    created_at |-> IF old = {} THEN now ELSE (CHOOSE f \in old : TRUE).created_at]}
       /\ UNCHANGED <<graphs, agents, edges, tools, citations>>

\* A citation is identified by its two version-pinned ends.
Ends(s) == [citing |-> s.citing, version |-> s.version, cited |-> s.cited, sha |-> s.sha]

\* Fault: A conflict replaces the row.
CitationReplaced(s, id, now) ==
    {c \in citations : c.ends # Ends(s)} \cup {[id |-> id, ends |-> Ends(s), created_at |-> now]}

\* ON CONFLICT DO UPDATE SET created_at = citations.created_at: the row that is there.
CitationKept(s, id, now) ==
    IF \E c \in citations : c.ends = Ends(s) THEN citations
    ELSE citations \cup {[id |-> id, ends |-> Ends(s), created_at |-> now]}

AddCitation(s, id, now) ==
    /\ citations' = CitationKept(s, id, now)
    /\ UNCHANGED <<graphs, agents, edges, tools, files>>

CascadeCitations(left) == {c \in citations : {c.ends.citing, c.ends.cited.agent} \subseteq left}

\* ON DELETE CASCADE, all the way down.
DropGraph(s) ==
    LET left == {a.id : a \in {b \in agents : b.graph_id # s.graph}}
    IN /\ graphs' = {g \in graphs : g.id # s.graph}
       /\ agents' = {a \in agents : a.id \in left}
       /\ edges' = {e \in edges : {e.parent, e.child} \subseteq left}
       /\ tools' = {t \in tools : t.graph_id # s.graph}
       /\ files' = {f \in files : f.file.agent \in left}
       /\ citations' = CascadeCitations(left)

\* REFERENCES.
ForeignKeys(s) ==
    CASE s.op \in {"add_agent", "register_tool"} -> s.graph \in GraphIds
      [] s.op = "add_edge" -> {s.parent, s.child} \subseteq AgentIds
      [] s.op = "set_file_version" -> s.file.agent \in AgentIds
      [] s.op = "add_citation" -> {s.citing, s.cited.agent} \subseteq AgentIds
      [] OTHER -> TRUE

\* UNIQUE.
UniqueKeys(s) ==
    CASE s.op = "create_graph" -> \A g \in graphs : g.name # s.name
      [] s.op = "add_edge" -> \A e \in edges : <<e.parent, e.child>> # <<s.parent, s.child>>
      [] s.op = "register_tool" ->
            \A t \in tools : <<t.graph_id, t.def_id>> # <<s.graph, s.def_id>>
      [] OTHER -> TRUE

Apply(s, id, now) ==
    CASE s.op = "create_graph" -> CreateGraph(s, id, now)
      [] s.op = "add_agent" -> AddAgent(s, id, now)
      [] s.op = "add_edge" -> AddEdge(s, id, now)
      [] s.op = "register_tool" -> RegisterTool(s, id, now)
      [] s.op = "set_file_version" -> SetFileVersion(s, now)
      [] s.op = "add_citation" -> AddCitation(s, id, now)
      [] s.op = "drop_graph" -> DropGraph(s)

-----------------------------------------------------------------------------
(* Clients.                                                                *)

\* A transaction begins; its row's id is a fresh one.
Send(c) ==
    /\ statements[c] = Waiting /\ sent < MaxStatements /\ sent' = sent + 1
    /\ \E s \in Statements :
          statements' = [statements EXCEPT
                            ![c] = [at |-> "sent", stmt |-> s, id |-> clock, now |-> clock]]
    /\ clock' = clock + 1
    /\ UNCHANGED <<tables, retries>>

Execute(c) ==
    /\ statements[c].at = "sent"
    /\ IF ForeignKeys(statements[c].stmt) /\ UniqueKeys(statements[c].stmt)
       THEN Apply(statements[c].stmt, statements[c].id, statements[c].now)
            /\ statements' = [statements EXCEPT ![c].at = "ok"]
       ELSE UNCHANGED tables /\ statements' = [statements EXCEPT ![c] = Waiting]
    /\ UNCHANGED <<clock, sent, retries>>

Answer(c) ==
    /\ statements[c].at = "ok"
    /\ statements' = [statements EXCEPT ![c] = Waiting]
    /\ UNCHANGED <<tables, clock, sent, retries>>

\* Failure: the answer is lost, or the worker dies before it has it; the
\* activity's next attempt sends the statement again.
Retry(c) ==
    /\ statements[c].at \in {"sent", "ok"} /\ retries < MaxRetries /\ retries' = retries + 1
    /\ statements[c].stmt.op # "drop_graph"
    /\ statements' = [statements EXCEPT ![c].at = "sent", ![c].id = clock, ![c].now = clock]
    /\ clock' = clock + 1
    /\ UNCHANGED <<tables, sent>>

DbNext == \E c \in Client : Send(c) \/ Execute(c) \/ Answer(c) \/ Retry(c)

DbSpec == DbInit /\ [][DbNext]_dbvars

-----------------------------------------------------------------------------
(* Reads.                                                                  *)

CitationsFrom(a, version) == {c \in citations : c.ends.citing = a /\ c.ends.version = version}
CitationsTo(file) == {c \in citations : c.ends.cited = file}

-----------------------------------------------------------------------------
(* Properties.                                                             *)

\* Whatever is retried, and whenever the graph is dropped beside it: every row
\* hangs from a graph that is there, and keys are unique, a citation's among them,
\* so that no dependent is counted twice (0005_reference_graph_and_file_index.sql).
SchemaHolds ==
    /\ \A a \in agents : a.graph_id \in GraphIds
    /\ \A e \in edges : {e.parent, e.child} \subseteq AgentIds
    /\ \A t \in tools : t.graph_id \in GraphIds
    /\ \A f \in files : f.file.agent \in AgentIds
    /\ \A c \in citations : {c.ends.citing, c.ends.cited.agent} \subseteq AgentIds
    /\ \A c, d \in citations : c.ends = d.ends => c = d
    /\ \A e, f \in edges : e.parent = f.parent /\ e.child = f.child => e = f
    /\ \A f, g \in files : f.file = g.file => f = g
    /\ \A g, h \in graphs : g.name = h.name => g = h

\* "Append-only: superseded citations are retained, never updated/deleted": for as
\* long as both agents are there, a version cites the same rows, and a file that
\* changes finds the same dependents, old pins among them.
ProvenanceIsKept ==
    [][/\ \A a \in AgentIds', v \in Sha :
             {c \in CitationsFrom(a, v) : c.ends.cited.agent \in AgentIds'} \subseteq CitationsFrom(a, v)'
       /\ \A f \in File : f.agent \in AgentIds' =>
             {c \in CitationsTo(f) : c.ends.citing \in AgentIds'} \subseteq CitationsTo(f)']_dbvars
=============================================================================
