---------------------------- MODULE MCAgentFs ------------------------------
(***************************************************************************)
(* The file system of one agent: AgentFiles, whose model gives good paths, *)
(* bad ones and ones that are good for something else, with two claims of  *)
(* one slug; and RecentNotes, with one note more than the sidecar holds    *)
(* and one more than the seed shows.  RecentNotes looks closer at what the *)
(* notes and their sidecar hold, and each is run beside the other at rest. *)
(***************************************************************************)
EXTENDS AgentFiles, RecentNotes

CONSTANTS v1, v2, s1, s2, c1, c2

MCBody == (s1 :> "claim-") @@ (s2 :> "claim-")
MCSuffix == (c1 :> "01") @@ (c2 :> "02")
MCTmpName == {"x.tmp.y"}

Evidence == <<"evidence", "claim-01">>
ANote == <<"notes", "a">>
Deeper == <<"notes", "a", "b">>

Write(p, v) == [op |-> "write", path |-> p, value |-> v]
Erase(p) == [op |-> "delete", path |-> p, value |-> v1]

\* What the model tries to write or delete.
WritePaths == {
    ANote, Deeper, <<"notes", "d", "e">>, <<"notes", "x.tmp.y">>,
    <<"notes", TailName>>, <<"notes", "d", TailName>>,
    <<"notes", ParentDir, "evidence", "claim-01">>, <<"notes", ParentDir, "outputs", "output.md">>,
    <<CurDir, "notes", "a">>, <<RootDir, "notes", "a">>, <<CurDir>>, <<"notes">>, Evidence}

MCRewrites ==
    {<<Write(p, v1)>> : p \in WritePaths} \cup {<<Erase(p)>> : p \in WritePaths}
        \cup {<<Write(ANote, v2), Write(p, v1)>> : p \in WritePaths}

MCPlace == {ANote, <<"notes">>, <<CurDir>>, <<"evidence">>, Deeper, <<"outputs", ParentDir>>}

MCCitations == {<<>>, <<Evidence>>, <<<<"evidence", "claim-02">>, Evidence>>,
                <<ANote>>, <<Evidence, <<"evidence", TailName>>>>, <<<<"evidence">>>>,
                <<<<"evidence", "claim-01", "x">>>>}

NotesAtRest == host = "durable" /\ pc = "rest" /\ notes = {} /\ tail = NoTail

FsInit == Init /\ NotesInit
FsNext ==
    \/ Next /\ NotesAtRest /\ UNCHANGED notesVars
    \/ NotesNext /\ steps = 0 /\ UNCHANGED vars
FsSpec == FsInit /\ [][FsNext]_<<vars, notesVars>>
=============================================================================
