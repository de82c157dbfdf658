----------------------------- MODULE FolderTree -----------------------------
(***************************************************************************)
(* What the folders of PSV promise: a tree of named folders and files, in   *)
(* which every call happens at one moment.  A path is a sequence of names   *)
(* and the empty sequence is the root.                                      *)
(***************************************************************************)
EXTENDS Sequences, SequencesExt

VARIABLES folders, files   \* the paths of the folders and of the files
CONSTANT AnyName           \* the names a folder or a file may have

Init ==
    /\ folders = {<<>>}
    /\ files = {}

\* A path appears under a folder that is there.
IsNew(p) == p # <<>> /\ Front(p) \in folders /\ Last(p) \in AnyName

MakeFolder ==
    \E p \in folders' \ folders :
       /\ IsNew(p)
       /\ folders' = folders \cup {p}
       /\ files' = files

MakeFile ==
    \E p \in files' \ files :
       /\ IsNew(p)
       /\ files' = files \cup {p}
       /\ folders' = folders

\* A folder goes, and with it all that is below it and nothing else: a file
\* may have the path of a folder, and stays.  The root never goes.
RemoveFolder ==
    \E p \in folders \ folders' :
       /\ p # <<>>
       /\ folders' = {q \in folders : ~IsPrefix(p, q)}
       /\ files' = {q \in files : ~IsStrictPrefix(p, q)}

RemoveFile ==
    \E p \in files \ files' :
       /\ files' = files \ {p}
       /\ folders' = folders

Next == MakeFolder \/ MakeFile \/ RemoveFolder \/ RemoveFile

Spec == Init /\ [][Next]_<<folders, files>>
=============================================================================
