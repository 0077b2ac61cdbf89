------------------------------- MODULE MCTrees -------------------------------
(* Instances of Trees for TLC: a folder with a file and a folder that has a  *)
(* file.                                                                    *)
EXTENDS Trees

CONSTANTS r, a, b, f, g

Few == {r, a, b, f, g}
Folders == {r, a, b}
FolderOf == [p \in {a, b, f, g} |-> CASE p = a -> r [] p \in {b, g} -> a [] p = f -> b]
Way[p \in Few] == IF p = r THEN {r} ELSE Way[FolderOf[p]] \cup {p}
WayTo == [p \in Few |-> Way[p]]
==============================================================================
