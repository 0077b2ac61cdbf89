---------------------------- MODULE MCRowCommands ----------------------------
(***************************************************************************)
(* RowCommands for TLC: the numbers of the changelists can be exchanged.    *)
(***************************************************************************)
EXTENDS RowCommands, TLC

Renumbered == Permutations(Numbered)
===============================================================================
