----------------------------- MODULE MCSyncJob -----------------------------
(* Instances of SyncJob for TLC.                                           *)
EXTENDS SyncJob, TLC

CONSTANTS f1, f2, all, sub

\* A directory and one inside it.
Nested == (all :> {f1, f2}) @@ (sub :> {f1})

OneTarget == (all :> {f1, f2})

Symmetry == Permutations(Jobs)
==============================================================================
