---------------------------- MODULE MCChangelists ----------------------------
(***************************************************************************)
(* The changelists that the program fills and submits, for TLC: those of the  *)
(* user (Changelists) and the one of the shared-state files (SharedStateCL).  *)
(* They are looked at one at a time: in each behaviour one of them begins      *)
(* where nothing can happen in it any more.                                 *)
(***************************************************************************)
EXTENDS Changelists, TLC

CONSTANTS Shared, Tracks, Finalizers, Numbers, None

VARIABLES cl, entries, inFlight, track, file, mine, fin, text, disk, depot, held, change

sharedVars == <<cl, entries, inFlight, track, file, mine, fin, text, disk, depot, held, change>>

Session == INSTANCE SharedStateCL WITH Files <- Shared, Changes <- Numbers, opened <- held

ASSUME SessionAssumption == Session!SharedStateAssumption

TwoChanges == 1..2

\* Files and slots are taken from the same values as shared files and tracks, which
\* keeps the group small.
Symmetry == Permutations(Files) \cup Permutations(Slots)

\* The submit of another program leaves nothing to do.
NothingToChange ==
  /\ opened = [f \in Files |-> NotOpen] /\ edited = {}
  /\ status = [c \in Changes |-> "submitted"]
  /\ shelf = [c \in Changes |-> {}] /\ commits = shelf /\ excluded = shelf
  /\ task = [s \in Slots |-> NoTask] /\ queue = <<>> /\ tasks = MaxTasks

NothingShared ==
  /\ cl = None /\ entries = {} /\ inFlight = 0
  /\ track = [t \in Tracks |-> "done"] /\ file = [t \in Tracks |-> None]
  /\ mine = [t \in Tracks \cup Finalizers |-> None]
  /\ fin = [q \in Finalizers |-> "clean"] /\ text = [q \in Finalizers |-> {}]
  /\ disk = [f \in Shared |-> 0] /\ depot = disk /\ held = [f \in Shared |-> None]
  /\ change = [c \in Numbers |-> [status |-> "free", lists |-> {}]]

OneInit == (Init /\ NothingShared) \/ (Session!Init /\ NothingToChange)

OneNext ==
  \/ Next /\ UNCHANGED sharedVars
  \/ Session!Next /\ UNCHANGED vars

OneSpec == OneInit /\ [][OneNext]_<<vars, sharedVars>>

\* A shared-state file is opened in the one changelist that the session will
\* submit (shared_state_cl.py, SharedStateChangelist).
OneChangelist == Session!OneChangelist

\* A finalizer that submitted leaves nothing behind of what it had collected
\* (shared_state_cl.py, submit_if_dirty).
RecordedIsSubmitted == Session!RecordedIsSubmitted
==============================================================================
