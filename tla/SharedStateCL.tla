---------------------------- MODULE SharedStateCL ----------------------------
(***************************************************************************)
(* The numbered changelist that collects the shared-state files of a         *)
(* session: p4v_tui/shared_state_cl.py, and its callers in p4v_tui/app.py.   *)
(*                                                                         *)
(* The UI thread writes a file and schedules a worker that tracks it; when   *)
(* the application ends, the thread of action_quit and, as a fallback,       *)
(* on_unmount finalize the changelist, possibly at the same time.  Each p4    *)
(* command is an action of its own between the critical sections of _lock,   *)
(* except the creation of the changelist, which happens inside one.          *)
(***************************************************************************)
EXTENDS Naturals

CONSTANTS
  Files,      \* the shared-state files
  Tracks,     \* the workers that track() one write each
  Finalizers, \* the threads that call _submit_shared_state_cl_on_exit
  Changes,    \* the changelist numbers the server may hand out
  None

\* Of the constants.
SharedStateAssumption == None \notin Changes /\ Tracks \cap Finalizers = {}

VARIABLES
  cl,        \* _cl
  entries,   \* the files recorded in _entries
  inFlight,  \* _in_flight
  track,     \* track[t]: where the worker t is
  file,      \* file[t]: the file it tracks
  mine,      \* mine[t]: the changelist t or finalizer t works on
  fin,       \* fin[q]: where the finalizer q is
  text,      \* text[q]: the files in the description q has built
  disk,      \* disk[f]: the version of f in the workspace
  depot,     \* depot[f]: the version of f that was submitted last
  opened,    \* opened[f]: the changelist f is opened in
  change     \* change[c]: the state of changelist c and what it lists

client  == <<cl, entries, inFlight>>
workers == <<track, file>>
quits   == <<fin, text>>
files   == <<disk, depot, opened>>
vars    == <<client, workers, quits, files, mine, change>>

TrackPC == {"unused", "scheduled", "begun", "reconcile", "record", "leave", "done"}
FinPC   == {"running", "waiting", "collect", "describe", "submit", "clear",
            "skipped", "clean", "failed", "submitted"}
Ended   == {"skipped", "clean", "failed", "submitted"}
Change  == [status : {"free", "pending", "submitted"}, lists : SUBSET Files]

TypeOK ==
  /\ cl \in Changes \cup {None}
  /\ entries \in SUBSET Files
  /\ inFlight \in Nat
  /\ track \in [Tracks -> TrackPC] /\ file \in [Tracks -> Files]
  /\ mine \in [Tracks \cup Finalizers -> Changes \cup {None}]
  /\ fin \in [Finalizers -> FinPC] /\ text \in [Finalizers -> SUBSET Files]
  /\ disk \in [Files -> Nat] /\ depot \in [Files -> Nat]
  /\ opened \in [Files -> Changes \cup {None}]
  /\ change \in [Changes -> Change]

Init ==
  /\ cl = None /\ entries = {} /\ inFlight = 0
  /\ track = [t \in Tracks |-> "unused"]
  /\ file \in [Tracks -> Files]
  /\ mine = [t \in Tracks \cup Finalizers |-> None]
  /\ fin = [q \in Finalizers |-> "running"]
  /\ text = [q \in Finalizers |-> {}]
  /\ disk = [f \in Files |-> 0] /\ depot = [f \in Files |-> 0]
  /\ opened = [f \in Files |-> None]
  /\ change = [c \in Changes |-> [status |-> "free", lists |-> {}]]

-----------------------------------------------------------------------------
(* The commands of the p4 server that are used.                            *)

Free == {c \in Changes : change[c].status = "free"}

\* change -i: a new, empty changelist.
Create(c) ==
  /\ c \in Free
  /\ change' = [change EXCEPT ![c].status = "pending"]

\* reconcile -c finds a file that differs from the depot and is not opened.
Opens(f) == disk[f] # depot[f] /\ opened[f] = None

\* submit -c: everything that is opened in c, as it is on the disk.
SubmitChange(c) ==
  /\ change[c].status = "pending"
  /\ change' = [change EXCEPT ![c].status = "submitted"]
  /\ depot' = [f \in Files |-> IF opened[f] = c THEN disk[f] ELSE depot[f]]
  /\ opened' = [f \in Files |-> IF opened[f] = c THEN None ELSE opened[f]]

-----------------------------------------------------------------------------
(* track().                                                                *)

At(t, l)   == track[t] = l
Goto(t, l) == track' = [track EXCEPT ![t] = l]

\* The registry or the bookmark store saves a file and schedules a worker.
\* The quit modal and the end of the UI leave no way to do so.
Write(t) ==
  /\ At(t, "unused") /\ \A q \in Finalizers : fin[q] = "running"
  /\ disk' = [disk EXCEPT ![file[t]] = @ + 1]
  /\ Goto(t, "scheduled")
  /\ UNCHANGED <<client, quits, mine, change, file, depot, opened>>

\* Mutant of Entered: a worker is not counted when it enters.
NotCounted == inFlight

Entered == inFlight + 1

Begin(t) ==
  /\ At(t, "scheduled")
  /\ inFlight' = Entered
  /\ Goto(t, "begun")
  /\ UNCHANGED <<quits, files, mine, change, cl, entries, file>>

\* Mutant of HasCL: every worker makes a changelist of its own.
NeverHasCL == FALSE

HasCL == cl # None

\* _ensure_cl_locked: the changelist is created with _lock held.
EnsureCL(t) ==
  /\ At(t, "begun")
  /\ IF HasCL THEN mine' = [mine EXCEPT ![t] = cl] /\ UNCHANGED <<cl, change>>
     ELSE \E c \in Changes : Create(c) /\ cl' = c /\ mine' = [mine EXCEPT ![t] = c]
  /\ Goto(t, "reconcile")
  /\ UNCHANGED <<quits, files, entries, inFlight, file>>

\* create_changelist raises; the changelist may have been created.
EnsureCLFails(t) ==
  /\ At(t, "begun") /\ ~HasCL
  /\ UNCHANGED change \/ \E c \in Changes : Create(c)
  /\ Goto(t, "leave")
  /\ UNCHANGED <<client, quits, files, mine, file>>

Reconcile(t) ==
  /\ At(t, "reconcile") /\ change[mine[t]].status = "pending"
  /\ IF Opens(file[t])
     THEN Goto(t, "record") /\ opened' = [opened EXCEPT ![file[t]] = mine[t]]
     ELSE Goto(t, "leave") /\ UNCHANGED opened
  /\ UNCHANGED <<client, quits, mine, change, file, disk, depot>>

\* reconcile raises: its changelist was submitted, or the server is away.  It
\* may have been executed.
ReconcileFails(t) ==
  /\ At(t, "reconcile")
  /\ \/ UNCHANGED opened
     \/ /\ change[mine[t]].status = "pending" /\ Opens(file[t])
        /\ opened' = [opened EXCEPT ![file[t]] = mine[t]]
  /\ Goto(t, "leave")
  /\ UNCHANGED <<client, quits, mine, change, file, disk, depot>>

Record(t) ==
  /\ At(t, "record")
  /\ entries' = entries \cup {file[t]}
  /\ Goto(t, "leave")
  /\ UNCHANGED <<quits, files, mine, change, cl, inFlight, file>>

Leave(t) ==
  /\ At(t, "leave")
  /\ inFlight' = inFlight - 1
  /\ Goto(t, "done")
  /\ UNCHANGED <<quits, files, mine, change, cl, entries, file>>

Track(t) ==
  \/ Begin(t) \/ EnsureCL(t) \/ EnsureCLFails(t)
  \/ Reconcile(t) \/ ReconcileFails(t) \/ Record(t) \/ Leave(t)

-----------------------------------------------------------------------------
(* _submit_shared_state_cl_on_exit.                                        *)

InFin(q, l)   == fin[q] = l
GotoFin(q, l) == fin' = [fin EXCEPT ![q] = l]

\* has_changes() decides before wait_idle().
HasChanges(q) ==
  /\ InFin(q, "running")
  /\ GotoFin(q, IF entries = {} THEN "skipped" ELSE "waiting")
  /\ UNCHANGED <<client, workers, files, mine, change, text>>

\* wait_idle returns because nothing is in flight, or after its time-out.
WaitIdle(q) ==
  /\ InFin(q, "waiting")
  /\ GotoFin(q, "collect")
  /\ UNCHANGED <<client, workers, files, mine, change, text>>

Dirty == cl # None /\ entries # {}

\* submit_if_dirty: the changelist and the description are taken.
Collect(q) ==
  /\ InFin(q, "collect")
  /\ IF Dirty THEN /\ GotoFin(q, "describe")
                   /\ mine' = [mine EXCEPT ![q] = cl]
                   /\ text' = [text EXCEPT ![q] = entries]
     ELSE GotoFin(q, "clean") /\ UNCHANGED <<mine, text>>
  /\ UNCHANGED <<client, workers, files, change>>

\* The description is updated, or that fails and it stays what it was.
Describe(q) ==
  /\ InFin(q, "describe")
  /\ \/ UNCHANGED change
     \/ /\ change[mine[q]].status = "pending"
        /\ change' = [change EXCEPT ![mine[q]].lists = text[q]]
  /\ GotoFin(q, "submit")
  /\ UNCHANGED <<client, workers, files, mine, text>>

Submit(q) ==
  /\ InFin(q, "submit")
  /\ SubmitChange(mine[q])
  /\ GotoFin(q, "clear")
  /\ UNCHANGED <<client, workers, mine, disk, text>>

\* submit raises: the other finalizer was faster, or the server is away.  It
\* may have been executed.
SubmitFails(q) ==
  /\ InFin(q, "submit")
  /\ SubmitChange(mine[q]) \/ UNCHANGED <<depot, opened, change>>
  /\ GotoFin(q, "failed")
  /\ UNCHANGED <<client, workers, mine, disk, text>>

Clear(q) ==
  /\ InFin(q, "clear")
  /\ cl' = None
  /\ entries' = {}
  /\ GotoFin(q, "submitted")
  /\ UNCHANGED <<workers, files, mine, change, text, inFlight>>

Finalize(q) ==
  \/ HasChanges(q) \/ WaitIdle(q) \/ Collect(q) \/ Describe(q)
  \/ Submit(q) \/ SubmitFails(q) \/ Clear(q)

\* The process exits.
Exited ==
  /\ \A q \in Finalizers : fin[q] \in Ended
  /\ UNCHANGED vars

Next ==
  \/ \E t \in Tracks : Write(t) \/ Track(t)
  \/ \E q \in Finalizers : Finalize(q)
  \/ Exited

Spec == Init /\ [][Next]_vars

-----------------------------------------------------------------------------
(* Properties.                                                             *)

\* However many workers track at once, and although the changelist is
\* submitted under them, a file is opened in the one pending changelist the
\* session will submit, never in another one that nobody would.
OneChangelist == \A f \in Files : opened[f] # None => opened[f] = cl

\* A finalizer that submitted leaves nothing behind of what was recorded when
\* it collected: those files are in the depot or were written again.
RecordedIsSubmitted ==
  [][\A q \in Finalizers :
       fin[q] = "submit" /\ fin'[q] = "clear" =>
         \A f \in text[q] : depot'[f] = disk[f] /\ opened'[f] = None]_vars
==============================================================================
