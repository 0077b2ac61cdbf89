-------------------------- MODULE ChangelistsProofs --------------------------
(***************************************************************************)
(* Proofs about the changelists.                                           *)
(*                                                                         *)
(* Changelists, for every set of files, changelists and slots.  What a submit *)
(* takes is what is opened in the changelist, so the files that were excluded *)
(* must never be opened there (OutInv); that a changelist begins empty        *)
(* (UnusedInv), and what the list of a worker may hold at each of its places   *)
(* (WellPlaced), is needed to keep it so.                                   *)
(*                                                                         *)
(* SharedStateCL, for every number of files, workers, finalizers and            *)
(* changelists.  A changelist that was once handed out is never handed out      *)
(* again (Taken), and one that is pending and in somebody's hands is the one of *)
(* the session (HandsInv): so the finalizer that is about to forget it has       *)
(* submitted it, and nothing is opened in it.                               *)
(***************************************************************************)
EXTENDS MCChangelists, TLAPS

\* What a dialog or worker holds, by the place it is at.
WellPlaced(t) ==
  /\ t \in Tasks
  /\ t.pc \in {"describe", "out", "confirm"} => t.change \in Changes
  /\ t.pc \in {"open", "move", "submit", "cleanup"} => t.target \in Changes
  /\ t.pc \in {"list", "reopen"} /\ t.kind # "move" => t.target \in Changes
  /\ t.pc = "reopen" => t.files \cap t.unchecked = {}

TaskInv == task \in [Slots -> Tasks] /\ \A s \in Slots : WellPlaced(task[s])

FilesOK  == opened \in [Files -> Homes \cup {NotOpen}] /\ edited \subseteq Files
ServerOK ==
  /\ status \in [Changes -> {"unused", "pending", "submitted", "deleted"}]
  /\ shelf \in [Changes -> SUBSET Files] /\ commits \in [Changes -> SUBSET Files]
ExcludedOK == excluded \in [Changes -> SUBSET Files]
BoundsOK   == queue \in Seq(Changes) /\ tasks \in 0..MaxTasks

UnusedInv == \A f \in Files : opened[f] \in Changes => status[opened[f]] # "unused"
OutInv    == \A f \in Files : opened[f] \in Changes => f \notin excluded[opened[f]]

FileInv == FilesOK /\ ServerOK /\ ExcludedOK /\ UnusedInv /\ OutInv

IInv == TaskInv /\ FileInv /\ BoundsOK

USE ChangelistsAssumption DEF Homes

-----------------------------------------------------------------------------
(* Tasks.                                                                  *)

LEMMA NoTaskPlaced == WellPlaced(NoTask)
BY DEF WellPlaced, NoTask, Tasks, Kinds, TaskPC

\* One slot gets another task, the others keep theirs.
LEMMA SetTask ==
  ASSUME TaskInv, NEW s \in Slots, NEW t, WellPlaced(t), task' = [task EXCEPT ![s] = t]
  PROVE  TaskInv'
BY DEF TaskInv, WellPlaced

LEMMA EndInv == ASSUME TaskInv, NEW s \in Slots, End(s) PROVE TaskInv'
BY NoTaskPlaced, SetTask DEF End

\* The worker goes on with what it has.
LEMMA GotoInv ==
  ASSUME TaskInv, NEW s \in Slots, NEW l, Goto(s, l), l \in TaskPC \ {"reopen"},
         l \in {"describe", "out", "confirm"} => task[s].change \in Changes,
         l \in {"open", "move", "submit", "cleanup", "list"} => task[s].target \in Changes
  PROVE  TaskInv'
<1> DEFINE t == [task[s] EXCEPT !.pc = l]
<1>1. task' = [task EXCEPT ![s] = t]
  BY DEF Goto
<1>2. task[s] \in Tasks
  BY DEF TaskInv
<1>3. t \in Tasks /\ t.pc = l /\ t.change = task[s].change /\ t.target = task[s].target
  BY <1>2 DEF Tasks
<1>4. WellPlaced(t)
  BY <1>3 DEF WellPlaced
<1> QED
  BY <1>1, <1>4, SetTask

\* The edits are applied to a numbered changelist.
LEMMA AppliedPlaced ==
  ASSUME NEW t \in Tasks, t.change \in Changes
  PROVE  WellPlaced(Applied(t))
<1>1. [t EXCEPT !.pc = "confirm"] \in Tasks
  BY DEF Tasks, TaskPC
<1> QED
  BY <1>1, NoTaskPlaced DEF Applied, WellPlaced, Tasks

LEMMA PromotedPlaced ==
  ASSUME NEW t \in Tasks, t.target \in Changes
  PROVE  WellPlaced(Applied(Promoted(t)))
<1>1. Promoted(t) \in Tasks /\ Promoted(t).change \in Changes
  BY DEF Promoted, Tasks
<1> QED
  BY <1>1, AppliedPlaced

\* A dialog is opened with a task that is in its place.
LEMMA OpenInv ==
  ASSUME TaskInv, NEW s \in Slots, NEW t, Open(s, t), WellPlaced(t)
  PROVE  TaskInv'
BY SetTask DEF Open

-----------------------------------------------------------------------------
(* The tasks after one step of a dialog.                                   *)

LEMMA DialogTask ==
  ASSUME TaskInv, NEW s \in Slots, Dialog(s)
  PROVE  TaskInv'
<1>0. task[s] \in Tasks /\ WellPlaced(task[s]) /\ Pending \subseteq Changes
  BY DEF TaskInv, Pending
<1>1. CASE OpenPopup(s)
  <2>1. PICK h \in Pending \cup {Default} : \E rows \in OpenedRows(h) :
               Open(s, [NoTask EXCEPT !.pc = "popup", !.change = h, !.files = rows])
    BY <1>1 DEF OpenPopup
  <2>2. PICK rows \in OpenedRows(h) :
               Open(s, [NoTask EXCEPT !.pc = "popup", !.change = h, !.files = rows])
    BY <2>1
  <2>3. WellPlaced([NoTask EXCEPT !.pc = "popup", !.change = h, !.files = rows])
    <3>1. h \in Homes /\ rows \in SUBSET Files
      BY <1>0 DEF OpenedRows, OpenedIn
    <3> QED
      BY <3>1 DEF NoTask, Tasks, Kinds, TaskPC, WellPlaced
  <2> QED
    BY <2>2, <2>3, OpenInv
<1>2. CASE PopupDone(s)
  <2> DEFINE t == task[s]
             T(k, U, d) == IF t.change = Default /\ ~d THEN NoTask
                           ELSE [t EXCEPT !.kind = k, !.unchecked = U,
                                          !.pc = IF t.change = Default THEN "create"
                                                 ELSE IF d THEN "describe" ELSE "out"]
  <2>1. PICK k \in {"submit", "save"}, U \in SUBSET t.files, d \in BOOLEAN :
               task' = [task EXCEPT ![s] = T(k, U, d)]
    BY <1>2 DEF PopupDone
  <2>2. WellPlaced(T(k, U, d))
    BY <1>0, ZenonT(40) DEF NoTask, Tasks, Kinds, TaskPC, WellPlaced
  <2> QED
    BY <2>1, <2>2, SetTask
<1>3. CASE PopupRevert(s)
  <2>1. task' = [task EXCEPT ![s] = [task[s] EXCEPT !.kind = "revert", !.pc = "ask_revert"]]
    BY <1>3, <1>0 DEF PopupRevert, TaskInv
  <2>2. WellPlaced([task[s] EXCEPT !.kind = "revert", !.pc = "ask_revert"])
    BY <1>0, ZenonT(20) DEF Tasks, Kinds, TaskPC, WellPlaced
  <2> QED
    BY <2>1, <2>2, SetTask
<1>4. CASE PopupCancel(s)
  BY <1>4, EndInv DEF PopupCancel
<1>5. CASE AskSubmit(s)
  <2>1. PICK c \in Pending :
               Open(s, [NoTask EXCEPT !.kind = "submit", !.pc = "confirm", !.change = c])
    BY <1>5 DEF AskSubmit
  <2>2. WellPlaced([NoTask EXCEPT !.kind = "submit", !.pc = "confirm", !.change = c])
    <3>1. c \in Changes
      BY <1>0
    <3> QED
      BY <3>1 DEF NoTask, Tasks, Kinds, TaskPC, WellPlaced
  <2> QED
    BY <2>1, <2>2, OpenInv
<1>6. CASE Confirm(s)
  BY <1>6, EndInv DEF Confirm
<1>7. CASE AskRevert(s)
  <2>1. PICK h \in Pending \cup {Default} :
               Open(s, [NoTask EXCEPT !.kind = "revert", !.pc = "ask_revert", !.change = h])
    BY <1>7 DEF AskRevert
  <2>2. WellPlaced([NoTask EXCEPT !.kind = "revert", !.pc = "ask_revert", !.change = h])
    <3>1. h \in Homes
      BY <1>0
    <3> QED
      BY <3>1 DEF NoTask, Tasks, Kinds, TaskPC, WellPlaced
  <2> QED
    BY <2>1, <2>2, OpenInv
<1>8. CASE ConfirmRevert(s)
  <2>1. CASE End(s)
    BY <2>1, EndInv
  <2>2. CASE ~End(s)
    <3>1. PICK rows \in OpenedRows(task[s].change) :
                 task' = [task EXCEPT ![s] =
                           IF rows = {} THEN NoTask ELSE [task[s] EXCEPT !.files = rows,
                                  !.pc = "revert"]]
      BY <1>8, <2>2 DEF ConfirmRevert
    <3>2. rows \in SUBSET Files
      BY DEF OpenedRows, OpenedIn
    <3>3. WellPlaced([task[s] EXCEPT !.files = rows, !.pc = "revert"])
      BY <1>0, <3>2 DEF Tasks, TaskPC, WellPlaced
    <3> QED
      BY <3>1, <3>3, NoTaskPlaced, SetTask
  <2> QED
    BY <2>1, <2>2
<1>9. CASE AskMove(s)
  <2>1. PICK h \in Pending \cup {Default}, g \in Pending \cup {Default} :
               Open(s, [NoTask EXCEPT !.kind = "move", !.change = h, !.target = g,
                                      !.pc = IF h = g THEN "create" ELSE "list"])
    BY <1>9 DEF AskMove
  <2>2. WellPlaced([NoTask EXCEPT !.kind = "move", !.change = h, !.target = g,
                                  !.pc = IF h = g THEN "create" ELSE "list"])
    <3>1. h \in Homes /\ g \in Homes
      BY <1>0
    <3> QED
      BY <3>1 DEF NoTask, Tasks, Kinds, TaskPC, WellPlaced
  <2> QED
    BY <2>1, <2>2, OpenInv
<1>10. CASE AskShelve(s)
  <2>1. PICK c \in Pending :
               Open(s, [NoTask EXCEPT !.kind = "shelve", !.pc = "pick", !.change = c,
                                      !.files = OpenedIn(c)])
    BY <1>10 DEF AskShelve
  <2>2. WellPlaced([NoTask EXCEPT !.kind = "shelve", !.pc = "pick", !.change = c,
                                  !.files = OpenedIn(c)])
    <3> DEFINE rows == OpenedIn(c)
    <3>1. c \in Homes /\ rows \in SUBSET Files
      BY <1>0 DEF OpenedIn
    <3> HIDE DEF rows
    <3>2. WellPlaced([NoTask EXCEPT !.kind = "shelve", !.pc = "pick", !.change = c, !.files = rows])
      BY <3>1 DEF NoTask, Tasks, Kinds, TaskPC, WellPlaced
    <3> QED
      BY <3>2 DEF rows
  <2> QED
    BY <2>1, <2>2, OpenInv
<1>11. CASE PickShelve(s)
  <2> DEFINE t == task[s]
             T(S) == IF S = {} THEN NoTask
                     ELSE [t EXCEPT !.pc = "shelve", !.files = IF S = t.files THEN {} ELSE S]
  <2>1. PICK S \in SUBSET t.files : task' = [task EXCEPT ![s] = T(S)]
    BY <1>11 DEF PickShelve
  <2>2. \A F \in SUBSET Files : WellPlaced([t EXCEPT !.pc = "shelve", !.files = F])
    BY <1>0 DEF Tasks, TaskPC, WellPlaced
  <2>3. S \in SUBSET Files
    BY <1>0 DEF Tasks
  <2>4. WellPlaced(T(S))
    BY <2>2, <2>3, NoTaskPlaced
  <2> QED
    BY <2>1, <2>4, SetTask
<1>12. CASE AskOpen(s)
  <2>1. PICK k \in {"open", "rename"}, S \in SUBSET Files :
               Open(s, [NoTask EXCEPT !.kind = k, !.pc = "create", !.files = S])
    BY <1>12 DEF AskOpen
  <2>2. WellPlaced([NoTask EXCEPT !.kind = k, !.pc = "create", !.files = S])
    BY DEF NoTask, Tasks, Kinds, TaskPC, WellPlaced
  <2> QED
    BY <2>1, <2>2, OpenInv
<1> QED
  BY <1>1, <1>2, <1>3, <1>4, <1>5, <1>6, <1>7, <1>8, <1>9, <1>10, <1>11, <1>12 DEF Dialog

-----------------------------------------------------------------------------
(* The tasks after one step of a worker.                                   *)

LEMMA WorkerTask ==
  ASSUME TaskInv, NEW s \in Slots, Worker(s)
  PROVE  TaskInv'
<1> DEFINE t == task[s]
<1>0. t \in Tasks /\ WellPlaced(t) /\ Pending \subseteq Changes
  BY DEF TaskInv, Pending
<1>1. CASE Raises(s) \/ RunRevert(s) \/ RunShelve(s) \/ SubmitRename(s) \/ Cleanup(s)
  BY <1>1, EndInv DEF Raises, RunRevert, RunShelve, SubmitRename, Cleanup
<1>2. CASE Describe(s)
  BY <1>0, <1>2, GotoInv DEF Describe, TaskPC
<1>3. CASE MoveOut(s)
  <2>1. WellPlaced(Applied(t))
    BY <1>0, <1>3, AppliedPlaced DEF MoveOut, At, WellPlaced
  <2> QED
    BY <1>3, <2>1, SetTask DEF MoveOut
<1>4. CASE Create(s)
  <2> DEFINE T(c) == [t EXCEPT !.target = c,
                               !.pc = IF t.kind \in {"open", "rename"} THEN "open" ELSE "list"]
  <2>1. PICK c \in Changes : task' = [task EXCEPT ![s] = T(c)]
    BY <1>4, ZenonT(20) DEF Create, TaskInv
  <2>2. WellPlaced(T(c))
    BY <1>0 DEF NoTask, Tasks, Kinds, TaskPC, WellPlaced
  <2> QED
    BY <2>1, <2>2, SetTask
<1>5. CASE List(s)
  <2> DEFINE T(rows) == IF Chosen(t, rows) # {} THEN [t EXCEPT !.files = Chosen(t, rows),
         !.pc = "reopen"]
                        ELSE IF t.kind = "move" THEN NoTask ELSE Applied(Promoted(t))
  <2>1. PICK rows \in OpenedRows(t.change) : task' = [task EXCEPT ![s] = T(rows)]
    BY <1>5 DEF List
  <2>2. rows \in SUBSET Files /\ t.pc = "list"
    BY <1>5 DEF List, At, OpenedRows, OpenedIn
  <2>3. Chosen(t, rows) # {} => WellPlaced([t EXCEPT !.files = Chosen(t, rows), !.pc = "reopen"])
    BY <1>0, <2>2 DEF Chosen, Tasks, Kinds, TaskPC, WellPlaced
  <2>4. t.kind # "move" => WellPlaced(Applied(Promoted(t)))
    BY <1>0, <2>2, PromotedPlaced DEF WellPlaced
  <2>5. WellPlaced(T(rows))
    BY <2>3, <2>4, NoTaskPlaced
  <2> QED
    BY <2>1, <2>5, SetTask
<1>6. CASE Reopen(s)
  <2>1. t.kind # "move" => WellPlaced(Applied(Promoted(t)))
    BY <1>0, <1>6, PromotedPlaced DEF Reopen, At, WellPlaced
  <2> QED
    BY <1>6, <2>1, NoTaskPlaced, SetTask DEF Reopen
<1>7. CASE RunOpen(s)
  <2>1. WellPlaced([t EXCEPT !.pc = "move"]) /\ WellPlaced([t EXCEPT !.pc = "cleanup"])
    BY <1>0, <1>7 DEF RunOpen, At, Tasks, TaskPC, WellPlaced
  <2> QED
    BY <1>7, <2>1, NoTaskPlaced, SetTask DEF RunOpen
<1>8. CASE RunMove(s)
  <2>1. t.target \in Changes
    BY <1>0, <1>8 DEF RunMove, At, WellPlaced
  <2> QED
    BY <1>8, <2>1, GotoInv DEF RunMove, TaskPC
<1> QED
  BY <1>1, <1>2, <1>3, <1>4, <1>5, <1>6, <1>7, <1>8 DEF Worker

-----------------------------------------------------------------------------
(* The files and the changelists.                                          *)

USE DEF files, server, Pending, OpenedIn

LEMMA UntouchedInv ==
  ASSUME FileInv, UNCHANGED <<files, server, excluded>>
  PROVE  FileInv'
BY DEF FileInv, FilesOK, ServerOK, ExcludedOK, UnusedInv, OutInv

\* The files of T are opened in h.
Put(h, T) == [f \in Files |-> IF f \in T THEN h ELSE opened[f]]

\* Files are put into a pending changelist or into default, and are not excluded
\* from it any more.
LEMMA PutInv ==
  ASSUME FileInv, NEW h \in Pending \cup {Default}, NEW S \in SUBSET Files,
         NEW T \in SUBSET S, opened' = Put(h, T),
         edited' \in SUBSET Files, Included(h, S), UNCHANGED server
  PROVE  FileInv'
<1>1. FilesOK' /\ ServerOK'
  BY DEF Put, FileInv, FilesOK, ServerOK
<1>2. UnusedInv'
  BY DEF Put, FileInv, FilesOK, ServerOK, UnusedInv
<1>3. CASE h \in Changes
  <2>1. excluded' = [excluded EXCEPT ![h] = excluded[h] \ S]
    BY <1>3 DEF Included
  <2>2. ExcludedOK'
    BY <2>1, <1>3 DEF FileInv, ExcludedOK
  <2>3. OutInv'
    <3> SUFFICES ASSUME NEW f \in Files, opened'[f] \in Changes
                 PROVE  f \notin excluded'[opened'[f]]
      BY DEF OutInv
    <3>1. CASE f \in T
      BY <3>1, <2>1, <1>3 DEF Put, FileInv, ExcludedOK
    <3>2. CASE f \notin T
      <4>1. opened'[f] = opened[f] /\ f \notin excluded[opened[f]]
        BY <3>2 DEF Put, FileInv, OutInv
      <4> QED
        BY <4>1, <2>1, <1>3 DEF FileInv, ExcludedOK
    <3> QED
      BY <3>1, <3>2
  <2> QED
    BY <1>1, <1>2, <2>2, <2>3 DEF FileInv
<1>4. CASE h = Default
  <2>1. UNCHANGED excluded
    BY <1>4 DEF Included
  <2> QED
    BY <1>1, <1>2, <1>4, <2>1 DEF Put, FileInv, ExcludedOK, OutInv
<1> QED
  BY <1>3, <1>4

\* Files are closed.
LEMMA CloseInv ==
  ASSUME FileInv, NEW S, Close(S), UNCHANGED <<server, excluded>>
  PROVE  FileInv'
BY DEF Close, FileInv, FilesOK, ServerOK, ExcludedOK, UnusedInv, OutInv

\* A changelist is submitted.
LEMMA SubmitInv ==
  ASSUME FileInv, NEW c \in Changes, Submit(c), UNCHANGED excluded
  PROVE  FileInv'
<1>1. FilesOK' /\ ServerOK' /\ ExcludedOK' /\ OutInv'
  BY DEF Submit, Close, FileInv, FilesOK, ServerOK, ExcludedOK, UnusedInv, OutInv
<1>2. UnusedInv'
  BY DEF Submit, Close, FileInv, FilesOK, ServerOK, ExcludedOK, UnusedInv, OutInv
<1> QED
  BY <1>1, <1>2 DEF FileInv

\* A changelist gets another state, and none of them is that of an unused one.
LEMMA StatusInv ==
  ASSUME FileInv, NEW c \in Changes, NEW v \in {"pending", "submitted", "deleted"},
         status' = [status EXCEPT ![c] = v], UNCHANGED <<files, shelf, commits, excluded>>
  PROVE  FileInv'
BY DEF FileInv, FilesOK, ServerOK, ExcludedOK, UnusedInv, OutInv

\* One step per action that opens, closes or moves files.
LEMMA WorkerFiles ==
  ASSUME TaskInv, FileInv, NEW s \in Slots, Worker(s)
  PROVE  FileInv'
<1> DEFINE t == task[s]
<1>0. t \in Tasks /\ WellPlaced(t)
  BY DEF TaskInv
<1>00. t.files \in SUBSET Files /\ t.unchecked \in SUBSET Files
  BY <1>0 DEF Tasks
<1>1. CASE Raises(s) \/ Describe(s) \/ List(s)
  BY <1>1, UntouchedInv DEF Raises, Describe, List
<1>2. CASE MoveOut(s)
  <2> USE <1>2 DEF MoveOut, ReopenedTo, FileInv
  <2>1. t.change \in Changes
    BY <1>0 DEF At, WellPlaced
  <2>2. FilesOK' /\ ServerOK' /\ UnusedInv'
    BY DEF FilesOK, ServerOK, UnusedInv
  <2>3. ExcludedOK'
    BY <1>00, <2>1 DEF ExcludedOK
  <2>4. OutInv'
    BY <1>00, <2>1 DEF MovesOut, OutInv, FilesOK, ExcludedOK
  <2> QED
    BY <2>2, <2>3, <2>4
<1>3. CASE Create(s)
  <2>1. PICK c \in Changes : /\ Fresh(c)
                             /\ status' = [status EXCEPT ![c] = "pending"]
                             /\ excluded' = [excluded EXCEPT ![c] = t.unchecked]
    BY <1>3 DEF Create
  <2>2. UNCHANGED <<files, shelf, commits>> /\ OpenedIn(c) = {}
    BY <1>3, <2>1 DEF Create, Fresh, FileInv, UnusedInv
  <2> QED
    BY <1>00, <2>1, <2>2 DEF FileInv, FilesOK, ServerOK, ExcludedOK, UnusedInv, OutInv
<1>4. CASE Reopen(s)
  <2> DEFINE T == {f \in t.files : opened[f] # NotOpen}
  <2>1. t.files \ t.unchecked = t.files
    BY <1>0, <1>4 DEF Reopen, At, WellPlaced
  <2>2. opened' = Put(t.target, T)
    BY <1>4 DEF Reopen, ReopenedTo, Put
  <2>3. edited' \in SUBSET Files /\ UNCHANGED server /\ Included(t.target, t.files)
        /\ t.target \in Pending \cup {Default}
    BY <1>4, <2>1 DEF Reopen, FileInv, FilesOK
  <2>4. T \in SUBSET t.files
    OBVIOUS
  <2> HIDE DEF T
  <2> QED
    BY <1>00, <2>2, <2>3, <2>4, PutInv
<1>5. CASE RunRevert(s)
  BY <1>5, CloseInv DEF RunRevert
<1>6. CASE RunShelve(s)
  <2>1. UNCHANGED <<files, status, commits, excluded>> /\ t.change \in Changes
    BY <1>6 DEF RunShelve
  <2>2. PICK S \in SUBSET Files : shelf' = [shelf EXCEPT ![t.change] = shelf[t.change] \cup S]
    BY <1>6, <1>00 DEF RunShelve, RevertedIn
  <2>3. shelf' \in [Changes -> SUBSET Files]
    BY <2>1, <2>2 DEF FileInv, ServerOK
  <2> QED
    BY <2>1, <2>3 DEF FileInv, FilesOK, ServerOK, ExcludedOK, UnusedInv, OutInv
<1>7. CASE RunOpen(s)
  <2>1. CASE UNCHANGED <<opened, excluded>>
    BY <1>7, <2>1, UntouchedInv DEF RunOpen
  <2>2. CASE ~UNCHANGED <<opened, excluded>>
    <3>1. PICK S \in {t.files, {f \in t.files : opened[f] = NotOpen}} :
                 /\ t.target \in Pending
                 /\ opened' = Put(t.target, S)
                 /\ Included(t.target, S)
      BY <1>7, <2>2 DEF RunOpen, Put
    <3>2. edited' \in SUBSET Files /\ UNCHANGED server
      BY <1>7 DEF RunOpen, FileInv, FilesOK
    <3>3. S \in SUBSET Files
      BY <1>00
    <3> QED
      BY <3>1, <3>2, <3>3, PutInv
  <2> QED
    BY <2>1, <2>2
<1>8. CASE RunMove(s)
  <2>1. CASE UNCHANGED <<opened, edited, excluded>>
    BY <1>8, <2>1, UntouchedInv DEF RunMove
  <2>2. CASE ~UNCHANGED <<opened, edited, excluded>>
    <3> DEFINE T == {f \in t.files : opened[f] # NotOpen}
    <3>1. t.target \in Pending /\ Included(t.target, t.files) /\ UNCHANGED server
      BY <1>8, <2>2 DEF RunMove
    <3>2. opened' = Put(t.target, T)
      BY <1>8, <2>2 DEF RunMove, ReopenedTo, Put
    <3>3. edited' \in SUBSET Files
      BY <1>8, <1>00, <2>2 DEF RunMove, FileInv, FilesOK
    <3>4. T \in SUBSET t.files
      OBVIOUS
    <3> HIDE DEF T
    <3> QED
      BY <1>00, <3>1, <3>2, <3>3, <3>4, PutInv
  <2> QED
    BY <2>1, <2>2
<1>9. CASE SubmitRename(s)
  <2>1. t.target \in Changes
    BY <1>0, <1>9 DEF SubmitRename, At, WellPlaced
  <2> QED
    BY <1>9, <2>1, SubmitInv, UntouchedInv DEF SubmitRename
<1>10. CASE Cleanup(s)
  <2>1. CASE t.target \in Pending /\ OpenedIn(t.target) = {} /\ shelf[t.target] = {}
    BY <1>10, <2>1, StatusInv DEF Cleanup
  <2>2. CASE ~(t.target \in Pending /\ OpenedIn(t.target) = {} /\ shelf[t.target] = {})
    <3>1. status' = status
      BY <1>10, <2>2 DEF Cleanup, FileInv, ServerOK
    <3> QED
      BY <1>10, <3>1, UntouchedInv DEF Cleanup
  <2> QED
    BY <2>1, <2>2
<1> QED
  BY <1>1, <1>2, <1>3, <1>4, <1>5, <1>6, <1>7, <1>8, <1>9, <1>10 DEF Worker

LEMMA DialogFiles ==
  ASSUME FileInv, NEW s \in Slots, Dialog(s)
  PROVE  FileInv'
BY UntouchedInv DEF Dialog, OpenPopup, PopupDone, PopupRevert, PopupCancel, AskSubmit, Confirm,
   AskRevert, ConfirmRevert, AskMove, AskShelve, PickShelve, AskOpen

-----------------------------------------------------------------------------
(* The other steps, and the invariant.                                     *)

Other ==
  \/ \E c \in Changes : RevertUnchanged(c) \/ DeleteShelf(c) \/ DeleteChange(c) \/ NewChange(c)
  \/ \E c \in Changes, h \in Homes : Unshelve(c, h)
  \/ \E f \in Files : OpenInDefault(f)
  \/ RunSubmit

LEMMA OtherInv ==
  ASSUME FileInv, BoundsOK, Other
  PROVE  FileInv' /\ UNCHANGED task
<1>1. ASSUME NEW c \in Changes, RevertUnchanged(c) \/ DeleteChange(c) \/ NewChange(c)
      PROVE  FileInv' /\ UNCHANGED task
  BY <1>1, CloseInv, StatusInv DEF RevertUnchanged, DeleteChange, NewChange
<1>2. ASSUME NEW c \in Changes, DeleteShelf(c)
      PROVE  FileInv' /\ UNCHANGED task
  BY <1>2 DEF DeleteShelf, FileInv, FilesOK, ServerOK, ExcludedOK, UnusedInv, OutInv
<1>3. ASSUME NEW c \in Changes, NEW h \in Homes, Unshelve(c, h)
      PROVE  FileInv' /\ UNCHANGED task
  <2> DEFINE S == {f \in shelf[c] : opened[f] = NotOpen}
  <2>1. S \in SUBSET Files
    BY DEF FileInv, ServerOK
  <2>2. opened' = Put(h, S) /\ Included(h, S) /\ UNCHANGED <<server, task>>
        /\ h \in Pending \cup {Default}
    BY <1>3 DEF Unshelve, Put
  <2>3. edited' \in SUBSET Files
    BY <1>3, <2>1 DEF Unshelve, FileInv, FilesOK
  <2> HIDE DEF S
  <2> QED
    BY <2>1, <2>2, <2>3, PutInv
<1>4. ASSUME NEW f \in Files, OpenInDefault(f)
      PROVE  FileInv' /\ UNCHANGED task
  BY <1>4 DEF OpenInDefault, FileInv, FilesOK, ServerOK, ExcludedOK, UnusedInv, OutInv
<1>5. CASE RunSubmit
  <2>1. Head(queue) \in Changes
    BY <1>5 DEF RunSubmit, BoundsOK
  <2> QED
    BY <1>5, <2>1, SubmitInv, UntouchedInv DEF RunSubmit
<1> QED
  BY <1>1, <1>2, <1>3, <1>4, <1>5 DEF Other

LEMMA BoundsInv ==
  ASSUME TaskInv, BoundsOK, [Next]_vars
  PROVE  BoundsOK'
<1>1. CASE UNCHANGED vars
  BY <1>1 DEF vars, BoundsOK
<1>2. ASSUME NEW s \in Slots, Worker(s)
      PROVE  BoundsOK'
  BY <1>2 DEF Worker, Raises, Describe, MoveOut, Create, List, Reopen, RunRevert, RunShelve,
         RunOpen,
     RunMove, SubmitRename, Cleanup, BoundsOK
<1>3. ASSUME NEW s \in Slots, Dialog(s)
      PROVE  BoundsOK'
  <2>1. CASE Confirm(s)
    <3>1. task[s].change \in Changes
      BY <2>1 DEF Confirm, At, TaskInv, WellPlaced
    <3> QED
      BY <2>1, <3>1 DEF Confirm, BoundsOK
  <2>2. CASE ~Confirm(s)
    <3>1. UNCHANGED queue /\ (UNCHANGED tasks \/ (tasks < MaxTasks /\ tasks' = tasks + 1))
      BY <1>3, <2>2 DEF Dialog, OpenPopup, PopupDone, PopupRevert, PopupCancel, AskSubmit,
             AskRevert,
         ConfirmRevert, AskMove, AskShelve, PickShelve, AskOpen, Open
    <3> QED
      BY <3>1 DEF BoundsOK
  <2> QED
    BY <2>1, <2>2
<1>4. CASE Other
  <2>1. CASE RunSubmit
    BY <2>1 DEF RunSubmit, BoundsOK
  <2>2. CASE ~RunSubmit
    <3>1. UNCHANGED queue /\ (UNCHANGED tasks \/ (tasks < MaxTasks /\ tasks' = tasks + 1))
      BY <1>4, <2>2 DEF Other, RevertUnchanged, DeleteShelf, DeleteChange, NewChange, Unshelve,
         OpenInDefault
    <3> QED
      BY <3>1 DEF BoundsOK
  <2> QED
    BY <2>1, <2>2
<1> QED
  BY <1>1, <1>2, <1>3, <1>4 DEF Next, Other

LEMMA InitInv == ASSUME Init PROVE IInv
<1>1. 1 \in Changes \/ \A f \in Files : opened[f] \notin Changes
  BY DEF Init
<1>2. TaskInv
  BY NoTaskPlaced DEF Init, TaskInv, NoTask, Tasks, Kinds, TaskPC
<1>3. FileInv
  BY <1>1 DEF Init, FileInv, FilesOK, ServerOK, ExcludedOK, UnusedInv, OutInv
<1> QED
  BY <1>2, <1>3 DEF Init, IInv, BoundsOK

LEMMA NextInv == ASSUME IInv, [Next]_vars PROVE IInv'
<1>1. BoundsOK'
  BY BoundsInv DEF IInv
<1>2. CASE UNCHANGED vars
  BY <1>1, <1>2, UntouchedInv DEF vars, IInv, TaskInv
<1>3. ASSUME NEW s \in Slots, Worker(s)
      PROVE  IInv'
  BY <1>1, <1>3, WorkerTask, WorkerFiles DEF IInv
<1>4. ASSUME NEW s \in Slots, Dialog(s)
      PROVE  IInv'
  BY <1>1, <1>4, DialogTask, DialogFiles DEF IInv
<1>5. CASE Other
  BY <1>1, <1>5, OtherInv DEF IInv, TaskInv
<1> QED
  BY <1>2, <1>3, <1>4, <1>5 DEF Next, Other

LEMMA Invariance == Spec => []IInv
<1>1. Init => IInv
  BY InitInv
<1>2. IInv /\ [Next]_vars => IInv'
  BY NextInv
<1> QED
  BY <1>1, <1>2, PTL DEF Spec

\* The types, and that the default changelist is never queued for submit, for
\* all files, changelists and dialogs at a time.
THEOREM TypeCorrect == Spec => []TypeOK
<1>1. IInv => TypeOK
  BY DEF IInv, TaskInv, FileInv, FilesOK, ServerOK, ExcludedOK, BoundsOK, WellPlaced, TypeOK
<1> QED
  BY <1>1, Invariance, PTL

\* What the user unchecked in the popup is not submitted with the changelist.
THEOREM Unchecked == Spec => UncheckedStayOut
<1>1. ASSUME NEW c \in Changes, IInv, [Next]_vars, commits[c] # commits'[c]
      PROVE  commits'[c] \cap excluded[c] = {}
  <2>1. PICK d \in Changes : Submit(d)
    <3>1. ASSUME NEW s \in Slots, Worker(s)
          PROVE  \E d \in Changes : Submit(d)
      <4>1. SubmitRename(s)
        BY <1>1, <3>1 DEF Worker, Raises, Describe, MoveOut, Create, List, Reopen, RunRevert,
               RunShelve,
           RunOpen, RunMove, SubmitRename, Cleanup
      <4>2. task[s].target \in Changes
        BY <1>1, <4>1 DEF SubmitRename, At, IInv, TaskInv, WellPlaced
      <4> QED
        BY <1>1, <4>1, <4>2 DEF SubmitRename
    <3>2. ASSUME NEW s \in Slots
          PROVE  ~Dialog(s)
      BY <1>1 DEF Dialog, OpenPopup, PopupDone, PopupRevert, PopupCancel, AskSubmit, Confirm,
         AskRevert, ConfirmRevert, AskMove, AskShelve, PickShelve, AskOpen
    <3>3. CASE Other
      <4>1. RunSubmit
        BY <1>1, <3>3 DEF Other, RevertUnchanged, DeleteShelf, DeleteChange, NewChange, Unshelve,
           OpenInDefault
      <4>2. Head(queue) \in Changes
        BY <1>1, <4>1 DEF RunSubmit, IInv, BoundsOK
      <4> QED
        BY <1>1, <4>1, <4>2 DEF RunSubmit
    <3> QED
      BY <1>1, <3>1, <3>2, <3>3 DEF Next, Other, vars
  <2>2. commits' = [commits EXCEPT ![d] = OpenedIn(d)]
    BY <2>1 DEF Submit
  <2>3. commits'[c] = OpenedIn(c)
    BY <1>1, <2>2 DEF IInv, FileInv, ServerOK
  <2> QED
    BY <1>1, <2>3 DEF IInv, FileInv, OutInv
<1>2. IInv /\ [Next]_vars =>
        [\A c \in Changes : commits[c] # commits'[c] => commits'[c] \cap excluded[c] = {}]_vars
  BY <1>1
<1> QED
  BY <1>2, Invariance, PTL DEF Spec, UncheckedStayOut

\* A worker that reverts a changelist leaves alone what was moved out of it.
THEOREM Spared == Spec => RevertSparesMoved
<1>1. ASSUME NEW s \in Slots, NEW f \in Files, IInv, [Next]_vars,
             At(s, "revert"), task'[s].pc # "revert", opened'[f] = NotOpen
      PROVE  opened[f] \in {NotOpen, task[s].change}
  <2>0. task' # task
    BY <1>1 DEF At
  <2>1. ASSUME NEW z \in Slots, Worker(z)
        PROVE  opened[f] \in {NotOpen, task[s].change}
    <3>1. CASE z = s
      <4>1. Raises(s) \/ RunRevert(s)
        BY <1>1, <2>1, <3>1 DEF Worker, At, Describe, MoveOut, Create, List, Reopen, RunShelve,
               RunOpen,
           RunMove, SubmitRename, Cleanup
      <4> QED
        BY <1>1, <4>1 DEF Raises, RunRevert, Close, Reverted, RevertedIn
    <3>2. CASE z # s
      <4>1. task'[s] = task[s]
        BY <1>1, <2>1, <3>2 DEF Worker, Raises, Describe, MoveOut, Create, List, Reopen, RunRevert,
           RunShelve, RunOpen, RunMove, SubmitRename, Cleanup, End, Goto, IInv, TaskInv
      <4> QED
        BY <1>1, <4>1 DEF At
    <3> QED
      BY <3>1, <3>2
  <2>2. ASSUME NEW z \in Slots, Dialog(z)
        PROVE  UNCHANGED opened
    BY <2>2 DEF Dialog, OpenPopup, PopupDone, PopupRevert, PopupCancel, AskSubmit, Confirm,
       AskRevert, ConfirmRevert, AskMove, AskShelve, PickShelve, AskOpen
  <2>3. CASE Other
    BY <1>1, <2>0, <2>3, OtherInv DEF IInv
  <2> QED
    BY <1>1, <2>0, <2>1, <2>2, <2>3 DEF Next, Other, vars
<1>2. IInv /\ [Next]_vars =>
        [\A s \in Slots : At(s, "revert") /\ task'[s].pc # "revert" =>
           \A f \in Files : opened'[f] = NotOpen => opened[f] \in {NotOpen, task[s].change}]_vars
  BY <1>1
<1> QED
  BY <1>2, Invariance, PTL DEF Spec, RevertSparesMoved

-----------------------------------------------------------------------------
(* The changelist of the shared-state files: its invariant.                 *)

\* The types that the proofs need; that inFlight does not go below zero is not
\* among them.
Typed ==
  /\ cl \in Numbers \cup {None} /\ entries \in SUBSET Shared
  /\ track \in [Tracks -> Session!TrackPC] /\ file \in [Tracks -> Shared]
  /\ mine \in [Tracks \cup Finalizers -> Numbers \cup {None}]
  /\ fin \in [Finalizers -> Session!FinPC] /\ text \in [Finalizers -> SUBSET Shared]
  /\ disk \in [Shared -> Nat] /\ depot \in [Shared -> Nat]
  /\ held \in [Shared -> Numbers \cup {None}]
  /\ change \in [Numbers -> Session!Change]

Live(c) == c \in Numbers /\ change[c].status = "pending"
Taken(c)   == c \in Numbers /\ change[c].status # "free"

\* Workers and finalizers that hold a changelist.
HoldingTracks == {t \in Tracks : track[t] = "reconcile"}
HoldingFins   == {q \in Finalizers : fin[q] \in {"describe", "submit", "clear"}}
Hands         == HoldingTracks \cup HoldingFins

HandsInv ==
  /\ cl # None => Taken(cl)
  /\ \A h \in Hands : Taken(mine[h]) /\ (Live(mine[h]) => mine[h] = cl)
  /\ \A q \in Finalizers : fin[q] = "clear" => mine[q] = cl /\ ~Live(cl)
  /\ \A p, q \in Finalizers : fin[p] = "clear" /\ fin[q] = "clear" => p = q

\* What is opened is opened in the changelist of the session, while that is pending.
HeldInv == \A f \in Shared : held[f] # None => held[f] = cl /\ Live(cl)

Quitting == \E q \in Finalizers : fin[q] # "running"

\* f will go with the next submit, or has gone, and is not written any more.
Safe(f) == held[f] # None \/ (depot[f] = disk[f] /\ Quitting)

RecordInv ==
  /\ \A f \in entries : Safe(f)
  /\ \A t \in Tracks : track[t] = "record" => Safe(file[t])
  /\ \A q \in Finalizers : fin[q] \in {"describe", "submit"} => \A f \in text[q] : Safe(f)

SharedInv == Session!SharedStateAssumption /\ Typed /\ HandsInv /\ HeldInv /\ RecordInv

-----------------------------------------------------------------------------
(* Each part of it is kept by each action.                                 *)

HIDE ChangelistsAssumption DEF Homes, files, server, Pending, OpenedIn
USE DEF Session!At, Session!Goto, Session!InFin, Session!GotoFin, Session!client,
        Session!workers, Session!quits, Session!files

LEMMA StatusTyped ==
  ASSUME change \in [Numbers -> Session!Change], NEW c \in Numbers,
         NEW s \in {"free", "pending", "submitted"}
  PROVE  [change EXCEPT ![c].status = s] \in [Numbers -> Session!Change]
<1>1. change[c] \in Session!Change
  OBVIOUS
<1>2. [change[c] EXCEPT !.status = s] \in Session!Change
  BY <1>1 DEF Session!Change
<1> QED
  BY <1>2

LEMMA SharedInit == ASSUME Session!SharedStateAssumption, Session!Init PROVE SharedInv
<1>1. Typed
  BY DEF Session!Init, Typed, Session!TrackPC, Session!FinPC, Session!Change
<1>2. HandsInv /\ HeldInv /\ RecordInv
  BY DEF Session!Init, HandsInv, Hands, HoldingTracks, HoldingFins, HeldInv, RecordInv
<1> QED
  BY <1>1, <1>2 DEF SharedInv

LEMMA WriteInv == ASSUME SharedInv, NEW t \in Tracks, Session!Write(t) PROVE SharedInv'
<1>1. Typed'
  BY DEF Session!Write, Typed, SharedInv, Session!TrackPC
<1>2. HandsInv' /\ HeldInv'
  BY DEF Session!Write, HandsInv, Hands, HoldingTracks, HoldingFins, HeldInv, SharedInv,
         Taken, Live, Typed
<1>3. \A f \in Shared : Safe(f) => Safe(f)'
  BY DEF Session!Write, Safe, Quitting
<1>4. RecordInv'
  BY <1>3 DEF Session!Write, RecordInv, SharedInv, Typed
<1> QED
  BY <1>1, <1>2, <1>4 DEF SharedInv

LEMMA BeginInv == ASSUME SharedInv, NEW t \in Tracks, Session!Begin(t) PROVE SharedInv'
<1>1. Typed'
  BY DEF Session!Begin, Typed, SharedInv, Session!TrackPC
<1>2. HandsInv' /\ HeldInv' /\ RecordInv'
  BY DEF Session!Begin, HandsInv, Hands, HoldingTracks, HoldingFins, HeldInv, SharedInv, Taken,
         Live, Typed,
         RecordInv, Safe, Quitting
<1> QED
  BY <1>1, <1>2 DEF SharedInv

\* The changelist that is created is nobody's.
LEMMA EnsureInv == ASSUME SharedInv, NEW t \in Tracks, Session!EnsureCL(t) PROVE SharedInv'
<1>1. Typed'
  <2>1. change' \in [Numbers -> Session!Change]
    BY StatusTyped, ZenonT(40) DEF Session!EnsureCL, Session!Create, SharedInv, Typed
  <2>2. cl' \in Numbers \cup {None} /\ mine' \in [Tracks \cup Finalizers -> Numbers \cup {None}]
    BY DEF Session!EnsureCL, SharedInv, Typed
  <2> QED
    BY <2>1, <2>2 DEF Session!EnsureCL, Typed, SharedInv, Session!TrackPC
<1>2. RecordInv'
  BY DEF Session!EnsureCL, RecordInv, SharedInv, Typed, Safe, Quitting
<1>3. CASE Session!HasCL
  <2>1. mine' = [mine EXCEPT ![t] = cl] /\ UNCHANGED <<cl, change, fin, held>> /\ cl # None
    BY <1>3 DEF Session!EnsureCL, Session!HasCL
  <2>2. track' = [track EXCEPT ![t] = "reconcile"]
    BY DEF Session!EnsureCL
  <2>3. HandsInv'
    BY <2>1, <2>2 DEF HandsInv, Hands, HoldingTracks, HoldingFins, SharedInv, Taken, Live, Typed,
                      Session!SharedStateAssumption
  <2> QED
    BY <1>1, <1>2, <2>1, <2>3 DEF SharedInv, HeldInv, Live
<1>4. CASE ~Session!HasCL
  <2>1. PICK c \in Numbers : Session!Create(c) /\ cl' = c /\ mine' = [mine EXCEPT ![t] = c]
    BY <1>4 DEF Session!EnsureCL
  <2>2. cl = None /\ UNCHANGED <<fin, held>> /\ track' = [track EXCEPT ![t] = "reconcile"]
    BY <1>4 DEF Session!EnsureCL, Session!HasCL
  <2>3. /\ ~Taken(c) /\ Live(c)' /\ Taken(c)'
        /\ \A d \in Numbers \ {c} : (Live(d)' <=> Live(d)) /\ (Taken(d)' <=> Taken(d))
    BY <2>1 DEF Session!Create, Session!Free, Taken, Live, SharedInv, Typed, Session!Change
  <2>4. \A h \in Hands : Taken(mine[h]) /\ mine[h] # c /\ ~Live(mine[h])
    BY <2>2, <2>3 DEF SharedInv, HandsInv, Live, Session!SharedStateAssumption
  <2>5. \A q \in Finalizers : fin[q] # "clear"
    BY <2>2, <2>4 DEF SharedInv, HandsInv, Hands, HoldingFins, Taken, Session!SharedStateAssumption
  <2>6. \A h \in Hands' : h = t \/ (h \in Hands /\ mine'[h] = mine[h] /\ mine[h] \in Numbers)
    BY <2>1, <2>2, <2>4 DEF Hands, HoldingTracks, HoldingFins, SharedInv, Typed, Taken
  <2>7. mine'[t] = c
    BY <2>1 DEF SharedInv, Typed
  <2>8. HandsInv'
    BY <2>1, <2>2, <2>3, <2>4, <2>5, <2>6, <2>7 DEF HandsInv
  <2>9. HeldInv'
    BY <2>2 DEF HeldInv, SharedInv, Live, Session!SharedStateAssumption
  <2> QED
    BY <1>1, <1>2, <2>8, <2>9 DEF SharedInv
<1> QED
  BY <1>3, <1>4

LEMMA EnsureFailsInv == ASSUME SharedInv, NEW t \in Tracks,
       Session!EnsureCLFails(t) PROVE SharedInv'
<1>1. Typed'
  BY DEF Session!EnsureCLFails, Session!Create, Session!Free, Session!Change, Typed, SharedInv,
         Session!TrackPC
<1>2. RecordInv'
  BY DEF Session!EnsureCLFails, RecordInv, SharedInv, Typed, Safe, Quitting
<1>3. \A d : Taken(d) => Taken(d)' /\ (Live(d)' <=> Live(d))
  BY DEF Session!EnsureCLFails, Session!Create, Session!Free, Taken, Live, SharedInv, Typed,
         Session!Change
<1>4. Hands' = Hands /\ UNCHANGED <<cl, mine, fin, held>>
  BY DEF Session!EnsureCLFails, Hands, HoldingTracks, HoldingFins, SharedInv, Typed
<1>5. \A q \in Finalizers : fin[q] = "clear" => q \in Hands
  BY DEF Hands, HoldingFins
<1>6. HandsInv'
  BY <1>3, <1>4, <1>5 DEF HandsInv, SharedInv
<1>7. HeldInv'
  BY <1>3, <1>4 DEF HeldInv, SharedInv, Taken, Live, Typed
<1> QED
  BY <1>1, <1>2, <1>6, <1>7 DEF SharedInv

\* A file is opened in a changelist that is pending, and so is the session's.
LEMMA ReconcileInv ==
  ASSUME SharedInv, NEW t \in Tracks,
         Session!Reconcile(t) \/ Session!ReconcileFails(t) PROVE SharedInv'
<1>1. Typed'
  BY DEF Session!Reconcile, Session!ReconcileFails, Typed, SharedInv, Session!TrackPC
<1>2. UNCHANGED <<cl, mine, fin, change, entries, file, text, disk,
       depot>> /\ track[t] = "reconcile"
      /\ track' \in {[track EXCEPT ![t] = "record"], [track EXCEPT ![t] = "leave"]}
      /\ \/ UNCHANGED held
         \/ /\ change[mine[t]].status = "pending"
            /\ held' = [held EXCEPT ![file[t]] = mine[t]]
  BY DEF Session!Reconcile, Session!ReconcileFails
<1>3. Taken(mine[t]) /\ mine[t] \in Numbers /\ (Live(mine[t]) => mine[t] = cl)
  BY <1>2 DEF SharedInv, HandsInv, Hands, HoldingTracks, Taken
<1>4. HandsInv'
  BY <1>2 DEF HandsInv, Hands, HoldingTracks, HoldingFins, SharedInv, Taken, Live, Typed
<1>5. HeldInv'
  BY <1>2, <1>3 DEF HeldInv, SharedInv, Live, Typed
<1>6. \A f \in Shared : Safe(f) => Safe(f)'
  BY <1>2, <1>3 DEF Safe, Quitting, SharedInv, Typed, Session!SharedStateAssumption
<1>7. track'[t] = "record" => Safe(file[t])'
  BY <1>3 DEF Session!Reconcile, Session!ReconcileFails, Safe, SharedInv, Typed,
         Session!SharedStateAssumption
<1>8. RecordInv'
  BY <1>2, <1>6, <1>7 DEF RecordInv, SharedInv, Typed
<1> QED
  BY <1>1, <1>4, <1>5, <1>8 DEF SharedInv

LEMMA RecordLeaveInv == ASSUME SharedInv, NEW t \in Tracks,
       Session!Record(t) \/ Session!Leave(t) PROVE SharedInv'
<1>1. Typed'
  BY DEF Session!Record, Session!Leave, Typed, SharedInv, Session!TrackPC
<1>2. UNCHANGED <<cl, mine, fin, change, held, file, text, disk, depot>>
  BY DEF Session!Record, Session!Leave
<1>3. HandsInv' /\ HeldInv'
  BY <1>2 DEF Session!Record, Session!Leave, HandsInv, Hands, HoldingTracks, HoldingFins, HeldInv,
         SharedInv, Taken, Live,
              Typed
<1>4. RecordInv'
  BY <1>2 DEF Session!Record, Session!Leave, RecordInv, SharedInv, Typed, Safe, Quitting
<1> QED
  BY <1>1, <1>3, <1>4 DEF SharedInv

-----------------------------------------------------------------------------
(* The finalizers of the session.                                          *)

LEMMA WaitInv == ASSUME SharedInv, NEW q \in Finalizers,
       Session!HasChanges(q) \/ Session!WaitIdle(q) PROVE SharedInv'
<1>1. Typed'
  BY DEF Session!HasChanges, Session!WaitIdle, Typed, SharedInv, Session!FinPC
<1>2. HandsInv' /\ HeldInv'
  BY DEF Session!HasChanges, Session!WaitIdle, HandsInv, Hands, HoldingTracks, HoldingFins,
         HeldInv, SharedInv, Taken,
         Live, Typed
<1>3. RecordInv'
  BY DEF Session!HasChanges, Session!WaitIdle, RecordInv, SharedInv, Typed, Safe, Quitting
<1> QED
  BY <1>1, <1>2, <1>3 DEF SharedInv

LEMMA CollectInv == ASSUME SharedInv, NEW q \in Finalizers, Session!Collect(q) PROVE SharedInv'
<1>1. Typed'
  BY DEF Session!Collect, Session!Dirty, Typed, SharedInv, Session!FinPC
<1>2. HandsInv'
  BY DEF Session!Collect, Session!Dirty, HandsInv, Hands, HoldingTracks, HoldingFins, SharedInv,
         Taken,
         Live, Typed, Session!SharedStateAssumption
<1>3. HeldInv'
  BY DEF Session!Collect, HeldInv, SharedInv, Live
<1>4. RecordInv'
  BY DEF Session!Collect, Session!Dirty, RecordInv, SharedInv, Typed, Safe, Quitting
<1> QED
  BY <1>1, <1>2, <1>3, <1>4 DEF SharedInv

LEMMA DescribeInv == ASSUME SharedInv, NEW q \in Finalizers, Session!Describe(q) PROVE SharedInv'
<1>1. Typed'
  BY SMTT(20) DEF Session!Describe, Typed, SharedInv, Session!FinPC, Session!Change
<1>2. \A d : (Taken(d)' <=> Taken(d)) /\ (Live(d)' <=> Live(d))
  BY DEF Session!Describe, Taken, Live, SharedInv, Typed, Session!Change
<1>3. HandsInv'
  BY <1>2 DEF Session!Describe, HandsInv, Hands, HoldingTracks, HoldingFins, SharedInv, Typed
<1>4. HeldInv'
  BY <1>2 DEF Session!Describe, HeldInv, SharedInv
<1>5. RecordInv'
  BY DEF Session!Describe, RecordInv, SharedInv, Typed, Safe, Quitting
<1> QED
  BY <1>1, <1>3, <1>4, <1>5 DEF SharedInv

\* What a submit leaves: nothing is opened, and the changelist is not pending.
LEMMA SubmitEmpties ==
  ASSUME SharedInv, NEW q \in Finalizers, fin[q] = "submit", Session!SubmitChange(mine[q])
  PROVE  /\ mine[q] = cl /\ Live(cl)
         /\ \A d : (Taken(d)' <=> Taken(d)) /\ (Live(d)' => Live(d) /\ d # mine[q])
         /\ \A f \in Shared : held'[f] = None
         /\ \A f \in Shared : held[f] # None => depot'[f] = disk[f]
         /\ \A f \in Shared : held[f] = None => depot'[f] = depot[f]
         /\ \A p \in Finalizers : fin[p] # "clear"
<1>1. Taken(mine[q]) /\ Live(mine[q]) /\ mine[q] = cl
  BY DEF SharedInv, HandsInv, Hands, HoldingFins, Session!SubmitChange, Taken, Live
<1>2. \A p \in Finalizers : fin[p] # "clear"
  BY <1>1 DEF SharedInv, HandsInv
<1>3. \A d : (Taken(d)' <=> Taken(d)) /\ (Live(d)' => Live(d) /\ d # mine[q])
  BY <1>1 DEF Session!SubmitChange, Taken, Live, SharedInv, Typed, Session!Change
<1>4. \A f \in Shared : held[f] = None \/ held[f] = mine[q]
  BY <1>1 DEF SharedInv, HeldInv
<1>5. mine[q] # None
  BY <1>1 DEF Taken, SharedInv, Session!SharedStateAssumption
<1>6. \A f \in Shared :
        /\ held'[f] = None
        /\ depot'[f] = IF held[f] = None THEN depot[f] ELSE disk[f]
  BY <1>4, <1>5 DEF Session!SubmitChange, SharedInv, Typed
<1> QED
  BY <1>1, <1>2, <1>3, <1>6

LEMMA SessionSubmitInv == ASSUME SharedInv, NEW q \in Finalizers,
       Session!Submit(q) \/ Session!SubmitFails(q) PROVE SharedInv'
<1>1. /\ UNCHANGED <<Session!client, Session!workers, mine, disk, text>> /\ fin[q] = "submit"
      /\ \/ Session!SubmitChange(mine[q]) /\ fin' \in {[fin EXCEPT ![q] = "clear"],
             [fin EXCEPT ![q] = "failed"]}
         \/ UNCHANGED <<depot, held, change>> /\ fin' = [fin EXCEPT ![q] = "failed"]
  BY DEF Session!Submit, Session!SubmitFails
<1>2. CASE UNCHANGED <<depot, held, change>> /\ fin' = [fin EXCEPT ![q] = "failed"]
  <2>1. Typed' /\ HeldInv'
    BY <1>1, <1>2 DEF Typed, SharedInv, Session!FinPC, HeldInv, Live
  <2>2. HandsInv'
    BY <1>1, <1>2 DEF HandsInv, Hands, HoldingTracks, HoldingFins, SharedInv, Taken, Live, Typed
  <2>3. RecordInv'
    BY <1>1, <1>2 DEF RecordInv, SharedInv, Typed, Safe, Quitting
  <2> QED
    BY <1>1, <2>1, <2>2, <2>3 DEF SharedInv
<1>3. CASE /\ Session!SubmitChange(mine[q])
           /\ fin' \in {[fin EXCEPT ![q] = "clear"], [fin EXCEPT ![q] = "failed"]}
  <2>1. Typed'
    <3>1. mine[q] \in Numbers
      BY <1>1, <1>3, SubmitEmpties DEF Live
    <3>2. change' \in [Numbers -> Session!Change]
      BY <1>3, <3>1, StatusTyped DEF Session!SubmitChange, SharedInv, Typed
    <3>3. depot' \in [Shared -> Nat] /\ held' \in [Shared -> Numbers \cup {None}]
      BY <1>3 DEF Session!SubmitChange, SharedInv, Typed
    <3> QED
      BY <1>1, <1>3, <3>2, <3>3 DEF Typed, SharedInv, Session!FinPC
  <2>2. \A h \in Hands' : h \in Hands
    BY <1>1, <1>3 DEF Hands, HoldingTracks, HoldingFins, SharedInv, Typed
  <2>3. HandsInv'
    <3>1. \A h \in Hands' : Taken(mine[h])' /\ ~Live(mine[h])'
      BY <1>1, <1>3, <2>2, SubmitEmpties DEF HandsInv, SharedInv
    <3>2. \A p \in Finalizers : fin'[p] = "clear" => p = q
      BY <1>1, <1>3, SubmitEmpties DEF SharedInv, Typed
    <3> QED
      BY <1>1, <1>3, <3>1, <3>2, SubmitEmpties DEF HandsInv, SharedInv
  <2>4. HeldInv'
    BY <1>1, <1>3, SubmitEmpties DEF HeldInv
  <2>5. RecordInv'
    <3>1. Quitting'
      BY <1>1, <1>3 DEF Quitting, SharedInv, Typed
    <3>2. \A f \in Shared : Safe(f) => Safe(f)'
      BY <1>1, <1>3, <3>1, SubmitEmpties DEF Safe
    <3> QED
      BY <1>1, <1>3, <3>2 DEF RecordInv, SharedInv, Typed
  <2> QED
    BY <2>1, <2>3, <2>4, <2>5 DEF SharedInv
<1> QED
  BY <1>1, <1>2, <1>3

LEMMA ClearInv == ASSUME SharedInv, NEW q \in Finalizers, Session!Clear(q) PROVE SharedInv'
<1>1. /\ UNCHANGED <<Session!workers, Session!files, mine, change, text,
       inFlight>> /\ fin[q] = "clear"
      /\ cl' = None /\ entries' = {} /\ fin' = [fin EXCEPT ![q] = "submitted"]
  BY DEF Session!Clear
<1>2. mine[q] = cl /\ ~Live(cl) /\ \A p \in Finalizers \ {q} : fin[p] # "clear"
  BY <1>1 DEF SharedInv, HandsInv
<1>3. Typed'
  BY <1>1 DEF Typed, SharedInv, Session!FinPC
<1>4. \A h \in Hands' : h \in Hands
  BY <1>1 DEF Hands, HoldingTracks, HoldingFins, SharedInv, Typed
<1>5. \A d : (Taken(d)' <=> Taken(d)) /\ (Live(d)' <=> Live(d))
  BY <1>1 DEF Taken, Live
<1>6. \A h \in Hands : Taken(mine[h]) /\ ~Live(mine[h])
  BY <1>2 DEF SharedInv, HandsInv
<1>7. \A p \in Finalizers : fin'[p] # "clear"
  BY <1>1, <1>2 DEF SharedInv, Typed
<1>8. HandsInv'
  BY <1>1, <1>4, <1>5, <1>6, <1>7 DEF HandsInv
<1>9. HeldInv'
  BY <1>1, <1>2 DEF HeldInv, SharedInv
<1>10. RecordInv'
  BY <1>1 DEF RecordInv, SharedInv, Typed, Safe, Quitting
<1> QED
  BY <1>3, <1>8, <1>9, <1>10 DEF SharedInv

-----------------------------------------------------------------------------
(* The theorems.                                                           *)

LEMMA SharedNext == SharedInv /\ [Session!Next]_Session!vars => SharedInv'
<1> SUFFICES ASSUME SharedInv, [Session!Next]_Session!vars PROVE SharedInv'
  OBVIOUS
<1>1. CASE UNCHANGED Session!vars
  <2>1. Typed'
    BY <1>1 DEF Session!vars, SharedInv, Typed
  <2>2. HandsInv'
    BY <1>1 DEF Session!vars, SharedInv, HandsInv, Hands, HoldingTracks, HoldingFins, Taken, Live
  <2>3. HeldInv' /\ RecordInv'
    BY <1>1 DEF Session!vars, SharedInv, HeldInv, Live, RecordInv, Safe, Quitting
  <2> QED
    BY <2>1, <2>2, <2>3 DEF SharedInv
<1>2. CASE \E t \in Tracks : Session!Write(t) \/ Session!Track(t)
  BY <1>2, WriteInv, BeginInv, EnsureInv, EnsureFailsInv, ReconcileInv,
         RecordLeaveInv DEF Session!Track
<1>3. CASE \E q \in Finalizers : Session!Finalize(q)
  BY <1>3, WaitInv, CollectInv, DescribeInv, SessionSubmitInv, ClearInv DEF Session!Finalize
<1> QED
  BY <1>1, <1>2, <1>3 DEF Session!Next, Session!Exited

LEMMA SharedInvariant == ASSUME Session!SharedStateAssumption PROVE Session!Spec => []SharedInv
BY SharedInit, SharedNext, PTL DEF Session!Spec

\* A shared-state file is opened in the one changelist that the session will submit,
\* for every number of writes and finalizers (shared_state_cl.py, _ensure_cl_locked).
THEOREM OpenedInOne == Session!Spec => []OneChangelist
<1>1. SharedInv => OneChangelist
  BY DEF SharedInv, HeldInv, OneChangelist, Session!OneChangelist
<1> QED
  BY <1>1, SharedInvariant, SessionAssumption, PTL

\* A finalizer that submitted leaves nothing behind of what it had collected
\* (shared_state_cl.py, submit_if_dirty).
THEOREM NothingLeftBehind == Session!Spec => RecordedIsSubmitted
<1> DEFINE Brings ==
      \A q \in Finalizers :
        fin[q] = "submit" /\ fin'[q] = "clear" =>
          \A f \in text[q] : depot'[f] = disk[f] /\ held'[f] = None
<1>1. SharedInv /\ [Session!Next]_Session!vars => [Brings]_Session!vars
  <2> SUFFICES ASSUME SharedInv, Session!Next,
                      NEW q \in Finalizers, fin[q] = "submit", fin'[q] = "clear",
                      NEW f \in text[q]
               PROVE  depot'[f] = disk[f] /\ held'[f] = None
    OBVIOUS
  <2>1. Session!Submit(q)
    <3>1. \A t \in Tracks : ~(Session!Write(t) \/ Session!Track(t))
      BY DEF Session!Write, Session!Track, Session!Begin, Session!EnsureCL, Session!EnsureCLFails,
             Session!Reconcile, Session!ReconcileFails, Session!Record, Session!Leave
    <3>2. \A p \in Finalizers : Session!Finalize(p) => p = q /\ Session!Submit(q)
      BY DEF Session!Finalize, Session!HasChanges, Session!WaitIdle, Session!Collect,
             Session!Describe, Session!Submit, Session!SubmitFails, Session!Clear, SharedInv, Typed
    <3> QED
      BY <3>1, <3>2 DEF Session!Next, Session!Exited, Session!vars
  <2>2. f \in Shared /\ Safe(f)
    BY DEF SharedInv, Typed, RecordInv
  <2>3. Session!SubmitChange(mine[q])
    BY <2>1 DEF Session!Submit
  <2> QED
    BY <2>2, <2>3, SubmitEmpties DEF Safe
<1> QED
  BY <1>1, SharedInvariant, SessionAssumption, PTL DEF Session!Spec, RecordedIsSubmitted,
         Session!RecordedIsSubmitted
==============================================================================
