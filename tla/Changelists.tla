----------------------------- MODULE Changelists -----------------------------
(***************************************************************************)
(* What the dialogs of p4v_tui/app.py, app_details.py and app_diffrev.py do  *)
(* to the opened files and pending changelists of the workspace.  A dialog   *)
(* hands its p4 commands to a worker thread and closes, so several workers   *)
(* and the job runner are under way at the same time, and other programs use *)
(* the same workspace.  One p4 command is one step.                          *)
(***************************************************************************)
EXTENDS Naturals, Sequences, FiniteSets

CONSTANTS
  Files,
  Changes,   \* the numbers of changelists, 1..N for some N
  Slots,     \* dialogs and workers that may be under way at a time
  MaxTasks,  \* bound: dialogs opened, and files opened by others
  Default,   \* the default changelist
  NotOpen    \* a file that is not opened

ASSUME ChangelistsAssumption ==
  /\ IsFiniteSet(Changes) /\ Changes = 1..Cardinality(Changes)
  /\ MaxTasks \in Nat
  /\ {NotOpen, Default} \cap Changes = {} /\ NotOpen # Default

VARIABLES
  opened,   \* opened[f]: the changelist f is opened in, or NotOpen
  edited,   \* the files whose content differs from the depot
  status,   \* status[c]: what has become of changelist c
  shelf,    \* shelf[c]: the files shelved in c
  commits,  \* commits[c]: the files that were submitted with c
  task,     \* task[s]: the dialog or worker in slot s
  queue,    \* the submit jobs waiting for the job runner
  excluded, \* history: excluded[c], the files the user unchecked for c
  tasks     \* number of dialogs opened, and of files opened by others

files  == <<opened, edited>>
server == <<status, shelf, commits>>
vars   == <<files, server, task, queue, excluded, tasks>>

Homes == Changes \cup {Default}
TaskPC == {"idle", "popup", "describe", "out", "create", "list", "reopen", "confirm",
           "ask_revert", "revert", "pick", "shelve", "open", "move", "submit", "cleanup"}
Kinds == {"none", "submit", "save", "revert", "move", "shelve", "open", "rename"}

Tasks == [kind : Kinds, pc : TaskPC, change : Homes, target : Homes,
          files : SUBSET Files, unchecked : SUBSET Files]
NoTask == [kind |-> "none", pc |-> "idle", change |-> Default, target |-> Default,
           files |-> {}, unchecked |-> {}]

\* The types; in particular the default changelist is never queued for submit.
TypeOK ==
  /\ opened \in [Files -> Homes \cup {NotOpen}] /\ edited \subseteq Files
  /\ status \in [Changes -> {"unused", "pending", "submitted", "deleted"}]
  /\ shelf \in [Changes -> SUBSET Files] /\ commits \in [Changes -> SUBSET Files]
  /\ task \in [Slots -> Tasks] /\ queue \in Seq(Changes)
  /\ excluded \in [Changes -> SUBSET Files] /\ tasks \in 0..MaxTasks

Init ==
  /\ opened \in [Files -> {Default, NotOpen} \cup Changes]
  /\ \A f \in Files : opened[f] \in Changes => opened[f] = 1
  /\ edited = {f \in Files : opened[f] # NotOpen}
  /\ status = [c \in Changes |-> IF c = 1 THEN "pending" ELSE "unused"]
  /\ shelf = [c \in Changes |-> {}] /\ commits = [c \in Changes |-> {}]
  /\ task = [s \in Slots |-> NoTask]
  /\ queue = <<>>
  /\ excluded = [c \in Changes |-> {}] /\ tasks = 0

-----------------------------------------------------------------------------
(* The p4 commands.                                                        *)

Pending     == {c \in Changes : status[c] = "pending"}
OpenedIn(h) == {f \in Files : opened[f] = h}

\* opened_in_change gives no rows when the command fails.
OpenedRows(h) == {OpenedIn(h), {}}

\* reopen moves a file from wherever it is opened; one that is not is skipped.
ReopenedTo(h, S) ==
  opened' = [f \in Files |-> IF f \in S /\ opened[f] # NotOpen THEN h ELSE opened[f]]

\* revert -c: only what is opened in h, of the files S.
RevertedIn(h, S) == {f \in S : opened[f] = h}

Close(S) ==
  /\ opened' = [f \in Files |-> IF f \in S THEN NotOpen ELSE opened[f]]
  /\ edited' = edited \ S

Fresh(c) == status[c] = "unused" /\ \A d \in Changes : d < c => status[d] # "unused"

\* Files that were put into c on purpose are not excluded from it any more.
Included(h, S) ==
  excluded' = IF h \in Changes THEN [excluded EXCEPT ![h] = @ \ S] ELSE excluded

\* submit -c: what is opened in c now, and nothing is submitted when that is
\* nothing or a file is shelved in c.
Submittable(c) == status[c] = "pending" /\ OpenedIn(c) # {} /\ shelf[c] = {}

Submit(c) ==
  /\ Submittable(c)
  /\ commits' = [commits EXCEPT ![c] = OpenedIn(c)]
  /\ status' = [status EXCEPT ![c] = "submitted"]
  /\ Close(OpenedIn(c))
  /\ UNCHANGED shelf

-----------------------------------------------------------------------------
(* Tasks.                                                                  *)

At(s, l) == task[s].pc = l
Goto(s, l) == task' = [task EXCEPT ![s].pc = l]
End(s) == task' = [task EXCEPT ![s] = NoTask]

Open(s, t) ==
  /\ At(s, "idle") /\ tasks < MaxTasks
  /\ task' = [task EXCEPT ![s] = t]
  /\ tasks' = tasks + 1

\* A command raises: the worker tells the user and returns.
Raises(s) ==
  /\ task[s].pc \in {"describe", "out", "create", "reopen", "revert", "shelve"}
  /\ End(s)
  /\ UNCHANGED <<files, server, queue, excluded, tasks>>

-----------------------------------------------------------------------------
(* The popup of a pending changelist: submit, save or revert.              *)

OpenPopup(s) ==
  \E h \in Pending \cup {Default} : \E rows \in OpenedRows(h) :
    /\ Open(s, [NoTask EXCEPT !.pc = "popup", !.change = h, !.files = rows])
    /\ UNCHANGED <<files, server, queue, excluded>>

\* The default changelist needs a description to be promoted; a numbered one is
\* described where the description was edited.
PopupDone(s) ==
  LET t == task[s] IN
  /\ At(s, "popup")
  /\ \E k \in {"submit", "save"}, U \in SUBSET t.files, described \in BOOLEAN :
       task' = [task EXCEPT ![s] =
                 IF t.change = Default /\ ~described THEN NoTask
                 ELSE [t EXCEPT !.kind = k, !.unchecked = U,
                                !.pc = IF t.change = Default THEN "create"
                                       ELSE IF described THEN "describe" ELSE "out"]]
  /\ UNCHANGED <<files, server, queue, excluded, tasks>>

PopupRevert(s) ==
  /\ At(s, "popup")
  /\ task' = [task EXCEPT ![s].kind = "revert", ![s].pc = "ask_revert"]
  /\ UNCHANGED <<files, server, queue, excluded, tasks>>

PopupCancel(s) ==
  /\ At(s, "popup")
  /\ End(s)
  /\ UNCHANGED <<files, server, queue, excluded, tasks>>

Describe(s) ==
  /\ At(s, "describe") /\ task[s].change \in Pending
  /\ Goto(s, "out")
  /\ UNCHANGED <<files, server, queue, excluded, tasks>>

\* Where the flow goes when the edits are applied.
Applied(t) == IF t.kind = "submit" THEN [t EXCEPT !.pc = "confirm"] ELSE NoTask

\* change = new_cl
Promoted(t) == [t EXCEPT !.change = t.target]

\* Mutant of MovesOut: the unchecked files are left where they are.
NeverMovesOut(t) == {}

MovesOut(t) == t.unchecked

\* Step 2 of a numbered changelist: the unchecked files go to default.
MoveOut(s) ==
  LET t == task[s] IN
  /\ At(s, "out")
  /\ ReopenedTo(Default, MovesOut(t))
  /\ excluded' = [excluded EXCEPT ![t.change] = @ \cup t.unchecked]
  /\ task' = [task EXCEPT ![s] = Applied(t)]
  /\ UNCHANGED <<edited, server, queue, tasks>>

\* A changelist is created: to promote default, to move files into, or to open
\* files in.
Create(s) ==
  LET t == task[s] IN
  /\ At(s, "create")
  /\ \E c \in Changes :
       /\ Fresh(c)
       /\ status' = [status EXCEPT ![c] = "pending"]
       /\ task' = [task EXCEPT ![s].target = c,
                               ![s].pc = IF t.kind \in {"open", "rename"} THEN "open" ELSE "list"]
       /\ excluded' = [excluded EXCEPT ![c] = t.unchecked]
  /\ UNCHANGED <<files, shelf, commits, queue, tasks>>

Chosen(t, rows) == rows \ t.unchecked

\* What is opened in the source changelist at this time, not when the dialog
\* was opened, is going to be moved.
List(s) ==
  LET t == task[s] IN
  /\ At(s, "list")
  /\ \E rows \in OpenedRows(t.change) :
       task' = [task EXCEPT ![s] =
                 IF Chosen(t, rows) # {} THEN [t EXCEPT !.files = Chosen(t, rows), !.pc = "reopen"]
                 ELSE IF t.kind = "move" THEN NoTask
                 ELSE Applied(Promoted(t))]
  /\ UNCHANGED <<files, server, queue, excluded, tasks>>

Reopen(s) ==
  LET t == task[s] IN
  /\ At(s, "reopen")
  /\ t.target \in Pending \cup {Default}
  /\ ReopenedTo(t.target, t.files)
  /\ Included(t.target, t.files \ t.unchecked)
  /\ task' = [task EXCEPT ![s] = IF t.kind = "move" THEN NoTask ELSE Applied(Promoted(t))]
  /\ UNCHANGED <<edited, server, queue, tasks>>

\* Submit, and Submit & Resolve, of a numbered changelist.  The warnings of
\* the guards are shown, they stop nothing.
AskSubmit(s) ==
  /\ \E c \in Pending : Open(s, [NoTask EXCEPT !.kind = "submit", !.pc = "confirm", !.change = c])
  /\ UNCHANGED <<files, server, queue, excluded>>

Confirm(s) ==
  /\ At(s, "confirm")
  /\ queue' \in {Append(queue, task[s].change), queue}
  /\ End(s)
  /\ UNCHANGED <<files, server, excluded, tasks>>

-----------------------------------------------------------------------------
(* Revert, move, shelve, unshelve.                                         *)

AskRevert(s) ==
  /\ \E h \in Pending \cup {Default} :
       Open(s, [NoTask EXCEPT !.kind = "revert", !.pc = "ask_revert", !.change = h])
  /\ UNCHANGED <<files, server, queue, excluded>>

ConfirmRevert(s) ==
  /\ At(s, "ask_revert")
  /\ \/ End(s)
     \/ \E rows \in OpenedRows(task[s].change) :
          task' = [task EXCEPT ![s] =
                    IF rows = {} THEN NoTask ELSE [@ EXCEPT !.files = rows, !.pc = "revert"]]
  /\ UNCHANGED <<files, server, queue, excluded, tasks>>

\* Mutant of Reverted: revert without -c.
RevertedAnywhere(t) == t.files

Reverted(t) == RevertedIn(t.change, t.files)

RunRevert(s) ==
  /\ At(s, "revert")
  /\ Close(Reverted(task[s]))
  /\ End(s)
  /\ UNCHANGED <<server, queue, excluded, tasks>>

\* revert -a: the files in which nothing was changed.
RevertUnchanged(c) ==
  /\ c \in Pending
  /\ Close(OpenedIn(c) \ edited)
  /\ UNCHANGED <<server, task, queue, excluded, tasks>>

\* The picker offers default and the pending changelists other than the source,
\* and a new one, which stands here in the place of the source.
AskMove(s) ==
  /\ \E h, g \in Pending \cup {Default} :
       Open(s, [NoTask EXCEPT !.kind = "move", !.change = h, !.target = g,
                              !.pc = IF h = g THEN "create" ELSE "list"])
  /\ UNCHANGED <<files, server, queue, excluded>>

AskShelve(s) ==
  /\ \E c \in Pending :
       /\ OpenedIn(c) # {}
       /\ Open(s, [NoTask EXCEPT !.kind = "shelve", !.pc = "pick", !.change = c,
                                 !.files = OpenedIn(c)])
  /\ UNCHANGED <<files, server, queue, excluded>>

\* All files checked: the list is left out and p4 shelves the changelist.
PickShelve(s) ==
  LET t == task[s] IN
  /\ At(s, "pick")
  /\ \E S \in SUBSET t.files :
       task' = [task EXCEPT ![s] =
                 IF S = {} THEN NoTask
                 ELSE [t EXCEPT !.pc = "shelve", !.files = IF S = t.files THEN {} ELSE S]]
  /\ UNCHANGED <<files, server, queue, excluded, tasks>>

RunShelve(s) ==
  LET t == task[s]
      S == IF t.files = {} THEN OpenedIn(t.change) ELSE RevertedIn(t.change, t.files) IN
  /\ At(s, "shelve") /\ t.change \in Pending
  /\ shelf' = [shelf EXCEPT ![t.change] = @ \cup S]
  /\ End(s)
  /\ UNCHANGED <<files, status, commits, queue, excluded, tasks>>

DeleteShelf(c) ==
  /\ c \in Pending /\ shelf[c] # {}
  /\ shelf' = [shelf EXCEPT ![c] = {}]
  /\ UNCHANGED <<files, status, commits, task, queue, excluded, tasks>>

\* unshelve -s c -c h; a file that is opened already stays where it is.
Unshelve(c, h) ==
  /\ c \in Pending /\ shelf[c] # {} /\ h \in Pending \cup {Default}
  /\ LET S == {f \in shelf[c] : opened[f] = NotOpen} IN
     /\ S # {}
     /\ opened' = [f \in Files |-> IF f \in S THEN h ELSE opened[f]]
     /\ edited' = edited \cup S
     /\ Included(h, S)
  /\ UNCHANGED <<server, task, queue, tasks>>

\* change -d: the server refuses unless c is empty.
DeleteChange(c) ==
  /\ c \in Pending /\ OpenedIn(c) = {} /\ shelf[c] = {}
  /\ status' = [status EXCEPT ![c] = "deleted"]
  /\ UNCHANGED <<files, shelf, commits, task, queue, excluded, tasks>>

NewChange(c) ==
  /\ tasks < MaxTasks /\ Fresh(c)
  /\ status' = [status EXCEPT ![c] = "pending"]
  /\ tasks' = tasks + 1
  /\ UNCHANGED <<files, shelf, commits, task, queue, excluded>>

-----------------------------------------------------------------------------
(* Opening files: Check out, Add, Delete, Rename, Integrate, Copy, Undo.   *)

\* Each of the first three gets a changelist of its own.
AskOpen(s) ==
  /\ \E k \in {"open", "rename"}, S \in (SUBSET Files) \ {{}} :
       /\ k = "rename" => Cardinality(S) = 1
       /\ Open(s, [NoTask EXCEPT !.kind = k, !.pc = "create", !.files = S])
  /\ UNCHANGED <<files, server, queue, excluded>>

\* edit -c: files that are opened stay in their changelist or are taken from it,
\* which depends on the server.  It may raise: the changelist is left as it is,
\* and the rename tries to delete it.
RunOpen(s) ==
  LET t == task[s] IN
  /\ At(s, "open")
  /\ \/ \E S \in {t.files, {f \in t.files : opened[f] = NotOpen}} :
          /\ t.target \in Pending
          /\ opened' = [f \in Files |-> IF f \in S THEN t.target ELSE opened[f]]
          /\ Included(t.target, S)
          /\ task' = [task EXCEPT ![s] =
                       IF t.kind = "open" THEN NoTask ELSE [t EXCEPT !.pc = "move"]]
     \/ /\ task' = [task EXCEPT ![s] =
                     IF t.kind = "open" THEN NoTask ELSE [t EXCEPT !.pc = "cleanup"]]
        /\ UNCHANGED <<opened, excluded>>
  /\ UNCHANGED <<edited, server, queue, tasks>>

\* move -c takes the file into the changelist.
RunMove(s) ==
  LET t == task[s] IN
  /\ At(s, "move")
  /\ \/ /\ t.target \in Pending /\ \A f \in t.files : opened[f] # NotOpen
        /\ ReopenedTo(t.target, t.files)
        /\ Included(t.target, t.files)
        /\ edited' = edited \cup t.files
        /\ Goto(s, "submit")
     \/ /\ Goto(s, "cleanup")
        /\ UNCHANGED <<opened, edited, excluded>>
  /\ UNCHANGED <<server, queue, tasks>>

\* The rename submits on its own thread, at once.
SubmitRename(s) ==
  /\ At(s, "submit")
  /\ \/ Submit(task[s].target)
     \/ UNCHANGED <<files, server>>
  /\ End(s)
  /\ UNCHANGED <<queue, excluded, tasks>>

\* Best effort: the server refuses when edit had gone through.
Cleanup(s) ==
  LET c == task[s].target IN
  /\ At(s, "cleanup")
  /\ status' = [status EXCEPT ![c] = IF c \in Pending /\ OpenedIn(c) = {} /\ shelf[c] = {}
                                     THEN "deleted" ELSE @]
  /\ End(s)
  /\ UNCHANGED <<files, shelf, commits, queue, excluded, tasks>>

\* Rename/Move of a dialog, integrate, copy and undo open files in default, as
\* other programs do.
OpenInDefault(f) ==
  /\ tasks < MaxTasks /\ opened[f] = NotOpen
  /\ opened' = [opened EXCEPT ![f] = Default]
  /\ edited' = edited \cup {f}
  /\ tasks' = tasks + 1
  /\ UNCHANGED <<server, task, queue, excluded>>

-----------------------------------------------------------------------------
(* The job runner, and other programs.                                     *)

RunSubmit ==
  /\ queue # <<>>
  /\ queue' = Tail(queue)
  /\ Submit(Head(queue)) \/ UNCHANGED <<files, server>>
  /\ UNCHANGED <<task, excluded, tasks>>

Worker(s) ==
  \/ Raises(s) \/ Describe(s) \/ MoveOut(s) \/ Create(s) \/ List(s) \/ Reopen(s)
  \/ RunRevert(s) \/ RunShelve(s) \/ RunOpen(s) \/ RunMove(s) \/ SubmitRename(s) \/ Cleanup(s)

Dialog(s) ==
  \/ OpenPopup(s) \/ PopupDone(s) \/ PopupRevert(s) \/ PopupCancel(s)
  \/ AskSubmit(s) \/ Confirm(s) \/ AskRevert(s) \/ ConfirmRevert(s)
  \/ AskMove(s) \/ AskShelve(s) \/ PickShelve(s) \/ AskOpen(s)

Next ==
  \/ \E s \in Slots : Worker(s) \/ Dialog(s)
  \/ \E c \in Changes : RevertUnchanged(c) \/ DeleteShelf(c) \/ DeleteChange(c) \/ NewChange(c)
  \/ \E c \in Changes, h \in Homes : Unshelve(c, h)
  \/ \E f \in Files : OpenInDefault(f)
  \/ RunSubmit

Spec == Init /\ [][Next]_vars

-----------------------------------------------------------------------------
(* Properties.                                                             *)

\* Once the unchecked files were moved out, they are not submitted with the
\* changelist, whatever the workers of other dialogs do to both in the meantime,
\* unless one puts them there again.
UncheckedStayOut ==
  [][\A c \in Changes : commits[c] # commits'[c] => commits'[c] \cap excluded[c] = {}]_vars

\* A worker that reverts a changelist closes a file only while it is in that
\* changelist: one that was moved away after the list was taken keeps its edits.
RevertSparesMoved ==
  [][\A s \in Slots : At(s, "revert") /\ task'[s].pc # "revert" =>
       \A f \in Files : opened'[f] = NotOpen => opened[f] \in {NotOpen, task[s].change}]_vars
==============================================================================
