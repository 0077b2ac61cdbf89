----------------------------- MODULE RowCommands -----------------------------
(***************************************************************************)
(* Commands on a row of the changelist tables (p4v_tui/app_menus.py, and the *)
(* handlers of app.py, app_diffrev.py and app_details.py behind its items):  *)
(* a menu, Enter or a key takes the changelist of a row, and dialogs and     *)
(* workers carry it to the command of the server, while the tables are       *)
(* loaded again and filtered and other programs make and close changelists.  *)
(* What the commands do to the files is the matter of Changelists; here it   *)
(* is on which changelist they are called, and what the tables show after.   *)
(***************************************************************************)
EXTENDS Naturals, Sequences, FiniteSets

CONSTANTS
  Numbered,     \* changelists with a number
  Default,      \* the default changelist
  NoChange,     \* no row
  MaxAsked,     \* bound: commands
  MaxScreens,   \* bound: dialogs, one over the other
  MaxElsewhere  \* bound: changelists made or closed by another program

ASSUME RowCommandsAssumption ==
  /\ Default \notin Numbered /\ NoChange \notin Numbered \cup {Default}
  /\ {MaxAsked, MaxScreens, MaxElsewhere} \subseteq Nat

Changes == Numbered \cup {Default}
Tables  == {"pending", "submitted"}

VARIABLES
  home,      \* home[c]: "here" if c belongs to this workspace, or "there"
  status,    \* status[c]: "none", "pending", "submitted" or "deleted"
  last,      \* last[t]: what table t was rendered from
  filtered,  \* tables with a filter: here one that keeps what is of this workspace
  due,       \* tables whose load has not read yet
  answer,    \* answer[t]: the rows a load of t has read, or {NoChange}
  cursor,    \* the row under the cursor of the pending table
  screens,   \* menus and dialogs, the one on top first
  workers,   \* threads of commands
  jobs,      \* changelists whose submit waits for the job runner
  ran,       \* history: whether the command last run works on opened files, the
             \* changelist it was run for, and the one that was named on the screen
             \* where the user asked for it
  outdated,  \* history: tables that changed elsewhere since their load has read
  asked, elsewhere  \* numbers of commands and of changes elsewhere

server == <<home, status, outdated, elsewhere>>
loading == <<due, answer, last>>
vars == <<server, loading, filtered, cursor, screens, workers, jobs, ran, asked>>

-----------------------------------------------------------------------------
(* Tables.                                                                 *)

\* The default changelist is listed when files are opened in it.
Current(t) == {c \in Changes : status[c] = t}

\* The filter leaves the default changelist alone.
View(t, rows) ==
  IF t \in filtered THEN {c \in rows : c = Default \/ home[c] = "here"} ELSE rows

Shown(t) == View(t, last[t])

\* The workspaces of the rows are those of the last rendering; a change that is
\* not in it counts as one of this workspace.
IsRemote(c) == c # Default /\ c \in Shown("pending") /\ home[c] = "there"

\* The cursor stays on its changelist, or else goes to the first row.
Stays(rows, c) ==
  CASE rows = {} -> {NoChange} [] c \in rows -> {c} [] OTHER -> rows

-----------------------------------------------------------------------------
(* The commands.  On its way to the server a command fetches something in a   *)
(* worker or asks in a dialog; makes has what the changelists may be when it  *)
(* has run, and is empty for a command that only shows something; the tables  *)
(* in reload are loaded after it.                                            *)

Cmd(steps, makes, reload) == [steps |-> steps, makes |-> makes, reload |-> reload]

With(s, c)     == [status EXCEPT ![c] = s]
Emptied(c, s)  == IF c = Default THEN [s EXCEPT ![c] = "none"] ELSE s
OpensInDefault == {status, With("pending", Default)}

\* A new changelist; when no number is left (bound) there is none.
Made(s) ==
  LET free == {n \in Numbered : status[n] = "none" /\ home[n] = "here"} IN
  IF free = {} THEN {status} ELSE {With(s, n) : n \in free}

Looked     == Cmd(<<"fetch", "ask">>, {}, {})
AskedFirst == Cmd(<<"ask">>, {status}, {})

SubmitPending      == AskedFirst
SubmitAndResolve   == Cmd(<<"ask", "fetch", "ask">>, {status}, {})
SubmitChecked      == Cmd(<<"fetch", "ask">>, {status}, {})
SaveChecked        == Cmd(<<>>, OpensInDefault, {"pending"})
RevertUnchanged(c) == Cmd(<<>>, {status, Emptied(c, status)}, {"pending"})
RevertCL(c)        == Cmd(<<"ask">>, {Emptied(c, status)}, {"pending"})
ReResolve          == Cmd(<<"ask", "ask">>, {status}, {"pending"})
MoveAllTo(c)       == Cmd(<<"ask">>, {Emptied(c, s) : s \in Made("pending") \cup OpensInDefault},
                          {"pending"})
DiffHave           == Looked
EditDesc(t)        == Cmd(<<"fetch", "ask">>, {status}, {t})
DeleteCL(c)        == Cmd(<<"ask">>, {IF status[c] = "pending" THEN With("deleted", c) ELSE status},
                          {"pending"})
Shelve             == Cmd(<<"fetch", "ask">>, {status}, {"pending"})
ShelveUpdate       == Cmd(<<>>, {status}, {"pending"})
ShelveDelete       == Cmd(<<"ask">>, {status}, {"pending"})
Unshelve           == Cmd(<<"ask">>, Made("pending") \cup OpensInDefault, {"pending"})
NewPendingCL       == Cmd(<<"ask">>, Made("pending"), {"pending"})
ViewRemote         == Looked
Detail             == Looked
PrintPreview       == Looked
PrintCL            == Cmd(<<"fetch">>, {}, {})
Refresh(t)         == Cmd(<<>>, {}, {t})
RefreshOne         == Cmd(<<"fetch">>, {}, {})
RefreshHistory     == Cmd(<<>>, {}, {})
SortFiles          == Cmd(<<"ask">>, {}, {})
SwarmURL           == Cmd(<<>>, {}, {})
ViewSubmitted      == Looked
GetRevision        == AskedFirst
GetRevsFiles       == AskedFirst
GetPrevRevsFiles   == AskedFirst
Integrate          == Cmd(<<"ask">>, OpensInDefault, {"pending"})
Branch             == Cmd(<<"fetch", "ask", "ask", "fetch", "ask">>,
                          Made("submitted"), {"submitted"})
\* Mutant of UndoCL: the files that it opened are not listed.
UndoCLQuietly      == Cmd(<<"ask">>, OpensInDefault, {})
UndoCL             == Cmd(<<"ask">>, OpensInDefault, {"pending"})
TagLabel           == Cmd(<<"fetch", "ask">>, {status}, {})
ShowInTree         == Looked
DiffPrevRevs       == Looked
DiffArbitrary      == Cmd(<<"ask", "fetch", "ask">>, {}, {})
SideBySide         == Looked

Command(op, c) ==
  CASE op = "submit" -> SubmitPending
    [] op = "get_revision" -> GetRevision
    [] op = "submit_resolve" -> SubmitAndResolve
    [] op = "submit_checked" -> SubmitChecked
    [] op = "save_checked" -> SaveChecked
    [] op = "revert_unchanged" -> RevertUnchanged(c)
    [] op = "revert_cl" -> RevertCL(c)
    [] op = "re_resolve" -> ReResolve
    [] op = "move_all_to" -> MoveAllTo(c)
    [] op = "diff_have" -> DiffHave
    [] op = "edit_desc" -> EditDesc("pending")
    [] op = "edit_submitted" -> EditDesc("submitted")
    [] op = "delete_cl" -> DeleteCL(c)
    [] op = "shelve" -> Shelve
    [] op = "shelve_update" -> ShelveUpdate
    [] op = "shelve_delete" -> ShelveDelete
    [] op = "unshelve" -> Unshelve
    [] op = "new_pending_cl" -> NewPendingCL
    [] op = "view_remote" -> ViewRemote
    [] op = "detail" -> Detail
    [] op = "print_preview" -> PrintPreview
    [] op = "print" -> PrintCL
    [] op = "refresh_pending" -> Refresh("pending")
    [] op = "refresh_submitted" -> Refresh("submitted")
    [] op = "refresh_one" -> RefreshOne
    [] op = "refresh_history" -> RefreshHistory
    [] op = "sort_files" -> SortFiles
    [] op \in {"copy_swarm_cl", "open_swarm_cl"} -> SwarmURL
    [] op = "view" -> ViewSubmitted
    [] op = "get_revs_files" -> GetRevsFiles
    [] op = "get_prev_revs_files" -> GetPrevRevsFiles
    [] op \in {"bci_integrate", "bci_copy"} -> Integrate
    [] op = "bci_branch" -> Branch
    [] op = "undo_cl" -> UndoCL
    [] op = "tag_label" -> TagLabel
    [] op = "show_in_tree" -> ShowInTree
    [] op = "diff_prev_revs" -> DiffPrevRevs
    [] op = "diff_arbitrary" -> DiffArbitrary
    [] op = "diff_prev_revs_sxs" -> SideBySide

Submits == {"submit", "submit_resolve", "submit_checked"}

\* What works on the opened files of this workspace.
Binding == Submits \cup
  {"save_checked", "revert_unchanged", "revert_cl", "re_resolve", "move_all_to", "diff_have",
   "shelve", "shelve_update", "shelve_delete", "unshelve"}

Called(op, c, seen) == [binding |-> op \in Binding, on |-> c, seen |-> seen]

-----------------------------------------------------------------------------
(* The menus.                                                              *)

AnyItems   == {"new_pending_cl", "print_preview", "print", "refresh_pending", "refresh_one"}
SwarmItems == {"copy_swarm_cl", "open_swarm_cl"}
SpecItems  == {"edit_desc", "delete_cl"} \cup SwarmItems

PendingItems(c) ==
  CASE IsRemote(c) -> {"view_remote"} \cup SpecItems \cup AnyItems
    [] ~IsRemote(c) /\ c = Default -> AnyItems \cup
         {"submit", "view_cl", "revert_unchanged", "revert_cl", "re_resolve", "move_all_to", "diff_have"}
    [] OTHER -> {"view_cl"} \cup (Binding \ {"submit_checked", "save_checked"}) \cup SpecItems
                \cup AnyItems

HistoryItems ==
  {"view", "get_revision", "bci_integrate", "bci_copy", "bci_branch", "undo_cl", "tag_label",
   "diff_prev_revs", "diff_arbitrary", "edit_submitted", "print_preview", "print", "refresh_history"}

SubmittedItems == (HistoryItems \ {"refresh_history"}) \cup SwarmItems \cup
  {"get_revs_files", "get_prev_revs_files", "show_in_tree", "diff_prev_revs_sxs",
   "refresh_submitted", "refresh_one"}

\* What a panel as a whole has in its menu.
PanelItems(t) ==
  {"filter"} \cup IF t = "pending" THEN {"new_pending_cl", "sort_files", "refresh_pending"}
                  ELSE {"refresh_submitted"}

\* All commands; view_cl and filter are done with at once.
Ops == Binding \cup HistoryItems \cup SubmittedItems \cup AnyItems \cup SpecItems
       \cup {"view_remote", "detail", "sort_files"}
AtOnce == {"view_cl", "filter"}

Screen(op, c, k) == [op |-> op, on |-> c, step |-> k]
Menu(items, c)   == [op |-> "menu", on |-> c, step |-> 0, items |-> items]

Top == Head(screens)

PanelOf(m) == IF "refresh_pending" \in m.items THEN "pending" ELSE "submitted"

\* The user is at the table, and nothing is in front of it.
AtTable == screens = <<>> /\ asked < MaxAsked /\ asked' = asked + 1

\* m or a click on a row; the history lists submitted changelists.
ShowMenu(items, c) ==
  /\ AtTable
  /\ screens' = <<Menu(items, c)>>
  /\ UNCHANGED <<server, loading, filtered, cursor, workers, jobs, ran>>

ShowPendingMenu   == cursor # NoChange /\ ShowMenu(PendingItems(cursor), cursor)
ShowSubmittedMenu == \E c \in Shown("submitted") : ShowMenu(SubmittedItems, c)
ShowHistoryMenu   == \E c \in Current("submitted") : ShowMenu(HistoryItems, c)
ShowPanelMenu     == \E t \in Tables : ShowMenu(PanelItems(t), NoChange)

\* The next step of a command: a dialog on top of the screens base, a worker, the
\* submit job, or the loads after a command that changes nothing.  seen is what the
\* screen named where the user asked for it.
Proceed(op, c, k, seen, base) ==
  LET cmd == Command(op, c)
      Is(step) == k <= Len(cmd.steps) /\ cmd.steps[k] = step
      ended == k > Len(cmd.steps) IN
  \/ /\ Is("ask") /\ screens' = <<Screen(op, c, k)>> \o base
     /\ UNCHANGED <<workers, jobs, ran, due>>
  \/ /\ Is("fetch") \/ (ended /\ op \notin Submits /\ cmd.makes # {})
     /\ workers' = workers \cup {[op |-> op, on |-> c, step |-> k, seen |-> seen]}
     /\ screens' = base
     /\ UNCHANGED <<jobs, ran, due>>
  \/ /\ ended /\ op \in Submits
     /\ jobs' = jobs \cup {c} /\ ran' = Called(op, c, seen)
     /\ screens' = base
     /\ UNCHANGED <<workers, due>>
  \/ /\ ended /\ op \notin Submits /\ cmd.makes = {}
     /\ due' = due \cup cmd.reload /\ screens' = base
     /\ UNCHANGED <<workers, jobs, ran>>

\* Mutant of Refuses: a changelist of another workspace is submitted as well.
RefusesDefault(c) == c \in {NoChange, Default}

Refuses(c) == c \in {NoChange, Default} \/ IsRemote(c)

\* Submit, of the key and of the menu, is of the row under the cursor now.
AskSubmit(base) ==
  \/ /\ Refuses(cursor) /\ screens' = base
     /\ UNCHANGED <<workers, jobs, ran, due>>
  \/ ~Refuses(cursor) /\ Proceed("submit", cursor, 1, cursor, base)

Choose ==
  /\ screens # <<>> /\ Top.op = "menu"
  /\ UNCHANGED <<server, answer, last, asked>>
  /\ \/ screens' = Tail(screens) /\ UNCHANGED <<filtered, cursor, workers, jobs, ran, due>>
     \/ \E op \in Top.items \ {"submit", "view_cl", "filter"} :
          Proceed(op, Top.on, 1, Top.on, Tail(screens)) /\ UNCHANGED <<filtered, cursor>>
     \/ "submit" \in Top.items /\ AskSubmit(Tail(screens)) /\ UNCHANGED <<filtered, cursor>>
     \/ /\ "view_cl" \in Top.items
        /\ cursor' = IF Top.on \in Shown("pending") THEN Top.on ELSE cursor
        /\ screens' = Tail(screens)
        /\ UNCHANGED <<filtered, workers, jobs, ran, due>>
     \/ /\ "filter" \in Top.items
        /\ filtered' \in {filtered \ {PanelOf(Top)}, filtered \cup {PanelOf(Top)}}
        /\ cursor' \in Stays(Shown("pending")', cursor)
        /\ screens' = Tail(screens)
        /\ UNCHANGED <<workers, jobs, ran, due>>

SubmitKey ==
  /\ AtTable /\ AskSubmit(<<>>)
  /\ UNCHANGED <<server, answer, last, filtered, cursor>>

\* Enter on a row, and Ctrl+D on a submitted one.
Enter ==
  /\ AtTable
  /\ \/ /\ cursor # NoChange
        /\ Proceed(IF IsRemote(cursor) THEN "view_remote" ELSE "detail", cursor, 1, cursor, <<>>)
     \/ \E c \in Shown("submitted") : Proceed("view", c, 1, c, <<>>)
  /\ UNCHANGED <<server, answer, last, filtered, cursor>>

DiffKey ==
  /\ AtTable
  /\ \E c \in Shown("submitted") : Proceed("diff_prev_revs", c, 1, c, <<>>)
  /\ UNCHANGED <<server, answer, last, filtered, cursor>>

\* Mutant of Captured: a dialog that closes reads the row under the cursor.
UnderCursor(s) == cursor

\* A dialog keeps the changelist it was opened for.
Captured(s) == s.on

\* What is asked for with the popup of a changelist; promoting default is left to
\* Changelists.
Popup(c) == {"revert_cl"} \cup IF c = Default THEN {} ELSE {"save_checked", "submit_checked"}

\* A dialog is cancelled or goes on to the next step.
Answer ==
  /\ screens # <<>> /\ Top.op # "menu"
  /\ \/ screens' = Tail(screens) /\ UNCHANGED <<workers, jobs, ran, due>>
     \/ Top.op # "detail" /\ Proceed(Top.op, Captured(Top), Top.step + 1, Top.on, Tail(screens))
     \/ /\ Top.op = "detail"
        /\ \E op \in Popup(Top.on) : Proceed(op, Captured(Top), 1, Top.on, Tail(screens))
  /\ UNCHANGED <<server, answer, last, filtered, cursor, asked>>

-----------------------------------------------------------------------------
(* Workers, the job runner and the loads.                                  *)

\* Before it asks, a submit saves what was edited in the popup.
Edits(w) == w.op \in {"submit_checked", "submit_resolve"}

\* A fetch fails or finds nothing, or the next dialog comes up.
Fetch(w) ==
  /\ w.step <= Len(Command(w.op, w.on).steps)
  /\ \/ UNCHANGED <<screens, status, due>>
     \/ /\ w.step < Len(Command(w.op, w.on).steps) /\ Len(screens) < MaxScreens
        /\ screens' = <<Screen(w.op, w.on, w.step + 1)>> \o screens
        /\ status' \in IF w.op = "submit_checked" THEN OpensInDefault ELSE {status}
        /\ due' = IF Edits(w) THEN due \cup {"pending"} ELSE due
  /\ workers' = workers \ {w}
  /\ ran' = Called(w.op, w.on, w.seen)
  /\ UNCHANGED <<home, outdated, elsewhere, answer, last, filtered, cursor, jobs, asked>>

\* What stays when a changelist was made for the files and then there is an error;
\* the tables are loaded again only if the files were to be moved there.
Halfway(op) == IF op \in {"move_all_to", "unshelve"} THEN Made("pending") ELSE {}

\* The command runs, or fails and leaves the changelists as they are, or halfway.
Run(w) ==
  LET cmd == Command(w.op, w.on) IN
  /\ w.step > Len(cmd.steps)
  /\ \/ /\ status' \in cmd.makes /\ due' = due \cup cmd.reload
        /\ UNCHANGED outdated
     \/ UNCHANGED <<status, due, outdated>>
     \/ /\ status' \in Halfway(w.op)
        /\ due' = IF w.op = "move_all_to" THEN due \cup cmd.reload ELSE due
        /\ outdated' = IF w.op = "move_all_to" THEN outdated ELSE outdated \cup {"pending"}
  /\ workers' = workers \ {w}
  /\ ran' = Called(w.op, w.on, w.seen)
  /\ UNCHANGED <<home, elsewhere, answer, last, filtered, cursor, screens, jobs, asked>>

\* The lists are loaded when the job has ended as done: it submitted the changelist,
\* or took it for submitted.
RunJob ==
  /\ \E c \in jobs :
       /\ jobs' = jobs \ {c}
       /\ \/ status[c] = "pending" /\ status' = With("submitted", c) /\ due' = Tables
          \/ UNCHANGED status /\ due' \in {due, Tables}
  /\ UNCHANGED <<home, outdated, elsewhere, answer, last, filtered, cursor, screens, workers, ran, asked>>

\* Loads of a table come one after the other here; overlapping ones are the matter
\* of PaneLoads.
ReadTable(t) ==
  /\ t \in due /\ answer[t] = {NoChange}
  /\ due' = due \ {t} /\ outdated' = outdated \ {t}
  /\ answer' = [answer EXCEPT ![t] = Current(t)]
  /\ UNCHANGED <<home, status, elsewhere, last, filtered, cursor, screens, workers, jobs, ran, asked>>

RenderTable(t) ==
  /\ answer[t] # {NoChange}
  /\ last' = [last EXCEPT ![t] = answer[t]]
  /\ answer' = [answer EXCEPT ![t] = {NoChange}]
  /\ cursor' \in IF t = "pending" THEN Stays(View(t, answer[t]), cursor) ELSE {cursor}
  /\ UNCHANGED <<server, due, filtered, screens, workers, jobs, ran, asked>>

MoveCursor ==
  /\ screens = <<>> /\ cursor' \in Shown("pending")
  /\ UNCHANGED <<server, loading, filtered, screens, workers, jobs, ran, asked>>

\* Another program makes, submits or deletes a changelist.
Elsewhere ==
  /\ elsewhere < MaxElsewhere /\ elsewhere' = elsewhere + 1
  /\ \E c \in Numbered :
       \/ status[c] = "none" /\ status' = With("pending", c)
       \/ status[c] = "pending" /\ status' \in {With("submitted", c), With("deleted", c)}
  /\ outdated' = Tables
  /\ UNCHANGED <<home, loading, filtered, cursor, screens, workers, jobs, ran, asked>>

Init ==
  /\ home \in {h \in [Changes -> {"here", "there"}] : h[Default] = "here"}
  /\ status \in [Changes -> {"none", "pending", "submitted"}] /\ status[Default] # "submitted"
  /\ last = [t \in Tables |-> Current(t)]
  /\ filtered = {} /\ due = {} /\ answer = [t \in Tables |-> {NoChange}]
  /\ cursor \in Stays(Current("pending"), NoChange)
  /\ screens = <<>> /\ workers = {} /\ jobs = {}
  /\ ran = [binding |-> FALSE, on |-> NoChange, seen |-> NoChange]
  /\ outdated = {} /\ asked = 0 /\ elsewhere = 0

Next ==
  \/ ShowPendingMenu \/ ShowSubmittedMenu \/ ShowHistoryMenu \/ ShowPanelMenu
  \/ Choose \/ SubmitKey \/ Enter \/ DiffKey \/ Answer
  \/ \E w \in workers : Fetch(w) \/ Run(w)
  \/ RunJob \/ MoveCursor \/ Elsewhere
  \/ \E t \in Tables : ReadTable(t) \/ RenderTable(t)

Spec == Init /\ [][Next]_vars

-----------------------------------------------------------------------------
(* Properties.                                                             *)

\* The types.
Statuses == [Changes -> {"none", "pending", "submitted", "deleted"}]
Rows     == Changes \cup {NoChange}
Screens  == [op : Ops, on : Rows, step : Nat]
            \cup [op : {"menu"}, on : Rows, step : {0}, items : SUBSET (Ops \cup AtOnce)]
Threads  == [op : Ops, on : Rows, step : Nat, seen : Rows]

TypeOK ==
  /\ home \in [Changes -> {"here", "there"}] /\ status \in Statuses
  /\ last \in [Tables -> SUBSET Changes] /\ filtered \subseteq Tables /\ due \subseteq Tables
  /\ answer \in [Tables -> (SUBSET Changes) \cup {{NoChange}}] /\ cursor \in Rows
  /\ screens \in Seq(Screens) /\ workers \subseteq Threads /\ jobs \subseteq Rows
  /\ ran \in [binding : BOOLEAN, on : Rows, seen : Rows]
  /\ outdated \subseteq Tables /\ asked \in 0..MaxAsked /\ elsewhere \in 0..MaxElsewhere

\* No command that works on the files opened here is called for a changelist of
\* another workspace, whichever way it was asked for and however the tables changed
\* between the key and the command.
RemoteIsSpared == ran.binding => home[ran.on] = "here"

\* What runs, runs for the changelist that the user last saw named: on the menu, in
\* the dialog that was answered, or in the row.
ActsOnWhatWasNamed == ran.on = ran.seen

\* After a command of this program the tables come to show what it did: a table is
\* up to date, a load of it is still to read, or it was changed elsewhere since.
TablesFollow ==
  \A t \in Tables \ (due \cup outdated) :
    Current(t) = IF answer[t] # {NoChange} THEN answer[t] ELSE last[t]
===============================================================================
