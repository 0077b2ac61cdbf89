-------------------------- MODULE RowCommandsProofs --------------------------
(***************************************************************************)
(* Proofs about RowCommands, for every number of changelists, commands and    *)
(* dialogs.  That a remote changelist is spared hangs on what the menus and    *)
(* dialogs were opened for (GoodScreens), and that on the cursor, which is     *)
(* always in a row that was rendered together with its workspace.  That the    *)
(* tables follow hangs on what each command may do to the lists that it does   *)
(* not load again (Spares).                                                 *)
(***************************************************************************)
EXTENDS RowCommands, SequenceTheorems, TLAPS

\* Changelists of this workspace, and the commands that are for them alone.
Ours  == {c \in Changes : home[c] = "here"}
Local == Binding \cup {"detail"}

Fine(op, c) == (op \in Local => c \in Ours) /\ (op \in Submits => c \in Numbered)

GoodDialogs == {s \in Screens : s.op # "menu" /\ Fine(s.op, s.on)}
GoodMenus   == {s \in Screens :
                 s.op = "menu" /\ \A op \in s.items \ (AtOnce \cup {"submit"}) : Fine(op, s.on)}
GoodScreens == GoodDialogs \cup GoodMenus
GoodThreads == {w \in Threads : Fine(w.op, w.on) /\ w.on = w.seen}

GoodRun ==
  /\ ran \in [binding : BOOLEAN, on : Rows, seen : Rows]
  /\ ran.on = ran.seen /\ (ran.binding => ran.on \in Ours)

ServerInv ==
  /\ home \in [Changes -> {"here", "there"}] /\ home[Default] = "here"
  /\ status \in Statuses /\ status[Default] # "submitted"
  /\ outdated \subseteq Tables /\ elsewhere \in 0..MaxElsewhere

TableInv ==
  /\ last \in [Tables -> SUBSET Changes] /\ filtered \subseteq Tables /\ due \subseteq Tables
  /\ answer \in [Tables -> (SUBSET Changes) \cup {{NoChange}}]
  /\ cursor \in Shown("pending") \cup {NoChange}
  /\ TablesFollow

UserInv ==
  /\ screens \in Seq(GoodScreens) /\ workers \subseteq GoodThreads /\ jobs \subseteq Numbered
  /\ GoodRun /\ asked \in 0..MaxAsked

IInv == ServerInv /\ TableInv /\ UserInv

USE RowCommandsAssumption DEF Changes, Tables, Rows

-----------------------------------------------------------------------------
(* What the commands make.                                                 *)

Listing(s, t) == {c \in Changes : s[c] = t}

\* s leaves the lists of the tables that are not in R as they are.
Spares(s, R) ==
  /\ s \in Statuses /\ s[Default] # "submitted"
  /\ \A t \in Tables \ R : Listing(s, t) = Listing(status, t)

LEMMA StatusSpares == ASSUME ServerInv, NEW R PROVE Spares(status, R)
BY DEF ServerInv, Spares

LEMMA DefaultSpares == ASSUME ServerInv PROVE Spares(With("pending", Default), {"pending"})
BY DEF ServerInv, Spares, With, Statuses, Listing

LEMMA OpensSpares ==
  ASSUME ServerInv, NEW s \in OpensInDefault PROVE Spares(s, {"pending"})
BY StatusSpares, DefaultSpares DEF OpensInDefault

\* A changelist that is made was in no list.
LEMMA MadeSpares ==
  ASSUME ServerInv, NEW t \in Tables, NEW s \in Made(t) PROVE Spares(s, {t})
<1>1. CASE s = status
  BY <1>1, StatusSpares
<1>2. CASE s # status
  <2>1. PICK n \in Numbered : status[n] = "none" /\ s = With(t, n)
    BY <1>2 DEF Made
  <2>2. s \in Statuses /\ s[Default] # "submitted"
    BY <2>1 DEF With, Statuses, ServerInv
  <2>3. \A u \in Tables \ {t} : Listing(s, u) = Listing(status, u)
    BY <2>1 DEF Listing, With, ServerInv, Statuses
  <2> QED
    BY <2>2, <2>3 DEF Spares
<1> QED
  BY <1>1, <1>2

LEMMA EmptiedSpares ==
  ASSUME ServerInv, NEW c, NEW s, Spares(s, {"pending"}) PROVE Spares(Emptied(c, s), {"pending"})
BY DEF ServerInv, Spares, Emptied, Statuses, Listing

LEMMA DeletedSpares ==
  ASSUME ServerInv, NEW c \in Rows, NEW s \in DeleteCL(c).makes PROVE Spares(s, {"pending"})
<1>1. s = IF status[c] = "pending" THEN With("deleted", c) ELSE status
  BY DEF DeleteCL, Cmd
<1> QED
  BY <1>1, StatusSpares DEF ServerInv, Spares, With, Statuses, Listing

LEMMA MovedSpares ==
  ASSUME ServerInv, NEW c, NEW s \in MoveAllTo(c).makes PROVE Spares(s, {"pending"})
<1>1. PICK u \in Made("pending") \cup OpensInDefault : s = Emptied(c, u)
  BY DEF MoveAllTo, Cmd
<1>2. Spares(u, {"pending"})
  BY <1>1, MadeSpares, OpensSpares
<1> QED
  BY <1>1, <1>2, EmptiedSpares

\* Whatever a command makes, it loads the tables that show it.
LEMMA CommandSpares ==
  ASSUME ServerInv, NEW op \in Ops, NEW c \in Rows
  PROVE  /\ Command(op, c).reload \subseteq Tables
         /\ \A s \in Command(op, c).makes : Spares(s, Command(op, c).reload)
<1> DEFINE cmd == Command(op, c)
           Good(k) == k.reload \subseteq Tables /\ \A s \in k.makes : Spares(s, k.reload)
<1>1. \A x, R : R \subseteq Tables => Good(Cmd(x, {}, R)) /\ Good(Cmd(x, {status}, R))
  BY StatusSpares DEF Cmd
<1>2. Good(SubmitPending) /\ Good(SubmitAndResolve) /\ Good(SubmitChecked) /\ Good(SaveChecked)
  BY <1>1, OpensSpares DEF SubmitPending, AskedFirst, SubmitAndResolve, SubmitChecked, SaveChecked, Cmd
<1>3. Good(RevertUnchanged(c)) /\ Good(RevertCL(c))
  BY StatusSpares, EmptiedSpares DEF RevertUnchanged, RevertCL, Cmd
<1>4. Good(MoveAllTo(c)) /\ Good(DeleteCL(c))
  <2>1. MoveAllTo(c).reload = {"pending"} /\ DeleteCL(c).reload = {"pending"}
    BY DEF MoveAllTo, DeleteCL, Cmd
  <2> QED
    BY <2>1, MovedSpares, DeletedSpares
<1>5. Good(Unshelve) /\ Good(NewPendingCL) /\ Good(Branch) /\ Good(Integrate) /\ Good(UndoCL)
  BY OpensSpares, MadeSpares DEF Unshelve, NewPendingCL, Branch, Integrate, UndoCL, Cmd
<1>6. /\ Good(ReResolve) /\ Good(EditDesc("pending")) /\ Good(EditDesc("submitted"))
      /\ Good(Shelve) /\ Good(ShelveUpdate) /\ Good(ShelveDelete) /\ Good(GetRevision)
      /\ Good(GetRevsFiles) /\ Good(GetPrevRevsFiles) /\ Good(TagLabel)
  BY <1>1 DEF ReResolve, EditDesc, Shelve, ShelveUpdate, ShelveDelete, GetRevision, GetRevsFiles,
              GetPrevRevsFiles, AskedFirst, TagLabel
<1>7. /\ Good(DiffHave) /\ Good(ViewRemote) /\ Good(Detail) /\ Good(PrintPreview) /\ Good(PrintCL)
      /\ Good(Refresh("pending")) /\ Good(Refresh("submitted")) /\ Good(RefreshOne)
      /\ Good(RefreshHistory) /\ Good(SortFiles) /\ Good(SwarmURL) /\ Good(ViewSubmitted)
      /\ Good(ShowInTree) /\ Good(DiffPrevRevs) /\ Good(DiffArbitrary) /\ Good(SideBySide)
  BY <1>1 DEF DiffHave, ViewRemote, Detail, PrintPreview, PrintCL, Refresh, RefreshOne,
              RefreshHistory, SortFiles, SwarmURL, ViewSubmitted, ShowInTree, DiffPrevRevs,
              DiffArbitrary, SideBySide, Looked
<1>8. Good(cmd)
  <2> HIDE DEF Good
  <2> QED
    BY <1>2, <1>3, <1>4, <1>5, <1>6, <1>7
    DEF Command, Ops, Binding, Submits, HistoryItems, SubmittedItems, AnyItems, SpecItems, SwarmItems
<1> QED
  BY <1>8

-----------------------------------------------------------------------------
(* Menus and dialogs.                                                      *)

LEMMA OpsAreNamed ==
  /\ "menu" \notin Ops /\ "detail" \in Ops /\ Binding \subseteq Ops /\ Submits \subseteq Ops
  /\ Ops \cap AtOnce = {}
BY DEF Ops, Binding, Submits, HistoryItems, SubmittedItems, AnyItems, SpecItems, SwarmItems, AtOnce

LEMMA GoodDialog ==
  ASSUME NEW op \in Ops, NEW c \in Rows, NEW k \in Nat, Fine(op, c)
  PROVE  Screen(op, c, k) \in GoodScreens
<1>1. Screen(op, c, k) \in Screens
  BY DEF Screen, Screens
<1> QED
  BY <1>1, OpsAreNamed DEF Screen, GoodScreens, GoodDialogs

\* What is under the top one stays good, and another may come on it.
LEMMA GoodStack ==
  ASSUME NEW base \in Seq(GoodScreens), NEW s \in GoodScreens
  PROVE  <<s>> \o base \in Seq(GoodScreens)
<1>1. <<s>> \in Seq(GoodScreens)
  OBVIOUS
<1> QED
  BY <1>1, ConcatProperties

LEMMA GoodTop ==
  ASSUME UserInv, screens # <<>>
  PROVE  Top \in GoodScreens /\ Tail(screens) \in Seq(GoodScreens)
BY HeadTailProperties DEF UserInv, Top

\* A dialog is for what it names, and has a command.
LEMMA TopDialog ==
  ASSUME UserInv, screens # <<>>, Top.op # "menu"
  PROVE  Top.op \in Ops /\ Top.on \in Rows /\ Top.step \in Nat /\ Fine(Top.op, Top.on)
<1>1. Top \in GoodDialogs
  BY GoodTop DEF GoodScreens, GoodMenus
<1> QED
  BY <1>1, OpsAreNamed DEF GoodDialogs, Screens

LEMMA TopMenu ==
  ASSUME UserInv, screens # <<>>, Top.op = "menu"
  PROVE  /\ Top.on \in Rows /\ Top.items \subseteq Ops \cup AtOnce
         /\ \A op \in Top.items \ (AtOnce \cup {"submit"}) : Fine(op, Top.on)
<1>1. Top \in GoodMenus
  BY GoodTop DEF GoodScreens, GoodDialogs
<1> QED
  BY <1>1, OpsAreNamed DEF GoodMenus, Screens

\* A command that is fine for a changelist is recorded as run for one of this
\* workspace, if it works on opened files.
LEMMA GoodCall ==
  ASSUME NEW op, NEW c \in Rows, Fine(op, c)
  PROVE  /\ Called(op, c, c) \in [binding : BOOLEAN, on : Rows, seen : Rows]
         /\ Called(op, c, c).on = c /\ Called(op, c, c).seen = c
         /\ Called(op, c, c).binding => c \in Ours
<1> DEFINE b == op \in Binding
<1>1. b \in BOOLEAN /\ (b => c \in Ours)
  BY DEF Fine, Local
<1>2. Called(op, c, c) = [binding |-> b, on |-> c, seen |-> c]
  BY DEF Called
<1> HIDE DEF b
<1> QED
  BY <1>1, <1>2

\* A menu is good when what it has is for its changelist.
LEMMA MenuShown ==
  ASSUME ServerInv, UserInv, NEW items, NEW c \in Rows, items \subseteq Ops \cup AtOnce,
         \A op \in items \ (AtOnce \cup {"submit"}) : Fine(op, c), ShowMenu(items, c)
  PROVE  UserInv'
<1>1. Menu(items, c) \in Screens /\ Menu(items, c).op = "menu"
      /\ Menu(items, c).items = items /\ Menu(items, c).on = c
  BY DEF Menu, Screens
<1>2. Menu(items, c) \in GoodScreens
  BY <1>1 DEF GoodMenus, GoodScreens
<1>3. <<Menu(items, c)>> \in Seq(GoodScreens)
  BY <1>2
<1>4. home' = home /\ screens' = <<Menu(items, c)>> /\ asked' \in 0..MaxAsked
      /\ UNCHANGED <<workers, jobs, ran>>
  BY DEF ShowMenu, AtTable, server, UserInv
<1>5. GoodScreens' = GoodScreens /\ GoodThreads' = GoodThreads /\ GoodRun' = GoodRun
  BY <1>4 DEF GoodScreens, GoodDialogs, GoodMenus, GoodThreads, GoodRun, Fine, Ours
<1> QED
  BY <1>3, <1>4, <1>5 DEF UserInv

\* The next step of a command that is fine for the changelist that was named.
LEMMA ProceedInv ==
  ASSUME ServerInv, TableInv, UserInv, home' = home, asked' \in 0..MaxAsked,
         NEW op \in Ops, NEW c \in Rows, NEW k \in Nat, Fine(op, c),
         NEW base \in Seq(GoodScreens), Proceed(op, c, k, c, base)
  PROVE  UserInv' /\ due \subseteq due' /\ due' \subseteq Tables
<1>1. GoodScreens' = GoodScreens /\ GoodThreads' = GoodThreads
  BY DEF GoodScreens, GoodDialogs, GoodMenus, GoodThreads, Fine, Ours
<1>2. [op |-> op, on |-> c, step |-> k, seen |-> c] \in GoodThreads
  BY DEF GoodThreads, Threads
<1>3. screens' \in Seq(GoodScreens)
  BY GoodDialog, GoodStack DEF Proceed
<1>4. workers' \subseteq GoodThreads
  BY <1>2 DEF Proceed, UserInv
<1>5. jobs' \subseteq Numbered
  BY DEF Proceed, UserInv, Fine
<1>6. GoodRun'
  <2>1. CASE ran' = ran
    BY <2>1 DEF GoodRun, UserInv, Ours
  <2>2. CASE ran' = Called(op, c, c)
    BY <2>2, GoodCall DEF GoodRun, Ours
  <2> QED
    BY <2>1, <2>2 DEF Proceed
<1>7. due \subseteq due' /\ due' \subseteq Tables
  BY CommandSpares DEF Proceed, TableInv
<1> QED
  BY <1>1, <1>3, <1>4, <1>5, <1>6, <1>7 DEF UserInv

-----------------------------------------------------------------------------
(* The tables.                                                             *)

LEMMA ServerKept == ASSUME ServerInv, UNCHANGED server PROVE ServerInv'
BY DEF ServerInv, server

\* A load that is asked for takes nothing from the tables.
LEMMA TablesKept ==
  ASSUME TableInv, UNCHANGED <<server, answer, last, filtered, cursor>>,
         due \subseteq due', due' \subseteq Tables
  PROVE  TableInv'
<1>1. \A t \in Tables : Current(t)' = Current(t) /\ Shown(t)' = Shown(t)
  BY DEF server, Current, Shown, View
<1>2. TablesFollow'
  BY <1>1 DEF TableInv, TablesFollow, server
<1> QED
  BY <1>1, <1>2 DEF TableInv

\* The cursor is moved to a row, or a filter is set.
LEMMA CursorMoved ==
  ASSUME TableInv, UNCHANGED <<server, loading>>, filtered' \subseteq Tables,
         cursor' \in Shown("pending")' \cup {NoChange}
  PROVE  TableInv'
<1>1. \A t \in Tables : Current(t)' = Current(t)
  BY DEF server, Current
<1> QED
  BY <1>1 DEF TableInv, TablesFollow, server, loading

LEMMA StaysInRows == ASSUME NEW rows, NEW c, NEW d \in Stays(rows, c) PROVE d \in rows \cup {NoChange}
BY DEF Stays

\* The rows are changelists.
LEMMA RowsAreChanges == ASSUME TableInv PROVE cursor \in Rows /\ \A t \in Tables : Shown(t) \subseteq Changes
BY DEF TableInv, Shown, View

\* A row that does not count as remote is of this workspace: its workspace was
\* rendered with it.
LEMMA NotRemoteIsOurs ==
  ASSUME ServerInv, TableInv, cursor # NoChange, ~IsRemote(cursor) PROVE cursor \in Ours
BY RowsAreChanges DEF ServerInv, TableInv, IsRemote, Ours

-----------------------------------------------------------------------------
(* The steps of the user.                                                  *)

\* What a menu shows to its user changes nothing else.
LEMMA MenuInv ==
  ASSUME IInv, NEW items, NEW c \in Rows, items \subseteq Ops \cup AtOnce,
         \A op \in items \ (AtOnce \cup {"submit"}) : Fine(op, c), ShowMenu(items, c)
  PROVE  IInv'
<1>1. UNCHANGED <<server, loading, filtered, cursor>>
  BY DEF ShowMenu
<1>2. ServerInv'
  BY <1>1, ServerKept DEF IInv
<1>3. TableInv'
  BY <1>1, TablesKept DEF IInv, TableInv, loading
<1>4. UserInv'
  BY MenuShown DEF IInv
<1> QED
  BY <1>2, <1>3, <1>4 DEF IInv

LEMMA ItemsAreNamed ==
  /\ HistoryItems \cup SubmittedItems \cup AnyItems \cup SpecItems \cup Binding \subseteq Ops
  /\ (HistoryItems \cup SubmittedItems \cup AnyItems \cup SpecItems) \cap (Local \cup Submits) = {}
  /\ "view_remote" \in Ops \ (Local \cup Submits)
BY DEF Ops, Binding, Local, Submits, HistoryItems, SubmittedItems, AnyItems, SpecItems, SwarmItems

LEMMA PendingMenuInv == ASSUME IInv, ShowPendingMenu PROVE IInv'
<1> DEFINE items == PendingItems(cursor)
<1>1. cursor # NoChange /\ cursor \in Changes /\ ShowMenu(items, cursor)
  BY RowsAreChanges DEF IInv, ShowPendingMenu
<1>2. items \subseteq Ops \cup AtOnce
  <2>1. \/ items = {"view_remote"} \cup SpecItems \cup AnyItems
        \/ items = AnyItems \cup {"submit", "view_cl", "revert_unchanged", "revert_cl",
                                  "re_resolve", "move_all_to", "diff_have"}
        \/ items = {"view_cl"} \cup (Binding \ {"submit_checked", "save_checked"})
                   \cup SpecItems \cup AnyItems
    BY DEF PendingItems
  <2>2. {"submit", "revert_unchanged", "revert_cl", "re_resolve", "move_all_to", "diff_have"}
          \subseteq Ops
    BY DEF Ops, Binding, Submits
  <2>3. "view_cl" \in AtOnce
    BY DEF AtOnce
  <2> QED
    BY <2>1, <2>2, <2>3, ItemsAreNamed
<1>3. CASE IsRemote(cursor)
  <2>1. items = {"view_remote"} \cup SpecItems \cup AnyItems
    BY <1>3 DEF PendingItems
  <2>2. \A op \in items : Fine(op, cursor)
    BY <2>1, ItemsAreNamed DEF Fine
  <2> QED
    BY <1>1, <1>2, <2>2, MenuInv
<1>4. CASE ~IsRemote(cursor)
  <2>1. cursor \in Ours
    BY <1>1, <1>4, NotRemoteIsOurs DEF IInv
  <2>2. \A op \in items \ {"submit"} : op \in Submits => cursor \in Numbered
    <3>1. CASE cursor = Default
      <4>1. items = AnyItems \cup {"submit", "view_cl", "revert_unchanged", "revert_cl",
                                   "re_resolve", "move_all_to", "diff_have"}
        BY <1>4, <3>1 DEF PendingItems
      <4> QED
        BY <4>1, ItemsAreNamed DEF Submits
    <3>2. CASE cursor # Default
      BY <1>1, <3>2
    <3> QED
      BY <3>1, <3>2
  <2>3. \A op \in items \ (AtOnce \cup {"submit"}) : Fine(op, cursor)
    BY <2>1, <2>2 DEF Fine
  <2> QED
    BY <1>1, <1>2, <2>3, MenuInv
<1> QED
  BY <1>3, <1>4

\* The other menus have nothing that is for this workspace alone.
LEMMA OtherMenuInv ==
  ASSUME IInv, ShowSubmittedMenu \/ ShowHistoryMenu \/ ShowPanelMenu PROVE IInv'
<1>1. CASE ShowSubmittedMenu
  <2>1. PICK c \in Shown("submitted") : ShowMenu(SubmittedItems, c)
    BY <1>1 DEF ShowSubmittedMenu
  <2>2. \A op \in SubmittedItems : op \in Ops /\ Fine(op, c)
    BY ItemsAreNamed DEF Fine
  <2> QED
    BY <2>1, <2>2, RowsAreChanges, MenuInv DEF IInv
<1>2. CASE ShowHistoryMenu
  <2>1. PICK c \in Current("submitted") : ShowMenu(HistoryItems, c)
    BY <1>2 DEF ShowHistoryMenu
  <2>2. \A op \in HistoryItems : op \in Ops /\ Fine(op, c)
    BY ItemsAreNamed DEF Fine
  <2> QED
    BY <2>1, <2>2, MenuInv DEF Current
<1>3. CASE ShowPanelMenu
  <2>1. PICK t \in Tables : ShowMenu(PanelItems(t), NoChange)
    BY <1>3 DEF ShowPanelMenu
  <2>2. \A op \in PanelItems(t) : op \in Ops \cup AtOnce /\ Fine(op, NoChange)
    BY DEF PanelItems, Ops, AtOnce, Fine, Local, Binding, Submits, AnyItems, SubmittedItems
  <2> QED
    BY <2>1, <2>2, MenuInv
<1> QED
  BY <1>1, <1>2, <1>3

\* A command that is asked for at the table or in a dialog.
LEMMA AskInv ==
  ASSUME IInv, UNCHANGED <<server, answer, last, filtered, cursor>>, asked' \in 0..MaxAsked,
         NEW op \in Ops, NEW c \in Rows, NEW k \in Nat, Fine(op, c),
         NEW base \in Seq(GoodScreens), Proceed(op, c, k, c, base)
  PROVE  IInv'
<1>1. home' = home
  BY DEF server
<1>2. UserInv' /\ due \subseteq due' /\ due' \subseteq Tables
  BY <1>1, ProceedInv DEF IInv
<1> QED
  BY <1>2, ServerKept, TablesKept DEF IInv

\* Nothing is asked for, and a screen may have gone.
LEMMA LeaveInv ==
  ASSUME IInv, UNCHANGED <<server, answer, last, filtered, cursor, workers, jobs, ran, due>>,
         asked' \in 0..MaxAsked, screens' \in Seq(GoodScreens)
  PROVE  IInv'
<1>1. home' = home
  BY DEF server
<1>2. GoodScreens' = GoodScreens /\ GoodThreads' = GoodThreads /\ GoodRun' = GoodRun
  BY <1>1 DEF GoodScreens, GoodDialogs, GoodMenus, GoodThreads, GoodRun, Fine, Ours
<1>3. UserInv'
  BY <1>2 DEF UserInv, IInv
<1> QED
  BY <1>3, ServerKept, TablesKept DEF IInv, TableInv

LEMMA AskSubmitInv ==
  ASSUME IInv, UNCHANGED <<server, answer, last, filtered, cursor>>, asked' \in 0..MaxAsked,
         NEW base \in Seq(GoodScreens), AskSubmit(base)
  PROVE  IInv'
<1>1. CASE Refuses(cursor) /\ screens' = base /\ UNCHANGED <<workers, jobs, ran, due>>
  BY <1>1, LeaveInv
<1>2. CASE ~Refuses(cursor) /\ Proceed("submit", cursor, 1, cursor, base)
  <2>1. cursor \in Ours /\ cursor \in Numbered
    BY <1>2, NotRemoteIsOurs DEF Refuses, IInv, Ours
  <2>2. Fine("submit", cursor) /\ "submit" \in Ops
    BY <2>1, OpsAreNamed DEF Fine, Submits
  <2> QED
    BY <1>2, <2>1, <2>2, AskInv
<1> QED
  BY <1>1, <1>2 DEF AskSubmit

LEMMA ChooseInv == ASSUME IInv, Choose PROVE IInv'
<1>1. screens # <<>> /\ Top.op = "menu" /\ UNCHANGED <<server, answer, last, asked>>
  BY DEF Choose
<1>2. /\ Top.on \in Rows /\ Top.items \subseteq Ops \cup AtOnce
      /\ \A op \in Top.items \ (AtOnce \cup {"submit"}) : Fine(op, Top.on)
      /\ Tail(screens) \in Seq(GoodScreens) /\ asked' \in 0..MaxAsked
  BY <1>1, TopMenu, GoodTop DEF IInv, UserInv
<1>3. CASE UNCHANGED <<filtered, cursor, workers, jobs, ran, due>> /\ screens' = Tail(screens)
  BY <1>1, <1>2, <1>3, LeaveInv
<1>4. ASSUME NEW op \in Top.items \ {"submit", "view_cl", "filter"}, UNCHANGED <<filtered, cursor>>,
             Proceed(op, Top.on, 1, Top.on, Tail(screens))
      PROVE  IInv'
  <2>1. op \in Ops /\ Fine(op, Top.on)
    BY <1>2 DEF AtOnce
  <2> QED
    BY <1>1, <1>2, <1>4, <2>1, AskInv
<1>5. CASE AskSubmit(Tail(screens)) /\ UNCHANGED <<filtered, cursor>>
  BY <1>1, <1>2, <1>5, AskSubmitInv
<1>6. CASE /\ UNCHANGED <<workers, jobs, ran, due>> /\ filtered' \subseteq Tables
           /\ cursor' \in Shown("pending")' \cup {NoChange} /\ screens' = Tail(screens)
  <2>1. home' = home
    BY <1>1 DEF server
  <2>2. GoodScreens' = GoodScreens /\ GoodThreads' = GoodThreads /\ GoodRun' = GoodRun
    BY <1>6, <2>1 DEF GoodScreens, GoodDialogs, GoodMenus, GoodThreads, GoodRun, Fine, Ours
  <2>3. UserInv'
    BY <1>2, <1>6, <2>2 DEF UserInv, IInv
  <2>4. TableInv'
    BY <1>1, <1>6, CursorMoved DEF IInv, loading
  <2> QED
    BY <1>1, <2>3, <2>4, ServerKept DEF IInv
<1>7. CASE /\ cursor' = IF Top.on \in Shown("pending") THEN Top.on ELSE cursor
           /\ screens' = Tail(screens) /\ UNCHANGED <<filtered, workers, jobs, ran, due>>
  <2>1. Shown("pending")' = Shown("pending") /\ filtered' \subseteq Tables
    BY <1>1, <1>7 DEF Shown, View, server, IInv, TableInv
  <2>2. cursor' \in Shown("pending")' \cup {NoChange}
    BY <1>7, <2>1 DEF IInv, TableInv
  <2> QED
    BY <1>6, <1>7, <2>1, <2>2
<1>8. CASE /\ filtered' \in {filtered \ {PanelOf(Top)}, filtered \cup {PanelOf(Top)}}
           /\ cursor' \in Stays(Shown("pending")', cursor)
           /\ screens' = Tail(screens) /\ UNCHANGED <<workers, jobs, ran, due>>
  <2>1. filtered' \subseteq Tables
    BY <1>8 DEF PanelOf, IInv, TableInv
  <2>2. cursor' \in Shown("pending")' \cup {NoChange}
    BY <1>8, StaysInRows
  <2> QED
    BY <1>6, <1>8, <2>1, <2>2
<1> QED
  BY <1>3, <1>4, <1>5, <1>7, <1>8 DEF Choose

\* Enter, Ctrl+S and Ctrl+D at the table.
LEMMA KeysInv == ASSUME IInv, SubmitKey \/ Enter \/ DiffKey PROVE IInv'
<1>1. AtTable /\ UNCHANGED <<server, answer, last, filtered, cursor>>
  BY DEF SubmitKey, Enter, DiffKey
<1>2. asked' \in 0..MaxAsked /\ <<>> \in Seq(GoodScreens) /\ 1 \in Nat
  BY <1>1 DEF AtTable, IInv, UserInv
<1>3. "detail" \in Ops /\ \A op \in {"view_remote", "view", "diff_prev_revs"} :
                            op \in Ops \ (Local \cup Submits)
  BY ItemsAreNamed, OpsAreNamed DEF HistoryItems
<1>4. CASE SubmitKey
  BY <1>1, <1>2, <1>4, AskSubmitInv DEF SubmitKey
<1>5. ASSUME NEW t \in Tables, NEW c \in Shown(t), NEW op \in {"view_remote", "view", "diff_prev_revs"},
             Proceed(op, c, 1, c, <<>>)
      PROVE  IInv'
  <2>1. op \in Ops /\ c \in Rows /\ Fine(op, c)
    BY <1>3, RowsAreChanges DEF Fine, IInv
  <2> QED
    BY <1>1, <1>2, <1>5, <2>1, AskInv
<1>6. CASE cursor # NoChange /\ Proceed("detail", cursor, 1, cursor, <<>>) /\ ~IsRemote(cursor)
  <2>1. cursor \in Ours
    BY <1>6, NotRemoteIsOurs DEF IInv
  <2>2. Fine("detail", cursor) /\ cursor \in Rows
    BY <2>1 DEF Fine, Submits, Ours
  <2> QED
    BY <1>1, <1>2, <1>3, <1>6, <2>2, AskInv
<1>7. CASE cursor # NoChange /\ Proceed("view_remote", cursor, 1, cursor, <<>>)
  BY <1>5, <1>7 DEF IInv, TableInv
<1> QED
  BY <1>4, <1>5, <1>6, <1>7 DEF Enter, DiffKey

LEMMA AnswerInv == ASSUME IInv, Answer PROVE IInv'
<1>1. screens # <<>> /\ Top.op # "menu"
      /\ UNCHANGED <<server, answer, last, filtered, cursor, asked>>
  BY DEF Answer
<1>2. /\ Top.op \in Ops /\ Top.on \in Rows /\ Top.step \in Nat /\ Fine(Top.op, Top.on)
      /\ Tail(screens) \in Seq(GoodScreens) /\ asked' \in 0..MaxAsked
  BY <1>1, TopDialog, GoodTop DEF IInv, UserInv
<1>3. CASE screens' = Tail(screens) /\ UNCHANGED <<workers, jobs, ran, due>>
  BY <1>1, <1>2, <1>3, LeaveInv
<1>4. CASE Proceed(Top.op, Captured(Top), Top.step + 1, Top.on, Tail(screens))
  <2>1. Top.step + 1 \in Nat /\ Captured(Top) = Top.on
    BY <1>2 DEF Captured
  <2> QED
    BY <1>1, <1>2, <1>4, <2>1, AskInv
<1>5. ASSUME Top.op = "detail", NEW op \in Popup(Top.on),
             Proceed(op, Captured(Top), 1, Top.on, Tail(screens))
      PROVE  IInv'
  <2>1. Top.on \in Ours /\ op \in Binding
    BY <1>2, <1>5 DEF Fine, Local, Popup, Binding, Submits
  <2>2. op \in Submits => Top.on \in Numbered
    BY <1>5, <2>1 DEF Popup, Submits, Ours
  <2>3. op \in Ops /\ Fine(op, Top.on) /\ Captured(Top) = Top.on /\ 1 \in Nat
    BY <2>1, <2>2, OpsAreNamed DEF Fine, Captured
  <2> QED
    BY <1>1, <1>2, <1>5, <2>3, AskInv
<1> QED
  BY <1>3, <1>4, <1>5 DEF Answer

-----------------------------------------------------------------------------
(* Workers, the job runner, the loads and other programs.                   *)

\* What changes is loaded, or counts as changed elsewhere.
LEMMA ChangesFollow ==
  ASSUME ServerInv, TableInv, NEW R \in SUBSET Tables, Spares(status', R),
         R \subseteq due' \cup outdated', due \subseteq due', due' \subseteq Tables,
         outdated \subseteq outdated', UNCHANGED <<home, answer, last, filtered, cursor>>
  PROVE  TableInv'
<1>1. \A t \in Tables : Shown(t)' = Shown(t)
  BY DEF Shown, View
<1>2. \A t \in Tables \ R : Current(t)' = Current(t)
  BY DEF Spares, Listing, Current
<1>3. TablesFollow'
  BY <1>2 DEF TablesFollow, TableInv
<1> QED
  BY <1>1, <1>3 DEF TableInv

LEMMA SparesServer ==
  ASSUME ServerInv, NEW R, Spares(status', R), home' = home, outdated' \subseteq Tables,
         elsewhere' \in 0..MaxElsewhere
  PROVE  ServerInv'
BY DEF ServerInv, Spares, Statuses

\* A worker ends.
LEMMA WorkerEnds ==
  ASSUME UserInv, NEW w \in workers, UNCHANGED <<home, jobs, asked>>, workers' = workers \ {w},
         screens' \in Seq(GoodScreens), ran' = Called(w.op, w.on, w.seen)
  PROVE  UserInv'
<1>1. GoodScreens' = GoodScreens /\ GoodThreads' = GoodThreads
  BY DEF GoodScreens, GoodDialogs, GoodMenus, GoodThreads, Fine, Ours
<1>2. w \in GoodThreads
  BY DEF UserInv
<1>3. GoodRun'
  BY <1>2, GoodCall DEF GoodRun, GoodThreads, Threads, Ours
<1> QED
  BY <1>1, <1>3 DEF UserInv

LEMMA FetchInv == ASSUME IInv, NEW w \in workers, Fetch(w) PROVE IInv'
<1>1. w \in GoodThreads /\ w.op \in Ops /\ w.on \in Rows /\ w.step + 1 \in Nat /\ Fine(w.op, w.on)
  BY DEF IInv, UserInv, GoodThreads, Threads
<1>2. screens' \in Seq(GoodScreens)
  <2>1. Screen(w.op, w.on, w.step + 1) \in GoodScreens
    BY <1>1, GoodDialog
  <2>2. <<Screen(w.op, w.on, w.step + 1)>> \o screens \in Seq(GoodScreens)
    BY <2>1, GoodStack DEF IInv, UserInv
  <2> QED
    BY <2>2 DEF Fetch, IInv, UserInv
<1>3. UserInv'
  BY <1>2, WorkerEnds DEF Fetch, IInv
<1>4. \/ UNCHANGED <<status, due>>
      \/ status' = status /\ due' = due \cup {"pending"}
      \/ Spares(status', {"pending"}) /\ due' = due \cup {"pending"}
  BY OpensSpares DEF Fetch, Edits, IInv
<1>5. PICK R \in {{}, {"pending"}} : Spares(status', R) /\ R \subseteq due'
                                      /\ due \subseteq due' /\ due' \subseteq Tables
  <2>1. Spares(status, {}) /\ due \subseteq Tables
    BY StatusSpares DEF IInv, TableInv
  <2>2. CASE status' = status
    BY <1>4, <2>1, <2>2
  <2>3. CASE Spares(status', {"pending"}) /\ due' = due \cup {"pending"}
    BY <2>1, <2>3
  <2> QED
    BY <1>4, <2>2, <2>3
<1>6. UNCHANGED <<home, outdated, elsewhere, answer, last, filtered, cursor>>
  BY DEF Fetch
<1>7. ServerInv' /\ TableInv'
  BY <1>5, <1>6, SparesServer, ChangesFollow DEF IInv, ServerInv
<1> QED
  BY <1>3, <1>7 DEF IInv

LEMMA MoveReloads == \A c : Command("move_all_to", c).reload = {"pending"}
BY DEF Command, MoveAllTo, Cmd

LEMMA RunInv == ASSUME IInv, NEW w \in workers, Run(w) PROVE IInv'
<1> DEFINE cmd == Command(w.op, w.on)
<1>1. w.op \in Ops /\ w.on \in Rows
  BY DEF IInv, UserInv, GoodThreads, Threads
<1>2. UNCHANGED <<home, elsewhere, answer, last, filtered, cursor, screens, jobs, asked>>
  BY DEF Run
<1>3. UserInv'
  BY <1>2, WorkerEnds DEF Run, IInv, UserInv
<1>4. cmd.reload \subseteq Tables /\ \A s \in cmd.makes : Spares(s, cmd.reload)
  BY <1>1, CommandSpares DEF IInv
<1>5. CASE status' \in cmd.makes /\ due' = due \cup cmd.reload /\ UNCHANGED outdated
  <2>1. ServerInv' /\ TableInv'
    BY <1>2, <1>4, <1>5, SparesServer, ChangesFollow DEF IInv, ServerInv, TableInv
  <2> QED
    BY <1>3, <2>1 DEF IInv
<1>6. CASE UNCHANGED <<status, due, outdated>>
  <2>1. UNCHANGED server
    BY <1>2, <1>6 DEF server
  <2>2. ServerInv' /\ TableInv'
    BY <1>2, <1>6, <2>1, ServerKept, TablesKept DEF IInv, TableInv
  <2> QED
    BY <1>3, <2>2 DEF IInv
<1>7. CASE /\ status' \in Halfway(w.op)
           /\ due' = IF w.op = "move_all_to" THEN due \cup cmd.reload ELSE due
           /\ outdated' = IF w.op = "move_all_to" THEN outdated ELSE outdated \cup {"pending"}
  <2>1. Spares(status', {"pending"})
    BY <1>7, MadeSpares DEF Halfway, IInv
  <2>2. {"pending"} \subseteq due' \cup outdated'
    BY <1>7, MoveReloads
  <2>3. due \subseteq due' /\ due' \subseteq Tables
        /\ outdated \subseteq outdated' /\ outdated' \subseteq Tables
    BY <1>4, <1>7 DEF IInv, TableInv, ServerInv
  <2>4. ServerInv' /\ TableInv'
    BY <1>2, <2>1, <2>2, <2>3, SparesServer, ChangesFollow DEF IInv, ServerInv
  <2> QED
    BY <1>3, <2>4 DEF IInv
<1> QED
  BY <1>5, <1>6, <1>7 DEF Run

\* The user's part stays when nothing of it changes but the jobs.
LEMMA UserKept ==
  ASSUME UserInv, UNCHANGED <<home, screens, workers, ran, asked>>, jobs' \subseteq Numbered
  PROVE  UserInv'
<1>1. GoodScreens' = GoodScreens /\ GoodThreads' = GoodThreads /\ GoodRun' = GoodRun
  BY DEF GoodScreens, GoodDialogs, GoodMenus, GoodThreads, GoodRun, Fine, Ours
<1> QED
  BY <1>1 DEF UserInv

LEMMA NumberedSpares ==
  ASSUME ServerInv, NEW c \in Numbered, NEW l \in {"pending", "submitted", "deleted"}
  PROVE  Spares(With(l, c), Tables)
BY DEF ServerInv, Spares, With, Statuses

LEMMA RunJobInv == ASSUME IInv, RunJob PROVE IInv'
<1>1. PICK c \in jobs : /\ jobs' = jobs \ {c}
                         /\ \/ status' = With("submitted", c) /\ due' = Tables
                            \/ UNCHANGED status /\ due' \in {due, Tables}
  BY DEF RunJob
<1>2. UNCHANGED <<home, outdated, elsewhere, answer, last, filtered, cursor, screens, workers, ran, asked>>
  BY DEF RunJob
<1>3. UserInv'
  BY <1>1, <1>2, UserKept DEF IInv, UserInv
<1>4. CASE status' = With("submitted", c) /\ due' = Tables
  <2>1. Spares(status', Tables)
    BY <1>1, <1>4, NumberedSpares DEF IInv, UserInv
  <2>2. ServerInv' /\ TableInv'
    BY <1>2, <1>4, <2>1, SparesServer, ChangesFollow DEF IInv, ServerInv, TableInv
  <2> QED
    BY <1>3, <2>2 DEF IInv
<1>5. CASE UNCHANGED status /\ due' \in {due, Tables}
  <2>1. UNCHANGED server
    BY <1>2, <1>5 DEF server
  <2>2. ServerInv' /\ TableInv'
    BY <1>2, <1>5, <2>1, ServerKept, TablesKept DEF IInv, TableInv
  <2> QED
    BY <1>3, <2>2 DEF IInv
<1> QED
  BY <1>1, <1>4, <1>5

LEMMA ElsewhereInv == ASSUME IInv, Elsewhere PROVE IInv'
<1>1. UNCHANGED <<home, due, answer, last, filtered, cursor, screens, workers, jobs, ran, asked>>
      /\ outdated' = Tables /\ elsewhere < MaxElsewhere /\ elsewhere' = elsewhere + 1
  BY DEF Elsewhere, loading
<1>2. Spares(status', Tables)
  BY NumberedSpares DEF Elsewhere, IInv
<1>3. elsewhere' \in 0..MaxElsewhere
  BY <1>1 DEF IInv, ServerInv
<1>4. ServerInv' /\ TableInv'
  BY <1>1, <1>2, <1>3, SparesServer, ChangesFollow DEF IInv, ServerInv, TableInv
<1> QED
  BY <1>1, <1>4, UserKept DEF IInv, UserInv

LEMMA MoveCursorInv == ASSUME IInv, MoveCursor PROVE IInv'
<1>1. UNCHANGED <<server, loading, filtered, screens, workers, jobs, ran, asked>>
      /\ cursor' \in Shown("pending")
  BY DEF MoveCursor
<1>2. Shown("pending")' = Shown("pending")
  BY <1>1 DEF Shown, View, server, loading
<1>3. TableInv'
  BY <1>1, <1>2, CursorMoved DEF IInv, TableInv
<1> QED
  BY <1>1, <1>3, ServerKept, UserKept DEF IInv, UserInv, server

\* A load reads what there is at the time.
LEMMA ReadInv == ASSUME IInv, NEW t \in Tables, ReadTable(t) PROVE IInv'
<1>1. UNCHANGED <<home, status, elsewhere, last, filtered, cursor, screens, workers, jobs, ran, asked>>
      /\ due' = due \ {t} /\ outdated' = outdated \ {t}
      /\ answer' = [answer EXCEPT ![t] = Current(t)] /\ answer[t] = {NoChange}
  BY DEF ReadTable
<1>2. \A u \in Tables : Current(u)' = Current(u) /\ Shown(u)' = Shown(u)
  BY <1>1 DEF Current, Shown, View
<1>3. Current(t) \in SUBSET Changes /\ Current(t) # {NoChange}
  BY DEF Current
<1>4. TablesFollow'
  BY <1>1, <1>2, <1>3 DEF TablesFollow, IInv, TableInv
<1>5. TableInv'
  BY <1>1, <1>2, <1>3, <1>4 DEF IInv, TableInv
<1>6. ServerInv'
  BY <1>1 DEF IInv, ServerInv
<1> QED
  BY <1>1, <1>5, <1>6, UserKept DEF IInv, UserInv

LEMMA RenderInv == ASSUME IInv, NEW t \in Tables, RenderTable(t) PROVE IInv'
<1>1. UNCHANGED <<server, due, filtered, screens, workers, jobs, ran, asked>>
      /\ last' = [last EXCEPT ![t] = answer[t]] /\ answer' = [answer EXCEPT ![t] = {NoChange}]
      /\ cursor' \in (IF t = "pending" THEN Stays(View(t, answer[t]), cursor) ELSE {cursor})
  BY DEF RenderTable
<1>2. answer[t] \in SUBSET Changes /\ answer[t] # {NoChange}
  BY DEF RenderTable, IInv, TableInv
<1>3. \A u \in Tables : Current(u)' = Current(u)
  BY <1>1 DEF Current, server
<1>4. TablesFollow'
  BY <1>1, <1>2, <1>3 DEF TablesFollow, IInv, TableInv, server
<1>5. cursor' \in Shown("pending")' \cup {NoChange}
  <2>1. CASE t = "pending"
    <3>1. Shown("pending")' = View("pending", answer["pending"])
      BY <1>1, <2>1 DEF Shown, View, server, IInv, TableInv
    <3> QED
      BY <1>1, <2>1, <3>1, StaysInRows
  <2>2. CASE t # "pending"
    <3>1. Shown("pending")' = Shown("pending")
      BY <1>1, <2>2 DEF Shown, View, server, IInv, TableInv
    <3> QED
      BY <1>1, <2>2, <3>1 DEF IInv, TableInv
  <2> QED
    BY <2>1, <2>2
<1>6. TableInv'
  BY <1>1, <1>2, <1>4, <1>5 DEF IInv, TableInv
<1> QED
  BY <1>1, <1>6, ServerKept, UserKept DEF IInv, UserInv, server

-----------------------------------------------------------------------------
(* The theorems.                                                           *)

LEMMA InitInv == Init => IInv
<1> SUFFICES ASSUME Init PROVE IInv
  OBVIOUS
<1>1. Current("pending") \subseteq Changes /\ \A t \in Tables : Current(t) \in SUBSET Changes
  BY DEF Current
<1>2. last = [t \in Tables |-> Current(t)] /\ answer = [t \in Tables |-> {NoChange}] /\ filtered = {}
  BY DEF Init
<1>3. ServerInv
  <2>1. status \in Statuses
    BY DEF Init, Statuses
  <2>2. MaxElsewhere \in Nat
    OBVIOUS
  <2>3. elsewhere \in 0..MaxElsewhere
    <3>1. elsewhere = 0
      BY DEF Init
    <3> QED
      BY <2>2, <3>1
  <2> QED
    BY <2>1, <2>3 DEF Init, ServerInv
<1>4. TablesFollow
  BY <1>2 DEF TablesFollow
<1>5. Shown("pending") = Current("pending")
  BY <1>2 DEF Shown, View
<1>6. cursor \in Shown("pending") \cup {NoChange}
  BY <1>5, StaysInRows DEF Init
<1>7. TableInv
  <2>1. last \in [Tables -> SUBSET Changes]
    BY <1>1, <1>2
  <2>2. answer \in [Tables -> (SUBSET Changes) \cup {{NoChange}}]
    BY <1>2
  <2>3. due = {}
    BY DEF Init
  <2> QED
    BY <1>2, <1>4, <1>6, <2>1, <2>2, <2>3 DEF TableInv
<1>8. UserInv
  <2>1. ran = [binding |-> FALSE, on |-> NoChange, seen |-> NoChange]
    BY DEF Init
  <2>2. GoodRun
    BY <2>1 DEF GoodRun
  <2>3. screens \in Seq(GoodScreens)
    <3>1. screens = <<>>
      BY DEF Init
    <3> QED
      BY <3>1
  <2>4. MaxAsked \in Nat
    OBVIOUS
  <2>5. asked \in 0..MaxAsked
    <3>1. asked = 0
      BY DEF Init
    <3> QED
      BY <2>4, <3>1
  <2> QED
    BY <2>2, <2>3, <2>5 DEF Init, UserInv
<1> QED
  BY <1>3, <1>7, <1>8 DEF IInv

LEMMA NextInv == IInv /\ [Next]_vars => IInv'
<1> SUFFICES ASSUME IInv, [Next]_vars PROVE IInv'
  OBVIOUS
<1>1. CASE UNCHANGED vars
  <2>1. UNCHANGED <<server, loading, filtered, cursor, screens, workers, jobs, ran, asked>>
    BY <1>1 DEF vars
  <2> QED
    BY <2>1, ServerKept, TablesKept, UserKept DEF IInv, TableInv, UserInv, loading, server
<1>2. CASE ShowPendingMenu \/ ShowSubmittedMenu \/ ShowHistoryMenu \/ ShowPanelMenu
  BY <1>2, PendingMenuInv, OtherMenuInv
<1>3. CASE Choose \/ SubmitKey \/ Enter \/ DiffKey \/ Answer
  BY <1>3, ChooseInv, KeysInv, AnswerInv
<1>4. CASE \E w \in workers : Fetch(w) \/ Run(w)
  BY <1>4, FetchInv, RunInv
<1>5. CASE RunJob \/ MoveCursor \/ Elsewhere
  BY <1>5, RunJobInv, MoveCursorInv, ElsewhereInv
<1>6. CASE \E t \in Tables : ReadTable(t) \/ RenderTable(t)
  BY <1>6, ReadInv, RenderInv
<1> QED
  BY <1>1, <1>2, <1>3, <1>4, <1>5, <1>6 DEF Next

LEMMA Invariant == Spec => []IInv
BY InitInv, NextInv, PTL DEF Spec

\* Every variable keeps its type, for every number of changelists, commands and
\* dialogs.
THEOREM TypeCorrect == Spec => []TypeOK
<1>1. IInv => TypeOK
  <2> SUFFICES ASSUME IInv PROVE TypeOK
    OBVIOUS
  <2>1. screens \in Seq(Screens)
    <3>1. GoodScreens \subseteq Screens
      BY DEF GoodScreens, GoodDialogs, GoodMenus
    <3> QED
      BY <3>1, SeqMonotonic DEF IInv, UserInv
  <2>2. workers \subseteq Threads /\ jobs \subseteq Rows
    BY DEF IInv, UserInv, GoodThreads
  <2>3. cursor \in Rows
    BY RowsAreChanges DEF IInv
  <2> QED
    BY <2>1, <2>2, <2>3 DEF TypeOK, IInv, ServerInv, TableInv, UserInv, GoodRun
<1> QED
  BY <1>1, Invariant, PTL

\* No command that works on the files opened here is called for a changelist of
\* another workspace (app.py, _is_remote_pending and _remote_workspace_note).
THEOREM RemoteSpared == Spec => []RemoteIsSpared
<1>1. IInv => RemoteIsSpared
  BY DEF IInv, UserInv, GoodRun, RemoteIsSpared, Ours
<1> QED
  BY <1>1, Invariant, PTL

\* What runs, runs for the changelist that the user last saw named (app_menus.py).
THEOREM ActsAsNamed == Spec => []ActsOnWhatWasNamed
<1>1. IInv => ActsOnWhatWasNamed
  BY DEF IInv, UserInv, GoodRun, ActsOnWhatWasNamed
<1> QED
  BY <1>1, Invariant, PTL

\* After a command the tables come to show what it did (app.py, the workers that end
\* in _load_pending and _load_submitted).
THEOREM TablesComeToFollow == Spec => []TablesFollow
<1>1. IInv => TablesFollow
  BY DEF IInv, TableInv
<1> QED
  BY <1>1, Invariant, PTL
===============================================================================
