------------------------------ MODULE PaneLoads ------------------------------
(***************************************************************************)
(* What the right side of the main screen shows (p4v_tui/app.py and           *)
(* app_details.py): the pending changelists and the details of the one under  *)
(* the cursor.  Worker threads ask the server and hand their answers to the   *)
(* UI thread, which draws them, while the user moves the cursor and the       *)
(* server changes.                                                          *)
(***************************************************************************)
EXTENDS Naturals, Sequences, FiniteSets, SequencesExt

CONSTANTS
  Changes,   \* the numbers of pending changelists
  Remote,    \* those of the user's other workspaces
  Views,     \* the filters of the table: the changelists each lets through
  Loaders,   \* workers that may load the table at a time
  InOrder,   \* the details are answered in the order they are asked for
  MaxEdits,  \* bound: changes of the server, and queries that fail
  MaxMoves,  \* bound: what the user does
  MaxEvents, \* bound: events that wait while a table is drawn
  MaxDetails,\* bound: detail loads under way
  Nothing    \* an empty pane

\* The default changelist is listed as number 0 where files are opened in it.
Default == 0

ASSUME PaneLoadsAssumption ==
  /\ Changes \subseteq Nat \ {Default} /\ IsFiniteSet(Changes) /\ Remote \subseteq Changes
  /\ Views \subseteq SUBSET Changes /\ Changes \in Views
  /\ InOrder \in BOOLEAN /\ MaxEdits \in Nat /\ MaxMoves \in Nat /\ {MaxEvents, MaxDetails} \subseteq Nat \ {0}
  /\ Nothing \notin Changes \cup {Default}

VARIABLES
  pending,  \* the pending changelists of the server, Default among them or not
  view,     \* the filter of the table
  cached,   \* the changelists the table was drawn from
  rows,     \* the changelists of the table, from the first row to the last
  cursor,   \* the row of the cursor, 0 without rows
  events,   \* the RowHighlighted events that wait, each the number of a row
  load,     \* load[l]: a worker that loads the table
  inFlight, \* _pending_load_in_flight
  spinning, \* the timer of the activity indicator runs
  details,  \* the changelists whose details are asked for, the oldest first
  detail,   \* the changelist of the detail pane
  edits, moves

table == <<view, cached, rows, cursor, events>>
loads == <<load, inFlight>>
info  == <<details, detail>>
vars  == <<pending, table, loads, spinning, info, edits, moves>>

Listed == Changes \cup {Default}
Idle == [pc |-> "idle", rows |-> {}]

-----------------------------------------------------------------------------
(* Drawing the table.                                                      *)

\* The local changelists come first, and the newest first.
Before(a, b) == IF (a \in Remote) = (b \in Remote) THEN a > b ELSE b \in Remote

\* How many of T come before c; the one at each place.
Ahead(c, T) == Cardinality({d \in T : Before(d, c)})
Sorted(T)   == [i \in 1..Cardinality(T) |-> CHOOSE c \in T : Ahead(c, T) = i - 1]

\* The filter does not apply to the default changelist, which is always on top.
Viewed(S, v) ==
  (IF Default \in S THEN <<Default>> ELSE <<>>) \o Sorted(S \cap v)

Selected == IF cursor = 0 THEN Nothing ELSE rows[cursor]

\* The row of changelist c among the new rows; the first where it is gone.
RowOf(c, new) == IF c \in ToSet(new) THEN CHOOSE i \in DOMAIN new : new[i] = c ELSE 1

DrawFromTop(S, v) ==
  LET new == Viewed(S, v)
      row == IF new = <<>> THEN 0 ELSE 1
  IN /\ cached' = S /\ view' = v /\ rows' = new /\ cursor' = row
     /\ events' = events \o (IF row = 0 THEN <<>> ELSE <<1>>)
     /\ detail' = IF Selected \in ToSet(new) THEN detail ELSE Nothing

DrawSilently(S, v) ==
  LET new == Viewed(S, v)
      row == IF new = <<>> THEN 0 ELSE RowOf(Selected, new)
  IN /\ cached' = S /\ view' = v /\ rows' = new /\ cursor' = row
     /\ events' = events \o (IF row = 0 THEN <<>> ELSE <<1>>)
     /\ detail' = IF Selected \in ToSet(new) THEN detail ELSE Nothing

\* Drawing puts the cursor on the first row, and then on the row of the
\* changelist it was on; both are events.  When that one is gone the details are
\* cleared.
Draw(S, v) ==
  LET new == Viewed(S, v)
      row == IF new = <<>> THEN 0 ELSE RowOf(Selected, new)
  IN /\ cached' = S /\ view' = v /\ rows' = new /\ cursor' = row
     /\ events' = events \o (IF row = 0 THEN <<>> ELSE IF row = 1 THEN <<1>> ELSE <<1, row>>)
     /\ detail' = IF Selected \in ToSet(new) THEN detail ELSE Nothing

-----------------------------------------------------------------------------
(* Loading the table.                                                      *)

\* The worker is started; F5, the end of a submit and every other operation that
\* changes a changelist start one without looking at inFlight.
Start(l) ==
  /\ load[l].pc = "idle"
  /\ load' = [load EXCEPT ![l].pc = "start"]

\* The timer of the automatic refresh is set again each time, and a tick that
\* finds a load under way starts none.
Tick(l) ==
  /\ ~inFlight /\ Start(l)
  /\ UNCHANGED <<pending, table, inFlight, spinning, info, edits, moves>>

Refresh(l) ==
  /\ moves < MaxMoves /\ moves' = moves + 1
  /\ Start(l)
  /\ UNCHANGED <<pending, table, inFlight, spinning, info, edits>>

Begin(l) ==
  /\ load[l].pc = "start"
  /\ load' = [load EXCEPT ![l].pc = "query"]
  /\ inFlight' = TRUE /\ spinning' = TRUE
  /\ UNCHANGED <<pending, table, info, edits, moves>>

\* A query that fails gives no rows.
Answered(l, S, pc) ==
  \/ load' = [load EXCEPT ![l] = [pc |-> pc, rows |-> @.rows \cup S]] /\ UNCHANGED edits
  \/ /\ edits < MaxEdits /\ edits' = edits + 1
     /\ load' = [load EXCEPT ![l].pc = pc]

QueryPending(l) ==
  /\ load[l].pc = "query" /\ Answered(l, pending \ {Default}, "default")
  /\ UNCHANGED <<pending, table, inFlight, spinning, info, moves>>

QueryDefault(l) ==
  /\ load[l].pc = "default" /\ Answered(l, pending \cap {Default}, "render")
  /\ UNCHANGED <<pending, table, inFlight, spinning, info, moves>>

RenderLeavingFlag(l) ==
  /\ load[l].pc = "render" /\ Len(events) < MaxEvents
  /\ Draw(load[l].rows, view)
  /\ load' = [load EXCEPT ![l] = Idle]
  /\ UNCHANGED <<pending, inFlight, spinning, details, edits, moves>>

\* The flag is one for all workers: it goes down although another is under way.
Render(l) ==
  /\ load[l].pc = "render" /\ Len(events) < MaxEvents
  /\ Draw(load[l].rows, view)
  /\ load' = [load EXCEPT ![l] = Idle] /\ inFlight' = FALSE
  /\ UNCHANGED <<pending, spinning, details, edits, moves>>

\* A new filter, and a change of the layout, draw the cached rows.
ChangeView ==
  /\ moves < MaxMoves /\ moves' = moves + 1
  /\ \E v \in Views : Draw(cached, v)
  /\ UNCHANGED <<pending, loads, spinning, details, edits>>

-----------------------------------------------------------------------------
(* The details of the changelist under the cursor.                         *)

MoveCursor ==
  /\ moves < MaxMoves /\ moves' = moves + 1
  /\ \E i \in DOMAIN rows \ {cursor} : cursor' = i /\ events' = Append(events, i)
  /\ UNCHANGED <<pending, view, cached, rows, loads, spinning, info, edits>>

\* The event names a row, and the changelist is what is in that row by now.
Highlighted ==
  /\ events # <<>> /\ Len(details) < MaxDetails
  /\ events' = Tail(events)
  /\ details' = IF Head(events) \in DOMAIN rows THEN Append(details, rows[Head(events)])
                ELSE details
  /\ UNCHANGED <<pending, view, cached, rows, cursor, loads, spinning, detail, edits,
                 moves>>

\* A newer load cancels the older one, which draws its answer all the same.
RenderDetail ==
  /\ \E i \in DOMAIN details :
       /\ InOrder => i = 1
       /\ detail' = details[i] /\ details' = RemoveAt(details, i)
  /\ UNCHANGED <<pending, table, loads, spinning, edits, moves>>

-----------------------------------------------------------------------------

\* The loads that have a token of the activity indicator.
Activity == {l \in Loaders : load[l].pc \in {"query", "default", "render"}}

\* The indicator's timer stops when it finds nothing to show.
TickActivity ==
  /\ spinning /\ Activity = {} /\ spinning' = FALSE
  /\ UNCHANGED <<pending, table, loads, info, edits, moves>>

\* Other clients and the jobs and dialogs of this one.
ServerChanges ==
  /\ edits < MaxEdits /\ edits' = edits + 1
  /\ \E c \in Listed : pending' = (pending \ {c}) \cup ({c} \ pending)
  /\ UNCHANGED <<table, loads, spinning, info, moves>>

Init ==
  /\ pending \in {Listed, Changes}
  /\ view \in Views
  /\ cached = {} /\ rows = <<>> /\ cursor = 0 /\ events = <<>>
  /\ load = [l \in Loaders |-> Idle] /\ inFlight = FALSE /\ spinning = FALSE
  /\ details = <<>> /\ detail = Nothing
  /\ edits = 0 /\ moves = 0

Loader(l) == Begin(l) \/ QueryPending(l) \/ QueryDefault(l) \/ Render(l)
Ticks == \E l \in Loaders : Tick(l)
User ==
  \/ \E l \in Loaders : Refresh(l)
  \/ ChangeView \/ MoveCursor

Next ==
  \/ \E l \in Loaders : Loader(l)
  \/ Ticks \/ User \/ ServerChanges
  \/ Highlighted \/ RenderDetail \/ TickActivity

\* Calls return or fail, the UI thread serves its queue, and timers fire.
Fairness ==
  /\ \A l \in Loaders : WF_vars(Loader(l))
  /\ WF_vars(Ticks) /\ WF_vars(Highlighted) /\ WF_vars(RenderDetail)

Spec == Init /\ [][Next]_vars /\ Fairness

-----------------------------------------------------------------------------

\* The types.
TypeOK ==
  /\ pending \subseteq Listed /\ view \in Views /\ cached \subseteq Listed
  /\ rows \in Seq(Listed) /\ cursor \in Nat /\ events \in Seq(Nat)
  /\ load \in [Loaders -> [pc : {"idle", "start", "query", "default", "render"},
                           rows : SUBSET Listed]]
  /\ inFlight \in BOOLEAN /\ spinning \in BOOLEAN
  /\ details \in Seq(Listed) /\ detail \in Listed \cup {Nothing}
  /\ edits \in 0..MaxEdits /\ moves \in 0..MaxMoves

\* The automatic refresh, a user's refresh in between and loads that overtake each
\* other or fail: once the server and the user are at rest, the table comes to show
\* what is pending, and again after every tick (P4VApp._tick_pending_auto_refresh).
Settled == edits = MaxEdits /\ moves = MaxMoves
TableCatchesUp == Settled ~> rows = Viewed(pending, view)

\* A refresh or a filter never moves the cursor to another changelist while the
\* one it was on is listed (P4VApp._render_pending).
SelectionStays ==
  [][moves' = moves \/ view' # view \/ rows' # rows =>
       (Selected \in ToSet(rows') => rows'[cursor'] = Selected)]_vars

\* When everything asked for has arrived the detail pane shows the changelist under
\* the cursor, as the docstring of P4VApp._view_submitted_cl says of these tables.
DetailFollowsCursor ==
  events = <<>> /\ details = <<>> /\ Selected # Nothing => detail = Selected
==============================================================================
