-------------------------------- MODULE Trees --------------------------------
(***************************************************************************)
(* A tree of the main screen (p4v_tui/widgets/p4_tree.py and its two          *)
(* subclasses) with what drives it from app.py.  Folders are listed when they  *)
(* are first opened, by worker threads; an answer rebuilds the nodes below a   *)
(* folder, opens again what a refresh closed, and takes a walk to a path one   *)
(* level further.  The answer may come to a node that is no longer in the      *)
(* tree.  The cursor is followed by the history pane.                         *)
(***************************************************************************)
EXTENDS Naturals, Sequences, FiniteSets, SequencesExt

CONSTANTS
  Paths,     \* the paths a server may have below the root, and the root
  Dirs,      \* the folders among them
  Root,
  Up,        \* the folder of a path
  Walk,      \* the folders a path is in, and the path itself
  MaxMoves,  \* bound: what the user does
  MaxEdits,  \* bound: changes of the server, and listings that fail
  MaxLoads,  \* bound: listings under way
  Nothing

ASSUME TreesAssumption ==
  /\ Root \in Dirs /\ Dirs \subseteq Paths /\ IsFiniteSet(Paths) /\ Nothing \notin Paths
  /\ Up \in [Paths \ {Root} -> Dirs] /\ Walk \in [Paths -> SUBSET Paths]
  /\ Walk[Root] = {Root}
  /\ \A p \in Paths \ {Root} : Walk[p] = Walk[Up[p]] \cup {p} /\ p \notin Walk[Up[p]]
  /\ \A p \in Paths : Root \in Walk[p] /\ \A q \in Walk[p] : Walk[q] \subseteq Walk[p]
  /\ MaxMoves \in Nat /\ MaxEdits \in Nat /\ MaxLoads \in Nat \ {0}

VARIABLES
  server,     \* the paths the server has
  kids,       \* kids[d]: the children of the node of folder d
  open,       \* the folders that are expanded
  loaded,     \* _loaded: folders that were asked for
  events,     \* NodeExpanded events that wait
  fetches,    \* listings under way; live: the node is still in the tree
  spin,       \* _loading_originals: the nodes with a spinner and their labels
  cursor,     \* the node of the cursor; Root also when there is none
  target,     \* _navigation_target
  back,       \* _pending_cursor_path
  reopen,     \* _pending_expansions
  marked,     \* _marked
  label,      \* what is in front of the name of a node, the outermost first
  acting,     \* files with an action under way; live as above
  timer,      \* the node the newest highlight timer is for
  lookups,    \* history queries under way, the oldest first
  history,    \* what the history pane shows
  tidy,       \* the tree was at rest when it was last refreshed or searched, and no
              \* folder counts as loaded that is not
  moves, edits

view   == <<kids, open, cursor>>
walk   == <<target, back, reopen>>
labels == <<marked, label, acting>>
past   == <<timer, lookups, history>>
vars   == <<server, view, loaded, events, fetches, spin, walk, labels, past, tidy,
            moves, edits>>

Below(d) == {p \in Paths : d \in Walk[p] /\ p # d}
Under(d) == {p \in Paths \ {Root} : Up[p] = d}

\* The nodes in a tree with children K, and those with no closed folder above.
Live(K) == {p \in Paths : \A q \in Walk[p] \ {Root} : q \in K[Up[q]]}
Visible(K, O) == {p \in Live(K) : Walk[p] \ {p} \subseteq O}

\* No listing is under way or about to be.
Quiet == events = {} /\ fetches = <<>>

-----------------------------------------------------------------------------
(* The walk to a path.                                                     *)

\* The child of n on the way to t.
NextSegment(n, t) == {q \in Walk[t] \ {Root} : Up[q] = n}
Children(K, n) == IF n \in Dirs THEN K[n] ELSE {}

\* The last node of the tree on the way to t.
Deepest(K, t) == CHOOSE n \in Walk[t] \cap Live(K) : NextSegment(n, t) \cap Children(K, n) = {}

\* A node in a closed folder has no line, and the cursor goes to the line it had.
Lands(n, K, O) == IF n \in Visible(K, O) THEN {n} ELSE Visible(K, O)

Stay(K, O, E, c) ==
  kids' = K /\ open' = O /\ events' = E /\ cursor' = c /\ UNCHANGED target

\* Mutant: what is open counts as listed.
NavigateStepOpen(K, O, E, c, L, t) ==
  LET n == Deepest(K, t)
      settles == n = t \/ n \in O
  IN /\ kids' = K
     /\ target' = IF settles THEN Nothing ELSE t
     /\ cursor' \in IF settles THEN Lands(n, K, O) ELSE {c}
     /\ open' = O \cup {n}
     /\ events' = IF settles THEN E ELSE E \cup {[path |-> n, live |-> TRUE]}

\* Mutant: where there is no way on the walk waits for one.
NavigateStepEndless(K, O, E, c, L, t) ==
  LET n == Deepest(K, t)
  IN /\ kids' = K /\ target' = IF n = t THEN Nothing ELSE t
     /\ cursor' \in IF n = t THEN Lands(n, K, O) ELSE {c}
     /\ open' = IF n = t THEN O ELSE O \cup {n}
     /\ events' = IF n = t \/ n \in O THEN E ELSE E \cup {[path |-> n, live |-> TRUE]}

\* One level further towards t in the tree of K and O, where c is the cursor and
\* E the events that wait; L are the loaded folders.
NavigateStep(K, O, E, c, L, t) ==
  LET n == Deepest(K, t)
      settles == n = t \/ n \in L
  IN /\ kids' = K
     /\ target' = IF settles THEN Nothing ELSE t
     /\ cursor' \in IF settles THEN Lands(n, K, O) ELSE {c}
     /\ open' = IF settles THEN O ELSE O \cup {n}
     /\ events' = IF settles \/ n \in O THEN E ELSE E \cup {[path |-> n, live |-> TRUE]}

-----------------------------------------------------------------------------
(* Opening and listing a folder.                                           *)

Cleared(d) == [e \in Dirs |-> IF d \in Walk[e] THEN {} ELSE kids[e]]

\* When the nodes below d leave the tree, what waits for one of them stays.
Detached(S, d) ==
  {[s EXCEPT !.live = @ /\ s.path \notin Below(d)] : s \in S}
DetachedSeq(f, d) ==
  [i \in DOMAIN f |-> [f[i] EXCEPT !.live = @ /\ f[i].path \notin Below(d)]]

Asked(f, p, l) == Append(f, [path |-> p, live |-> l, rows |-> {}, read |-> FALSE])

\* on_tree_node_expanded: the folder counts as loaded before it is.
Expanded(e) ==
  /\ events' = events \ {e}
  /\ IF e.path \in loaded THEN UNCHANGED <<loaded, fetches, spin>>
     ELSE /\ Len(fetches) < MaxLoads
          /\ loaded' = loaded \cup {e.path} /\ fetches' = Asked(fetches, e.path, e.live)
          /\ spin' = spin \cup
               (IF \E s \in spin : s.path = e.path /\ s.live = e.live THEN {}
                ELSE {[path |-> e.path, live |-> e.live, label |-> label[e.path]]})
  /\ UNCHANGED <<server, view, walk, labels, tidy, moves, edits>>

\* The server lists the folder; a listing that fails is empty.
FetchNodeData(i) ==
  /\ ~fetches[i].read
  /\ \/ /\ fetches' = [fetches EXCEPT ![i].read = TRUE,
                                      ![i].rows = server \cap Under(fetches[i].path)]
        /\ UNCHANGED edits
     \/ /\ edits < MaxEdits /\ edits' = edits + 1
        /\ fetches' = [fetches EXCEPT ![i].read = TRUE]
  /\ UNCHANGED <<server, view, loaded, events, spin, walk, labels, tidy, moves>>

\* The glyph of a node that is marked, or has an action under way.
Mark == <<"mark">>
Pending == <<"pending">>
With(g, l) == IF IsPrefix(g, l) THEN l ELSE g \o l
Without(g, l) == IF IsPrefix(g, l) THEN Tail(l) ELSE l

\* Mutant: the new labels have no marks.
RelabelledBare(f, K) ==
  [p \in Paths |->
     IF f.live /\ p \in Below(f.path) THEN <<>>
     ELSE IF \E s \in spin : f.live /\ s.live /\ p = f.path /\ p = s.path
          THEN (CHOOSE s \in spin : s.live /\ s.path = p).label
          ELSE label[p]]

\* The labels below d are made anew; d gets back the one it had before the spinner.
Relabelled(f, K) ==
  [p \in Paths |->
     IF f.live /\ p \in Below(f.path)
     THEN IF p \in marked \cap K[f.path] THEN Mark ELSE <<>>
     ELSE IF \E s \in spin : f.live /\ s.live /\ p = f.path /\ p = s.path
          THEN (CHOOSE s \in spin : s.live /\ s.path = p).label
          ELSE label[p]]

\* The answer rebuilds the children of its node, puts the cursor back on the one
\* it was on, opens the ones that were open and takes the walk further.  All of
\* it happens also when the node has left the tree.
Populate(i) ==
  LET got == fetches[i]
      d == got.path
      K == IF got.live THEN [Cleared(d) EXCEPT ![d] = got.rows] ELSE kids
      again == got.rows \cap reopen \cap Dirs
      O == IF got.live THEN (open \ Below(d)) \cup again ELSE open
      E == (IF got.live THEN Detached(events, d) ELSE events)
             \cup {[path |-> p, live |-> got.live] : p \in again}
      there == IF back \in got.rows THEN IF got.live THEN Lands(back, K, O) ELSE Visible(K, O)
               ELSE {IF got.live /\ cursor \in Below(d) THEN Root ELSE cursor}
      ended == {s \in spin : s.path = d /\ s.live = got.live}
  IN /\ got.read
     /\ fetches' = LET rest == RemoveAt(fetches, i) IN IF got.live THEN DetachedSeq(rest, d) ELSE rest
     /\ spin' = IF got.live THEN Detached(spin \ ended, d) ELSE spin \ ended
     /\ label' = Relabelled(got, K)
     /\ acting' = IF got.live THEN Detached(acting, d) ELSE acting
     /\ reopen' = reopen \ again /\ back' = Nothing
     /\ \E c \in there :
          IF target # Nothing /\ (target = d \/ NextSegment(d, target) # {})
          THEN NavigateStep(K, O, E, c, loaded, target)
          ELSE Stay(K, O, E, c)
     /\ UNCHANGED <<server, loaded, marked, tidy, moves, edits>>

\* The nodes below d go, and with them the labels and the cursor.
RemoveChildren(d) ==
  /\ kids' = Cleared(d)
  /\ spin' = Detached(spin, d)
  /\ label' = [p \in Paths |-> IF p \in Below(d) THEN <<>> ELSE label[p]]
  /\ cursor' = IF cursor \in Below(d) THEN Root ELSE cursor

\* Mutant: the folders of the old tree count as loaded.
RefreshRootLoaded ==
  /\ RemoveChildren(Root)
  /\ reopen' = open \ {Root} /\ open' = {Root}
  /\ loaded' = loaded
  /\ events' = Detached(events, Root) \cup {[path |-> Root, live |-> TRUE]}
  /\ fetches' = DetachedSeq(fetches, Root)
  /\ target' = IF cursor = Root THEN target ELSE cursor
  /\ tidy' = Quiet
  /\ UNCHANGED <<server, back, marked>>

\* Mutant: the root is among the folders to open again.
RefreshRootWhole ==
  /\ RemoveChildren(Root)
  /\ reopen' = open /\ open' = {Root}
  /\ loaded' = {}
  /\ events' = Detached(events, Root) \cup {[path |-> Root, live |-> TRUE]}
  /\ fetches' = DetachedSeq(fetches, Root)
  /\ target' = IF cursor = Root THEN target ELSE cursor
  /\ tidy' = Quiet
  /\ UNCHANGED <<server, back, marked>>

\* refresh_root: what was open and where the cursor was are remembered.
RefreshRoot ==
  /\ RemoveChildren(Root)
  /\ reopen' = open \ {Root} /\ open' = {Root}
  /\ loaded' = {}
  /\ events' = Detached(events, Root) \cup {[path |-> Root, live |-> TRUE]}
  /\ fetches' = DetachedSeq(fetches, Root)
  /\ target' = IF cursor = Root THEN target ELSE cursor
  /\ tidy' = Quiet
  /\ UNCHANGED <<server, back, marked>>

\* reload_node: the folders below d still count as loaded, and so does d where its
\* node has left the tree.
ReloadNode(d, l) ==
  /\ IF l THEN RemoveChildren(d) /\ open' = open \ Below(d)
     ELSE UNCHANGED <<kids, spin, label, cursor, open>>
  /\ loaded' = loaded \cup {d}
  /\ events' = IF l THEN Detached(events, d) ELSE events
  /\ Len(fetches) < MaxLoads
  /\ fetches' = Asked(IF l THEN DetachedSeq(fetches, d) ELSE fetches, d, l)
  /\ back' = IF cursor = Root THEN Nothing ELSE cursor
  /\ tidy' = (tidy /\ l /\ Quiet /\ Below(d) \cap loaded = {})
  /\ UNCHANGED <<server, target, reopen, marked>>

-----------------------------------------------------------------------------
(* What the user does.                                                     *)

Move == moves < MaxMoves /\ moves' = moves + 1

Refresh ==
  /\ Move /\ RefreshRoot /\ acting' = Detached(acting, Root) /\ UNCHANGED edits

Reload ==
  /\ Move /\ cursor \in Dirs \ {Root} /\ ReloadNode(cursor, TRUE)
  /\ acting' = Detached(acting, cursor) /\ UNCHANGED edits

\* Go to a path, the mirror of the other tree's cursor, a permalink, a result of
\* a search.
NavigateToPath ==
  /\ Move
  /\ \E t \in Paths : NavigateStep(kids, open, events, cursor, loaded, t)
  /\ tidy' = (tidy /\ Quiet)
  /\ UNCHANGED <<server, loaded, fetches, spin, back, reopen, labels, edits>>

MoveCursor ==
  /\ Move /\ cursor' \in Visible(kids, open) \ {cursor}
  /\ UNCHANGED <<server, kids, open, loaded, events, fetches, spin, walk, labels, tidy,
                 edits>>

Open(S) ==
  /\ open' = open \cup S
  /\ events' = events \cup {[path |-> d, live |-> TRUE] : d \in S \ open}
  /\ UNCHANGED <<server, kids, cursor, loaded, fetches, spin, walk, labels, tidy, edits>>

ExpandNode == Move /\ cursor \in Dirs \ open /\ Open({cursor})

\* A filter opens the folders with a match in them.
ApplyFilter == Move /\ \E p \in Live(kids) : Open(Walk[p] \ {p})

CollapseNode ==
  /\ Move /\ cursor \in open /\ open' = open \ {cursor}
  /\ UNCHANGED <<server, kids, cursor, loaded, events, fetches, spin, walk, labels,
                 tidy, edits>>

\* The label of a node that loads is put back as it was.
Spinning(p) == \E s \in spin : s.path = p /\ s.live

ToggleMark ==
  /\ Move /\ cursor # Root
  /\ IF cursor \in marked
     THEN marked' = marked \ {cursor} /\ label' = [label EXCEPT ![cursor] = Without(Mark, @)]
     ELSE marked' = marked \cup {cursor} /\ label' = [label EXCEPT ![cursor] = With(Mark, @)]
  /\ tidy' = (tidy /\ ~Spinning(cursor) /\ Pending[1] \notin ToSet(label[cursor]))
  /\ UNCHANGED <<server, view, loaded, events, fetches, spin, walk, acting, edits>>

ClearMarks ==
  /\ marked' = {} /\ label' = [p \in Paths |-> Without(Mark, label[p])]
  /\ tidy' = (tidy /\ spin = {} /\ \A p \in Paths : Pending[1] \notin ToSet(label[p]))
  /\ UNCHANGED <<server, view, loaded, events, fetches, spin, walk, edits>>

\* An action on a file shows in its label until the folder is listed again; one
\* on the marked nodes takes the marks.
RunFileAction ==
  /\ Move
  /\ acting' = acting \cup
       {IF cursor = Root THEN [path |-> Root, live |-> TRUE, file |-> Nothing]
        ELSE [path |-> Up[cursor], live |-> TRUE, file |-> cursor]}
  /\ label' = IF cursor \in Dirs THEN label ELSE [label EXCEPT ![cursor] = With(Pending, @)]
  /\ UNCHANGED <<server, view, loaded, events, fetches, spin, walk, marked, tidy, edits>>

RunBulkAction ==
  /\ Move /\ marked # {} /\ ClearMarks
  /\ acting' = acting \cup {[path |-> Root, live |-> TRUE, file |-> Nothing]}

DropMarks == Move /\ marked # {} /\ ClearMarks /\ UNCHANGED acting

\* The action ends and the level its file is in is listed again.
RefreshAfterAction(a) ==
  /\ IF a.file = Nothing THEN RefreshRoot /\ acting' = Detached(acting \ {a}, Root)
     ELSE /\ ReloadNode(a.path, a.live)
          /\ acting' = IF a.live THEN Detached(acting \ {a}, a.path) ELSE acting \ {a}
  /\ UNCHANGED <<moves, edits>>

\* No changelist could be created for it.
ActionFails(a) ==
  /\ a.file # Nothing /\ edits < MaxEdits /\ edits' = edits + 1
  /\ acting' = acting \ {a}
  /\ label' = IF a.file \in Live(kids) /\ a.live
              THEN [label EXCEPT ![a.file] = Without(Pending, @)] ELSE label
  /\ UNCHANGED <<server, view, loaded, events, fetches, spin, walk, marked, tidy, moves>>

ServerChanges ==
  /\ edits < MaxEdits /\ edits' = edits + 1
  /\ \E p \in Paths \ {Root} :
       server' = IF p \in server THEN server \ (Below(p) \cup {p}) ELSE server \cup Walk[p]
  /\ UNCHANGED <<view, loaded, events, fetches, spin, walk, labels, tidy, moves>>

-----------------------------------------------------------------------------
(* The history of what the cursor is on, asked for when it has rested.     *)

\* The timers of earlier highlights find that theirs is not the newest.
Highlighted ==
  /\ timer' = IF cursor' \in {cursor, Root} THEN timer ELSE cursor'
  /\ UNCHANGED <<lookups, history>>

\* Mutant: the queries under way go on.
LoadHistoryAside(n) == lookups' = Append(lookups, [node |-> n, cancelled |-> FALSE])

\* A new query cancels the ones under way, in the group "history".
LoadHistory(n) ==
  lookups' = Append([i \in DOMAIN lookups |-> [lookups[i] EXCEPT !.cancelled = TRUE]],
                    [node |-> n, cancelled |-> FALSE])

TimerFires ==
  /\ timer # Nothing /\ timer' = Nothing /\ LoadHistory(timer)
  /\ UNCHANGED <<server, view, loaded, events, fetches, spin, walk, labels, history, tidy,
                 moves, edits>>

ShowFolderHistory ==
  /\ Move /\ LoadHistory(cursor)
  /\ UNCHANGED <<server, view, loaded, events, fetches, spin, walk, labels, timer, history,
                 tidy, edits>>

RenderHistory(i) ==
  /\ lookups' = RemoveAt(lookups, i)
  /\ history' = IF lookups[i].cancelled THEN history ELSE lookups[i].node
  /\ UNCHANGED <<server, view, loaded, events, fetches, spin, walk, labels, timer, tidy,
                 moves, edits>>

-----------------------------------------------------------------------------

\* The root is opened at the start.
Init ==
  /\ server = Paths
  /\ kids = [d \in Dirs |-> {}] /\ open = {Root} /\ cursor = Root
  /\ loaded = {} /\ events = {[path |-> Root, live |-> TRUE]} /\ fetches = <<>> /\ spin = {}
  /\ target = Nothing /\ back = Nothing /\ reopen = {}
  /\ marked = {} /\ acting = {} /\ label = [p \in Paths |-> <<>>]
  /\ timer = Nothing /\ lookups = <<>> /\ history = Nothing
  /\ tidy = TRUE /\ moves = 0 /\ edits = 0

User ==
  \/ Refresh \/ Reload \/ NavigateToPath \/ MoveCursor \/ ExpandNode \/ ApplyFilter
  \/ CollapseNode \/ ToggleMark \/ RunFileAction \/ RunBulkAction \/ DropMarks

Load ==
  \/ \E e \in events : Expanded(e)
  \/ \E i \in DOMAIN fetches : FetchNodeData(i) \/ Populate(i)

Act == \E a \in acting : RefreshAfterAction(a) \/ ActionFails(a)

Look == TimerFires \/ \E i \in DOMAIN lookups : RenderHistory(i)

Next ==
  \/ (User \/ Load \/ Act \/ ServerChanges) /\ Highlighted
  \/ Look \/ ShowFolderHistory

\* The server answers or fails, the UI thread serves its queue.
Spec == Init /\ [][Next]_vars /\ WF_vars(Load /\ Highlighted)

-----------------------------------------------------------------------------

\* The types.
TypeOK ==
  /\ server \subseteq Paths /\ kids \in [Dirs -> SUBSET Paths] /\ open \subseteq Dirs
  /\ cursor \in Paths /\ loaded \subseteq Dirs
  /\ events \subseteq [path : Dirs, live : BOOLEAN]
  /\ fetches \in Seq([path : Dirs, live : BOOLEAN, rows : SUBSET Paths, read : BOOLEAN])
  /\ spin \subseteq [path : Dirs, live : BOOLEAN, label : Seq({"mark", "pending"})]
  /\ target \in Paths \cup {Nothing} /\ back \in Paths \cup {Nothing}
  /\ reopen \subseteq Dirs /\ marked \subseteq Paths
  /\ label \in [Paths -> Seq({"mark", "pending"})]
  /\ acting \subseteq [path : Dirs, live : BOOLEAN, file : Paths \cup {Nothing}]
  /\ timer \in Paths \cup {Nothing} /\ history \in Paths \cup {Nothing}
  /\ lookups \in Seq([node : Paths, cancelled : BOOLEAN])
  /\ tidy \in BOOLEAN /\ moves \in 0..MaxMoves /\ edits \in 0..MaxEdits

\* In a tree that was at rest when it was refreshed or searched, a folder that is
\* open and not loading shows what the server has (P4Tree.refresh_root: a folder
\* that is "still in _loaded ... lands as an empty node").
Listed == \A d \in open \cap Live(kids) : kids[d] = server \cap Under(d)

OpenFoldersAreFilled == tidy /\ Quiet /\ edits = 0 => Listed

\* A folder whose node a tree at rest throws away is listed again when it is next opened
\* (P4Tree.refresh_root: the cache of fetched paths is cleared "in lock step" with the
\* nodes; P4Tree.reload_node: "re-populated via the same lazy-load path").
ClearedInLockStep ==
  [][Quiet => (Live(kids) \ Live(kids')) \cap loaded' = {}]_vars

\* When the loading is over nothing is in the tree that was open before a refresh and
\* is still to be opened, and the cursor is back (P4Tree.refresh_root).
RefreshRestores == tidy /\ Quiet => reopen \cap Live(kids) = {} /\ target = Nothing

\* A walk ends on the path or on a folder that is listed and has no way on
\* (P4Tree.navigate_to_path: "the deepest reachable ancestor").
WalkEndsThere ==
  [][tidy' /\ target # Nothing /\ target' = Nothing =>
       LET n == Deepest(kids', target)
       IN /\ n \in Visible(kids', open') => cursor' = n
          /\ n = target \/ n \in loaded'
          /\ n = target \/ \A f \in ToSet(fetches') : f.path # n]_vars

\* Every walk ends, whatever happens to the tree on the way
\* (P4Tree._navigate_step resumed by P4Tree._populate).
WalkEnds == (target # Nothing) ~> (target = Nothing)

\* A label shows the mark when its node is marked, through every reload
\* (P4Tree._decorate: "a mark survives a subtree reload"), and says that an action
\* is under way only while one is (P4VApp._run_file_action: "so the row doesn't stay").
LabelsAreTrue ==
  tidy =>
    /\ spin = {} => \A p \in Live(kids) : "mark" \in ToSet(label[p]) <=> p \in marked
    /\ \A p \in Paths : "pending" \in ToSet(label[p]) => \E a \in acting : a.file = p

\* When the cursor has rested and everything is answered, the history is that of
\* the node under it (P4VApp.on_tree_node_highlighted).
HistoryFollowsCursor ==
  timer = Nothing /\ lookups = <<>> /\ cursor # Root => history = cursor
==============================================================================
