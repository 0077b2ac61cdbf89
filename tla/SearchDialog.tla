---------------------------- MODULE SearchDialog -----------------------------
(***************************************************************************)
(* The dialog of Fast Search (p4v_tui/widgets/search_modal.py).  What is typed *)
(* is looked up by worker threads a moment after the last key; answers may     *)
(* overtake each other, a grep streams its rows, the highlighted row has a     *)
(* preview that is fetched from the server, and Enter closes the dialog with   *)
(* that row.                                                                *)
(***************************************************************************)
EXTENDS SearchQueries

CONSTANTS
  Contents,     \* the files a grep finds for a query, in the order it finds them
  Tiers,        \* the caps on the number of rows
  CacheSize,    \* PREVIEW_CACHE_SIZE
  MaxMoves,     \* bound: what the user does
  MaxFails,     \* bound: calls that fail
  MaxWorkers,   \* bound: queries under way
  Empty,        \* the empty query
  Nothing

ASSUME SearchDialogAssumption ==
  /\ Tiers \in Seq(Nat \ {0}) /\ Tiers # <<>> /\ CacheSize \in Nat \ {0}
  /\ MaxMoves \in Nat /\ MaxFails \in Nat /\ MaxWorkers \in Nat \ {0}
  /\ Empty \notin Queries /\ Nothing \notin Files \cup Logs
  /\ \A q \in DOMAIN Contents : Contents[q] \in Seq(Files)

VARIABLES
  text,      \* the query in the input
  armed,     \* the timer since the last key runs
  cap,       \* the tier of the cap
  workers,   \* queries under way, the oldest first
  known,     \* the changelists of the index
  hits,      \* the results
  options,   \* the rows of the list: results, or corrections
  row,       \* the highlighted option of the list
  cursor,    \* the result that is taken for the highlighted one
  events,    \* OptionHighlighted events that wait
  fetches,   \* previews under way
  preview,   \* the preview pane: whose it is, and what of it is there
  cache,     \* the files whose contents are kept, the oldest first
  recent,    \* the saved queries, the newest first
  place,     \* where the user is in them; 0 before the first
  doubled,   \* a query was started while the same one was under way
  result,    \* what the dialog was closed with
  moves, fails

input == <<text, armed, cap, recent, place>>
list  == <<hits, options, row, cursor, events>>
pane  == <<fetches, preview, cache>>
vars  == <<input, workers, known, list, pane, doubled, result, moves, fails>>

Limit == Tiers[cap]
Blank == [path |-> Nothing, state |-> "none"]

\* A correction that is taken becomes what was typed.
Correction(words) ==
  [mode |-> "plain", words |-> words, user |-> "", type |-> "", regex |-> <<>>,
   cls |-> FALSE, since |-> 0, until |-> 0]

-----------------------------------------------------------------------------
(* The preview of a row.                                                   *)

\* Mutant: whatever arrives is drawn.
RenderedBlind(p, H, c) == [path |-> p, state |-> "shown"]

\* What is not of the highlighted row is dropped; without results nothing is.
Rendered(p, H, c) ==
  IF c \in DOMAIN H /\ H[c] # p THEN preview ELSE [path |-> p, state |-> "shown"]

\* A file of the cache becomes the newest there.
Refreshed(p) == Append(SelectSeq(cache, LAMBDA q : q # p), p)

\* From the cache or from the server.
LoadPreviewFor(p, H, c) ==
  IF p \in ToSet(cache)
  THEN /\ cache' = Refreshed(p)
       /\ preview' = Rendered(p, H, c) /\ UNCHANGED fetches
  ELSE /\ preview' = [path |-> p, state |-> "loading"] /\ fetches' = fetches \cup {p}
       /\ UNCHANGED cache

ShowNoPreview == preview' = Blank /\ UNCHANGED <<fetches, cache>>

\* The cache makes room for the file also when it has it.
FetchPreview(p) ==
  /\ p \in Files /\ fetches' = fetches \ {p}
  /\ LET kept == IF Len(cache) >= CacheSize THEN Tail(cache) ELSE cache
     IN cache' = IF p \in ToSet(kept) THEN kept ELSE Append(kept, p)
  /\ preview' = Rendered(p, hits, cursor)
  /\ UNCHANGED <<input, workers, known, list, doubled, result, moves, fails>>

\* The message of a failed one is shown, whatever the pane is for by now; what is
\* no file of the server always fails.
RenderPreviewError(p) ==
  /\ IF p \in Files THEN fails < MaxFails /\ fails' = fails + 1 ELSE UNCHANGED fails
  /\ fetches' = fetches \ {p} /\ preview' = [path |-> p, state |-> "error"]
  /\ UNCHANGED <<input, workers, known, list, cache, doubled, result, moves>>

\* The event of a row sets the cursor, and loads its preview.
OptionHighlighted ==
  /\ events # <<>> /\ events' = Tail(events)
  /\ LET p == Head(events)
     IN /\ cursor' = IF p \in ToSet(hits) THEN CHOOSE i \in DOMAIN hits : hits[i] = p ELSE cursor
        /\ LoadPreviewFor(p, hits, cursor')
  /\ UNCHANGED <<input, workers, known, hits, options, row, doubled, result, moves, fails>>

-----------------------------------------------------------------------------
(* Queries.                                                                *)

\* Drawing the list highlights the first result.
RenderResults(H, S) ==
  /\ hits' = H
  /\ options' = IF text = Empty THEN {} ELSE IF H = <<>> THEN S ELSE ToSet(H)
  /\ row' = IF H = <<>> \/ text = Empty THEN Nothing ELSE H[1]
  /\ events' = IF H = <<>> \/ text = Empty THEN events ELSE Append(events, H[1])

\* A new grep tells the one before it to stop.
RunQueryWorker(q, limit) ==
  /\ Len(workers) < MaxWorkers
  /\ workers' = Append(
       [i \in DOMAIN workers |->
          IF q.mode = "grep" /\ workers[i].query.mode = "grep"
          THEN [workers[i] EXCEPT !.cancelled = TRUE] ELSE workers[i]],
       [query |-> q, limit |-> limit, rows |-> <<>>, corrections |-> {}, done |-> FALSE,
        cancelled |-> FALSE])
  /\ doubled' = (doubled \/ \E w \in ToSet(workers) : w.query = q)

\* The timer fires; an empty query clears the list at once.
DispatchQuery ==
  /\ armed /\ armed' = FALSE
  /\ IF text = Empty
     THEN RenderResults(<<>>, {}) /\ ShowNoPreview /\ UNCHANGED <<workers, doubled>>
     ELSE RunQueryWorker(text, Limit) /\ UNCHANGED <<hits, options, row, events, pane>>
  /\ UNCHANGED <<text, cap, recent, place, known, cursor, result, moves, fails>>

\* The index answers, after a look at the server where it knows no changelist.
QueryAnswered(i) ==
  LET w == workers[i]
      log == w.query.mode = "cl" \/ (w.query.mode = "nl" /\ w.query.cls)
      seeds == log /\ Seeds(w.query, known, w.limit)
  IN /\ w.query.mode # "grep" /\ ~w.done
     /\ \/ /\ known' = IF seeds THEN Logs ELSE known
           /\ workers' = [workers EXCEPT ![i].done = TRUE,
                ![i].rows = Answer(w.query, known, w.limit),
                ![i].corrections = Suggested(w.query, w.limit)]
           /\ UNCHANGED fails
        \/ /\ seeds /\ fails < MaxFails /\ fails' = fails + 1
           /\ workers' = [workers EXCEPT ![i].done = TRUE] /\ UNCHANGED known
     /\ UNCHANGED <<input, list, pane, doubled, result, moves>>

\* The files a grep finds.
Matches(q) == IF q \in DOMAIN Contents THEN Contents[q] ELSE <<>>

\* A row of a grep, and perhaps a flush of those that are there.
GrepMatch(i) ==
  LET w == workers[i]
      rows == First(Len(w.rows) + 1, Matches(w.query))
  IN /\ w.query.mode = "grep" /\ ~w.done /\ ~w.cancelled
     /\ Len(w.rows) < w.limit /\ rows # w.rows
     /\ workers' = [workers EXCEPT ![i].rows = rows]
     /\ \/ UNCHANGED <<list, pane>>
        \/ /\ text = w.query
           /\ RenderResults(rows, {})
           /\ IF cursor = 1 THEN LoadPreviewFor(rows[1], rows, cursor) ELSE UNCHANGED pane
           /\ UNCHANGED cursor
     /\ UNCHANGED <<input, known, doubled, result, moves, fails>>

GrepEnds(i) ==
  LET w == workers[i]
  IN /\ w.query.mode = "grep" /\ ~w.done
     /\ w.cancelled \/ Len(w.rows) = w.limit \/ Len(w.rows) = Len(Matches(w.query))
     /\ workers' = [workers EXCEPT ![i].done = TRUE]
     /\ UNCHANGED <<input, known, list, pane, doubled, result, moves, fails>>

\* A query that is found moves to the head of the saved ones.
PushHistory(q) ==
  /\ recent' = <<q>> \o SelectSeq(recent, LAMBDA p : p # q)
  /\ place' = 0

\* Mutant: an answer to what was in the input earlier is listed too.
OnQueryResultLate(i) ==
  LET w == workers[i]
  IN /\ w.done /\ workers' = RemoveAt(workers, i)
     /\ RenderResults(w.rows, w.corrections) /\ cursor' = 1
     /\ IF w.rows = <<>> THEN ShowNoPreview ELSE LoadPreviewFor(w.rows[1], w.rows, 1)
     /\ PushHistory(w.query)
     /\ UNCHANGED <<text, armed, cap, known, doubled, result, moves, fails>>

\* An answer to what is no longer in the input is dropped.
OnQueryResult(i) ==
  LET w == workers[i]
  IN /\ w.done /\ workers' = RemoveAt(workers, i)
     /\ IF w.query # text THEN UNCHANGED <<list, pane, recent, place>>
        ELSE /\ RenderResults(w.rows, w.corrections) /\ cursor' = 1
             /\ IF w.rows = <<>> THEN ShowNoPreview ELSE LoadPreviewFor(w.rows[1], w.rows, 1)
             /\ PushHistory(w.query)
     /\ UNCHANGED <<text, armed, cap, known, doubled, result, moves, fails>>

-----------------------------------------------------------------------------
(* What the user does.                                                     *)

Move == result = Nothing /\ moves < MaxMoves /\ moves' = moves + 1

\* Every change of the input sets the timer again.
InputChanged(q) == text' = q /\ armed' = (armed \/ q # text)

Type ==
  /\ Move /\ \E q \in Queries \cup {Empty} : InputChanged(q)
  /\ UNCHANGED <<cap, recent, place, workers, known, list, pane, doubled, result, fails>>

\* Ctrl+P and Ctrl+N.
StepHistory ==
  /\ Move /\ recent # <<>>
  /\ \E p \in {place - 1, place + 1} :
       /\ place' = IF p < 0 THEN 0 ELSE IF p > Len(recent) THEN Len(recent) ELSE p
       /\ IF place' = 0 THEN UNCHANGED <<text, armed>> ELSE InputChanged(recent[place'])
  /\ UNCHANGED <<cap, recent, workers, known, list, pane, doubled, result, fails>>

CycleCap ==
  /\ Move /\ cap' = (cap % Len(Tiers)) + 1
  /\ IF text = Empty
     THEN RenderResults(hits, {}) /\ UNCHANGED <<workers, doubled>>
     ELSE RunQueryWorker(text, Tiers[cap']) /\ UNCHANGED <<hits, options, row, events>>
  /\ UNCHANGED <<text, armed, recent, place, known, cursor, pane, result, fails>>

MoveHighlight ==
  /\ Move
  /\ \E p \in options \ {row} : row' = p /\ events' = Append(events, p)
  /\ UNCHANGED <<input, workers, known, hits, options, cursor, pane, doubled, result, fails>>

Dismiss(kind, p) ==
  /\ result' = [kind |-> kind, path |-> p]
  /\ UNCHANGED <<input, workers, known, list, pane, doubled, fails>>

\* A correction goes into the input.
TakeCorrection(p) ==
  /\ InputChanged(Correction(p))
  /\ UNCHANGED <<cap, recent, place, workers, known, list, pane, doubled, result, fails>>

Correct(p) == p \in options \ ToSet(hits)

\* Enter opens the result of the cursor.
OpenInTree ==
  /\ Move
  /\ IF Correct(row) THEN TakeCorrection(row)
     ELSE Dismiss("tree", IF row # Nothing /\ cursor \in DOMAIN hits THEN hits[cursor] ELSE Nothing)

\* The mouse picks a row itself.
OptionSelected ==
  Move /\ \E p \in options : IF Correct(p) THEN TakeCorrection(p) ELSE Dismiss("tree", p)

\* The viewer, the diff and the sync of the result of the cursor.
ActOnHit ==
  /\ Move /\ cursor \in DOMAIN hits
  /\ \E kind \in {"viewer", "diff", "get"} : Dismiss(kind, hits[cursor])

Cancel == Move /\ Dismiss("none", Nothing)
RebuildIndex == Move /\ Dismiss("rebuild", Nothing)

\* The dialog is opened again, perhaps with the path of a tree node; the threads
\* of the one before answer to nobody.
Open ==
  /\ result # Nothing /\ moves < MaxMoves /\ moves' = moves + 1
  /\ \E q \in {p \in Queries : p.mode = "plain"} \cup {Empty} :
       /\ text' = q /\ armed' = (q # Empty)
       /\ workers' = IF q = Empty THEN <<>>
                     ELSE <<[query |-> q, limit |-> Tiers[1], rows |-> <<>>, corrections |-> {},
                             done |-> FALSE, cancelled |-> FALSE]>>
  /\ cap' = 1 /\ place' = 0 /\ doubled' = FALSE /\ result' = Nothing
  /\ hits' = <<>> /\ options' = {} /\ row' = Nothing /\ cursor' = 1 /\ events' = <<>>
  /\ fetches' = {} /\ preview' = Blank /\ cache' = <<>>
  /\ UNCHANGED <<recent, known, fails>>

-----------------------------------------------------------------------------

Init ==
  /\ text = Empty /\ armed = FALSE /\ cap = 1 /\ recent = <<>> /\ place = 0
  /\ workers = <<>> /\ known = {} /\ doubled = FALSE /\ result = Nothing
  /\ hits = <<>> /\ options = {} /\ row = Nothing /\ cursor = 1 /\ events = <<>>
  /\ fetches = {} /\ preview = Blank /\ cache = <<>>
  /\ moves = 0 /\ fails = 0

User ==
  \/ Type \/ StepHistory \/ CycleCap \/ MoveHighlight \/ OpenInTree \/ OptionSelected
  \/ ActOnHit \/ Cancel \/ RebuildIndex

Query(i) == QueryAnswered(i) \/ GrepMatch(i) \/ GrepEnds(i) \/ OnQueryResult(i)

Serve ==
  /\ result = Nothing
  /\ \/ DispatchQuery \/ OptionHighlighted
     \/ \E i \in DOMAIN workers : Query(i)
     \/ \E p \in fetches : FetchPreview(p) \/ RenderPreviewError(p)

Next == User \/ Open \/ Serve
Spec == Init /\ [][Next]_vars

-----------------------------------------------------------------------------

Rest == result = Nothing /\ ~armed /\ workers = <<>>

\* What is found for q when nothing fails.
Complete(q) ==
  IF q = Empty THEN <<>>
  ELSE IF q.mode = "grep" THEN First(Limit, Matches(q)) ELSE Answer(q, Logs, Limit)

\* The types.
TypeOK ==
  /\ armed \in BOOLEAN /\ cap \in DOMAIN Tiers /\ known \subseteq Logs
  /\ Len(workers) <= MaxWorkers /\ ToSet(hits) \subseteq Files \cup Logs
  /\ row \in options \cup {Nothing} /\ cursor \in Nat \ {0}
  /\ preview.state \in {"none", "loading", "shown", "error"}
  /\ place \in 0..Len(recent) /\ doubled \in BOOLEAN
  /\ moves \in 0..MaxMoves /\ fails \in 0..MaxFails

\* At rest the results are those of what is in the input, whole, whichever query
\* was answered last (SearchModal._on_query_result).
ResultsFollowQuery ==
  Rest /\ ~doubled /\ fails = 0 => hits = Complete(text)

\* When everything has arrived the pane shows the file of the cursor
\* (SearchModal._render_preview: "Stale-result guard").
PreviewFollowsCursor ==
  Rest /\ events = <<>> /\ fetches = {} /\ hits # <<>> /\ preview.state # "error" =>
    preview = [path |-> hits[cursor], state |-> "shown"]
==============================================================================
