----------------------------- MODULE ScreenProofs -----------------------------
(***************************************************************************)
(* Proofs about the main screen.                                            *)
(*                                                                         *)
(* PaneLoads, for every set of changelists and any number of loads.  The       *)
(* table is in order and lists what its filter lets through (Sorted, by how    *)
(* many changelists are ahead of each); PanesInv adds where the cursor may be  *)
(* (CursorInv), that the last highlight event is that of the cursor's row      *)
(* (LastEvent), and that the last detail asked for is that of the last event   *)
(* (LastDetail).                                                            *)
(*                                                                         *)
(* Navigator, for every configuration of its cycle.  NavInv says of the narrow *)
(* layout what it is at rest (Rest), and while requests for the focus are on   *)
(* their way that they are all for one widget, on the page the user chose      *)
(* (Aims), but for the two requests of the start (Fresh).  In the wide layout  *)
(* the page to resume is the one that was chosen.  The requests and the pages  *)
(* that follow them run out (Pull).                                         *)
(***************************************************************************)
EXTENDS MCScreen, FunctionTheorems, FiniteSetTheorems, SequenceTheorems, TLAPS

-----------------------------------------------------------------------------
(* The order of the table.                                                 *)

\* Of two changelists one comes before the other, and what comes before one that
\* comes before a third comes before the third.
LEMMA BeforeOrders ==
  ASSUME NEW a \in Nat, NEW b \in Nat, NEW c \in Nat
  PROVE  /\ ~Before(a, a)
         /\ Before(a, b) \/ Before(b, a) \/ a = b
         /\ Before(a, b) /\ Before(b, c) => Before(a, c)
BY DEF Before

\* A part of a finite set that lacks an element is smaller.
LEMMA FewerInPart ==
  ASSUME NEW Q, IsFiniteSet(Q), NEW P \in SUBSET Q, NEW x \in Q, x \notin P
  PROVE  Cardinality(P) \in Nat /\ Cardinality(Q) \in Nat /\ Cardinality(P) < Cardinality(Q)
<1>1. Cardinality(P) \in Nat /\ Cardinality(Q) \in Nat
  BY FS_Subset, FS_CardinalityType
<1>2. Cardinality(P) <= Cardinality(Q) /\ Cardinality(P) # Cardinality(Q)
  BY FS_Subset
<1> QED
  BY <1>1, <1>2

\* No two changelists have the same number of others before them.
LEMMA AheadIsInjective ==
  ASSUME NEW T, IsFiniteSet(T), T \subseteq Nat, NEW a \in T, NEW b \in T, Before(a, b)
  PROVE  Ahead(a, T) < Ahead(b, T)
<1> DEFINE P == {d \in T : Before(d, a)}
           Q == {d \in T : Before(d, b)}
<1>1. Q \subseteq T /\ P \subseteq Q /\ a \in Q /\ a \notin P
  <2>1. ASSUME NEW d \in T, Before(d, a) PROVE Before(d, b)
    BY <2>1, BeforeOrders
  <2> QED
    BY <2>1, BeforeOrders
<1>2. IsFiniteSet(Q)
  BY FS_Subset
<1>3. Cardinality(P) < Cardinality(Q)
  BY <1>1, <1>2, FewerInPart
<1> QED
  BY <1>3 DEF Ahead

\* A set of changelists is sorted without loss: every number of the list is
\* taken by one of them.
LEMMA SortedListsAll ==
  ASSUME NEW T, IsFiniteSet(T), T \subseteq Nat
  PROVE  /\ Sorted(T) \in Seq(T)
         /\ ToSet(Sorted(T)) = T
         /\ \A i, j \in 1..Len(Sorted(T)) : i < j => Before(Sorted(T)[i], Sorted(T)[j])
<1> DEFINE n == Cardinality(T)
           f == [c \in T |-> Ahead(c, T)]
<1>0. \A x, y \in T : Before(x, y) => Ahead(x, T) < Ahead(y, T)
  BY AheadIsInjective
<1>1. n \in Nat
  BY FS_CardinalityType
<1>2. ASSUME NEW c \in T PROVE Ahead(c, T) \in 0..(n - 1)
  <2> DEFINE P == {d \in T : Before(d, c)}
  <2>1. P \subseteq T /\ c \in T /\ c \notin P
    BY BeforeOrders
  <2>2. Cardinality(P) \in Nat /\ Cardinality(P) < n
    BY <2>1, FewerInPart
  <2> QED
    BY <2>2, <1>1 DEF Ahead
<1>3. ASSUME NEW a \in T, NEW b \in T, Ahead(a, T) = Ahead(b, T) PROVE a = b
  <2>1. a \in Nat /\ b \in Nat /\ Ahead(a, T) \in 0..(n - 1) /\ Ahead(b, T) \in 0..(n - 1)
    BY <1>2
  <2>2. ~Before(a, b) /\ ~Before(b, a)
    BY <1>0, <1>1, <1>3, <2>1
  <2> QED
    BY <2>1, <2>2, BeforeOrders
<1>4. IsFiniteSet(0..(n - 1)) /\ Cardinality(0..(n - 1)) = n
  <2>1. 0 \in Int /\ n - 1 \in Int /\ (IF 0 > n - 1 THEN 0 ELSE n - 1 - 0 + 1) = n
    BY <1>1
  <2> QED
    BY <2>1, FS_Interval
<1>5. f \in Surjection(T, 0..(n - 1))
  <2>1. f \in [T -> 0..(n - 1)]
    BY <1>2
  <2>2. \A a, b \in T : f[a] = f[b] => a = b
    BY <1>3
  <2>3. f \in Injection(T, 0..(n - 1))
    BY <2>1, <2>2, Fun_IsInj
  <2> QED
    BY <2>3, <1>4, FS_Injection
<1>6. ASSUME NEW i \in 1..n
      PROVE  Sorted(T)[i] \in T /\ Ahead(Sorted(T)[i], T) = i - 1
  <2>1. i - 1 \in 0..(n - 1)
    BY <1>1
  <2>2. \E c \in T : f[c] = i - 1
    BY <1>5, <2>1 DEF Surjection
  <2> QED
    BY <2>2 DEF Sorted
<1>7. DOMAIN Sorted(T) = 1..n
  BY DEF Sorted
<1>8. Sorted(T) \in [1..n -> T]
  BY <1>6 DEF Sorted
<1>9. Sorted(T) \in Seq(T) /\ Len(Sorted(T)) = n
  BY <1>1, <1>8
<1>10. ASSUME NEW c \in T PROVE c \in ToSet(Sorted(T))
  <2>1. Ahead(c, T) + 1 \in 1..n
    BY <1>1, <1>2
  <2>2. Ahead(Sorted(T)[Ahead(c, T) + 1], T) = Ahead(c, T) /\ Sorted(T)[Ahead(c, T) + 1] \in T
    BY <2>1, <1>2, <1>6
  <2>3. Sorted(T)[Ahead(c, T) + 1] = c
    BY <2>2, <1>3
  <2> QED
    BY <2>1, <2>3, <1>7 DEF ToSet
<1>11. ASSUME NEW i \in 1..n, NEW j \in 1..n, i < j
       PROVE  Before(Sorted(T)[i], Sorted(T)[j])
  <2>1. Ahead(Sorted(T)[i], T) < Ahead(Sorted(T)[j], T)
    BY <1>1, <1>6, <1>11
  <2>2. Sorted(T)[i] \in T /\ Sorted(T)[j] \in T
    BY <1>6
  <2>3. ~Before(Sorted(T)[j], Sorted(T)[i]) /\ Sorted(T)[i] # Sorted(T)[j]
    <3>1. Ahead(Sorted(T)[i], T) = i - 1 /\ Ahead(Sorted(T)[j], T) = j - 1
      BY <1>6
    <3>2. ~(j - 1 < i - 1)
      BY <1>1, <1>11
    <3>3. \A x, y \in T : Ahead(x, T) = i - 1 /\ Ahead(y, T) = j - 1 => ~Before(y, x) /\ x # y
      BY <1>0, <1>1, <1>11, <3>2
    <3> QED
      BY <2>2, <3>1, <3>3
  <2> QED
    BY <2>2, <2>3, BeforeOrders
<1> QED
  BY <1>6, <1>7, <1>9, <1>10, <1>11 DEF ToSet

\* A table lists what its filter lets through, and the default changelist on top.
LEMMA ViewedLists ==
  ASSUME NEW S \in SUBSET Listed, NEW v \in Views
  PROVE  /\ Viewed(S, v) \in Seq(Listed)
         /\ ToSet(Viewed(S, v)) = S \cap (v \cup {Default})
<1> DEFINE T == S \cap v
<1>1. IsFiniteSet(T) /\ T \subseteq Nat /\ T \subseteq Changes /\ Default \notin T
  <2>1. IsFiniteSet(Changes) /\ v \subseteq Changes /\ Changes \subseteq Nat /\ Default \notin Changes
    BY PaneLoadsAssumption
  <2> QED
    BY <2>1, FS_Subset
<1>2. Sorted(T) \in Seq(T) /\ ToSet(Sorted(T)) = T
  BY <1>1, SortedListsAll
<1>3. Sorted(T) \in Seq(Listed)
  BY <1>1, <1>2, SeqMonotonic DEF Listed
<1> HIDE DEF T
<1>4. CASE Default \in S
  <2>1. Viewed(S, v) = <<Default>> \o Sorted(T) /\ <<Default>> \in Seq(Listed)
    BY <1>4 DEF Viewed, T, Listed
  <2>2. ToSet(<<Default>> \o Sorted(T)) = {Default} \cup ToSet(Sorted(T))
    <3>1. <<Default>> \o Sorted(T) \in Seq(Listed)
      BY <1>3, <2>1
    <3> DEFINE s == Sorted(T)
               r == <<Default>> \o Sorted(T)
    <3>2. DOMAIN r = 1..(1 + Len(s)) /\ r[1] = Default /\ DOMAIN s = 1..Len(s) /\ Len(s) \in Nat
      BY <1>3, <2>1
    <3>3. \A i \in 1..Len(s) : r[i + 1] = s[i] /\ i + 1 \in DOMAIN r
      BY <1>3, <2>1, <3>2
    <3>4. \A i \in DOMAIN r : r[i] = Default \/ (i - 1 \in DOMAIN s /\ r[i] = s[i - 1])
      BY <3>2, <3>3
    <3> HIDE DEF r, s
    <3>5. 1 \in DOMAIN r
      BY <3>2
    <3>6. ToSet(r) = {Default} \cup ToSet(s)
      BY <3>2, <3>3, <3>4, <3>5 DEF ToSet
    <3> QED
      BY <3>6 DEF r, s
  <2>3. Viewed(S, v) \in Seq(Listed)
    BY <1>3, <2>1
  <2> QED
    BY <1>2, <1>4, <2>1, <2>2, <2>3 DEF T
<1>5. CASE Default \notin S
  <2>1. Viewed(S, v) = Sorted(T)
    BY <1>3, <1>5 DEF Viewed, T
  <2> QED
    BY <1>1, <1>2, <1>3, <1>5, <2>1 DEF T
<1> QED
  BY <1>4, <1>5

-----------------------------------------------------------------------------
(* The table and its details.                                              *)

CursorInv == cursor \in 0..Len(rows) /\ (cursor = 0 <=> rows = <<>>)

\* The last event names the row of the cursor; when no event waits, the details
\* asked for last are those of that row.
LastEvent  == cursor # 0 /\ events # <<>> => events[Len(events)] = cursor
LastDetail == cursor # 0 /\ events = <<>> /\ details # <<>> => details[Len(details)] = rows[cursor]

PanesInv ==
  /\ TypeOK /\ CursorInv /\ LastEvent
  /\ InOrder => LastDetail /\ DetailFollowsCursor

\* The pending changelists are listed at start-up, into an empty table.
LEMMA PanesInit == ASSUME Init PROVE PanesInv
<1>d. load \in [Loaders -> [pc : {"idle", "start", "query", "default", "render"}, rows : SUBSET Listed]]
  BY DEF Init, Idle
<1>a. MaxEdits \in Nat /\ MaxMoves \in Nat
  BY PaneLoadsAssumption
<1>b. /\ pending \subseteq Listed /\ rows \in Seq(Listed) /\ details \in Seq(Listed) /\ events \in Seq(Nat)
       /\ cached \subseteq Listed /\ detail \in Listed \cup {Nothing} /\ view \in Views
  BY DEF Init, Listed
<1>c. cursor \in Nat /\ inFlight \in BOOLEAN /\ spinning \in BOOLEAN /\ edits \in 0..MaxEdits /\ moves \in 0..MaxMoves
  <2>1. cursor = 0 /\ edits = 0 /\ moves = 0
    BY DEF Init
  <2>2. inFlight \in BOOLEAN /\ spinning \in BOOLEAN
    BY DEF Init
  <2> QED
    BY <1>a, <2>1, <2>2
<1>1. TypeOK
  BY <1>b, <1>c, <1>d DEF TypeOK
<1>2. CursorInv /\ LastEvent /\ LastDetail /\ DetailFollowsCursor
  BY DEF Init, CursorInv, LastEvent, LastDetail, DetailFollowsCursor, Selected
<1> QED
  BY <1>1, <1>2 DEF PanesInv

\* A changelist is found in its row.
LEMMA RowOfFinds ==
  ASSUME NEW new \in Seq(Listed), new # <<>>, NEW c
  PROVE  /\ RowOf(c, new) \in 1..Len(new)
         /\ c \in ToSet(new) => new[RowOf(c, new)] = c
<1>1. CASE c \in ToSet(new)
  <2>1. \E i \in DOMAIN new : new[i] = c
    BY <1>1 DEF ToSet
  <2> QED
    BY <1>1, <2>1 DEF RowOf
<1>2. CASE c \notin ToSet(new)
  <2>1. Len(new) \in Nat /\ Len(new) # 0
    BY EmptySeq
  <2> QED
    BY <1>2, <2>1 DEF RowOf
<1> QED
  BY <1>1, <1>2

\* A table that is drawn sends the event of the row its cursor ends on.
LEMMA DrawKeeps ==
  ASSUME PanesInv, NEW S \in SUBSET Listed, NEW v \in Views, Draw(S, v)
  PROVE  /\ view' \in Views /\ cached' \subseteq Listed /\ rows' \in Seq(Listed)
         /\ cursor' \in Nat /\ events' \in Seq(Nat) /\ detail' \in Listed \cup {Nothing}
         /\ CursorInv' /\ LastEvent'
         /\ cursor' # 0 => events' # <<>>
         /\ Selected \in ToSet(rows') => rows'[cursor'] = Selected
<1> DEFINE new == Viewed(S, v)
<1>1. new \in Seq(Listed)
  BY ViewedLists
<1> HIDE DEF new
<1>2. events \in Seq(Nat) /\ detail \in Listed \cup {Nothing}
  BY DEF PanesInv, TypeOK
<1>3. /\ cached' = S /\ view' = v /\ rows' = new
      /\ cursor' = (IF new = <<>> THEN 0 ELSE RowOf(Selected, new))
      /\ events' = events \o (IF cursor' = 0 THEN <<>> ELSE IF cursor' = 1 THEN <<1>> ELSE <<1, cursor'>>)
      /\ detail' = IF Selected \in ToSet(new) THEN detail ELSE Nothing
  BY DEF Draw, new
<1>4. CASE new = <<>>
  <2>1. cursor' = 0 /\ events' = events
    BY <1>2, <1>3, <1>4
  <2>2. ToSet(new) = {}
    BY <1>4 DEF ToSet
  <2> QED
    BY <1>1, <1>2, <1>3, <1>4, <2>1, <2>2 DEF CursorInv, LastEvent
<1>5. CASE new # <<>>
  <2>1. cursor' \in 1..Len(new) /\ (Selected \in ToSet(new) => new[cursor'] = Selected)
    BY <1>1, <1>3, <1>5, RowOfFinds
  <2>2. CASE cursor' = 1
    <3>1. events' = events \o <<1>>
      BY <1>3, <2>2
    <3> QED
      BY <1>1, <1>2, <1>3, <1>5, <2>1, <2>2, <3>1 DEF CursorInv, LastEvent
  <2>3. CASE cursor' # 1
    <3>1. events' = events \o <<1, cursor'>> /\ cursor' \in Nat
      BY <1>1, <1>3, <2>1, <2>3
    <3>2. events' \in Seq(Nat) /\ events' # <<>> /\ events'[Len(events')] = cursor'
      BY <1>2, <3>1
    <3> QED
      BY <1>1, <1>2, <1>3, <1>5, <2>1, <2>3, <3>2 DEF CursorInv, LastEvent
  <2> QED
    BY <2>2, <2>3
<1> QED
  BY <1>4, <1>5

\* One step per action.
LEMMA PanesKept == ASSUME PanesInv, [Next]_vars PROVE PanesInv'
<1>0. TypeOK /\ CursorInv /\ LastEvent /\ (InOrder => LastDetail /\ DetailFollowsCursor)
  BY DEF PanesInv
<1>A. /\ load \in [Loaders -> [pc : {"idle", "start", "query", "default", "render"}, rows : SUBSET Listed]]
      /\ pending \subseteq Listed /\ view \in Views /\ cached \subseteq Listed
      /\ rows \in Seq(Listed) /\ cursor \in Nat /\ events \in Seq(Nat) /\ details \in Seq(Listed)
      /\ detail \in Listed \cup {Nothing} /\ edits \in 0..MaxEdits /\ moves \in 0..MaxMoves
      /\ MaxEdits \in Nat /\ MaxMoves \in Nat
  BY <1>0, PaneLoadsAssumption DEF TypeOK
<1> DEFINE LoadsOK == /\ load' \in [Loaders -> [pc : {"idle", "start", "query", "default", "render"},
                                               rows : SUBSET Listed]]
                      /\ inFlight' \in BOOLEAN /\ spinning' \in BOOLEAN
                      /\ pending' \subseteq Listed /\ edits' \in 0..MaxEdits /\ moves' \in 0..MaxMoves
<1>1. ASSUME LoadsOK, UNCHANGED <<table, info>> PROVE PanesInv'
  BY <1>0, <1>1 DEF PanesInv, TypeOK, table, info, CursorInv, LastEvent, LastDetail,
       DetailFollowsCursor, Selected
<1>2. ASSUME LoadsOK, UNCHANGED details, NEW S \in SUBSET Listed, NEW v \in Views, Draw(S, v)
      PROVE  PanesInv'
  <2>1. /\ view' \in Views /\ cached' \subseteq Listed /\ rows' \in Seq(Listed)
        /\ cursor' \in Nat /\ events' \in Seq(Nat) /\ detail' \in Listed \cup {Nothing}
        /\ CursorInv' /\ LastEvent' /\ (cursor' # 0 => events' # <<>>)
    BY <1>2, DrawKeeps
  <2>2. LastDetail' /\ DetailFollowsCursor'
    BY <2>1 DEF LastDetail, DetailFollowsCursor, Selected
  <2> QED
    BY <1>A, <1>2, <2>1, <2>2 DEF PanesInv, TypeOK
<1>3. ASSUME NEW l \in Loaders, Tick(l) PROVE PanesInv'
  BY <1>0, <1>A, <1>1, <1>3 DEF Tick, Start, TypeOK
<1>4. ASSUME NEW l \in Loaders, Refresh(l) PROVE PanesInv'
  BY <1>0, <1>A, <1>1, <1>4 DEF Refresh, Start, TypeOK
<1>5. ASSUME NEW l \in Loaders, Begin(l) PROVE PanesInv'
  BY <1>0, <1>A, <1>1, <1>5 DEF Begin, TypeOK
<1>B. ASSUME NEW l \in Loaders, NEW S \in SUBSET Listed, NEW pc \in {"default", "render"}, Answered(l, S, pc)
      PROVE  /\ load' \in [Loaders -> [pc : {"idle", "start", "query", "default", "render"}, rows : SUBSET Listed]]
             /\ edits' \in 0..MaxEdits
  <2>1. load[l] \in [pc : {"idle", "start", "query", "default", "render"}, rows : SUBSET Listed]
    BY <1>A
  <2>2. /\ [pc |-> pc, rows |-> load[l].rows \cup S] \in
              [pc : {"idle", "start", "query", "default", "render"}, rows : SUBSET Listed]
        /\ [load[l] EXCEPT !.pc = pc] \in
              [pc : {"idle", "start", "query", "default", "render"}, rows : SUBSET Listed]
    BY <1>B, <2>1
  <2>3. \/ load' = [load EXCEPT ![l] = [pc |-> pc, rows |-> load[l].rows \cup S]] /\ edits' = edits
        \/ load' = [load EXCEPT ![l] = [load[l] EXCEPT !.pc = pc]] /\ edits < MaxEdits /\ edits' = edits + 1
    BY <1>B DEF Answered
  <2>4. edits' \in 0..MaxEdits
    BY <1>A, <2>3
  <2> QED
    BY <1>A, <2>2, <2>3, <2>4, ZenonT(40)
<1>6. ASSUME NEW l \in Loaders, QueryPending(l) PROVE PanesInv'
  <2>1. Answered(l, pending \ {Default}, "default") /\ UNCHANGED <<pending, table, inFlight, spinning, info, moves>>
    BY <1>6 DEF QueryPending
  <2>2. pending \ {Default} \in SUBSET Listed
    BY <1>A
  <2>3. LoadsOK
    BY <1>0, <1>A, <1>B, <2>1, <2>2 DEF TypeOK
  <2> QED
    BY <1>1, <2>1, <2>3
<1>7. ASSUME NEW l \in Loaders, QueryDefault(l) PROVE PanesInv'
  <2>1. Answered(l, pending \cap {Default}, "render") /\ UNCHANGED <<pending, table, inFlight, spinning, info, moves>>
    BY <1>7 DEF QueryDefault
  <2>2. pending \cap {Default} \in SUBSET Listed
    BY <1>A
  <2>3. LoadsOK
    BY <1>0, <1>A, <1>B, <2>1, <2>2 DEF TypeOK
  <2> QED
    BY <1>1, <2>1, <2>3
<1>8. ASSUME NEW l \in Loaders, Render(l) PROVE PanesInv'
  <2>1. LoadsOK /\ UNCHANGED details
    BY <1>0, <1>A, <1>8 DEF Render, TypeOK, Idle
  <2>2. load[l].rows \in SUBSET Listed /\ Draw(load[l].rows, view)
    BY <1>A, <1>8 DEF Render
  <2> QED
    BY <1>A, <1>2, <2>1, <2>2
<1>9. CASE ChangeView
  <2>1. LoadsOK /\ UNCHANGED details
    BY <1>0, <1>A, <1>9 DEF ChangeView, TypeOK, loads
  <2> QED
    BY <1>A, <1>2, <1>9, <2>1 DEF ChangeView
<1>10. CASE MoveCursor
  <2>1. LoadsOK /\ UNCHANGED <<view, cached, rows, info>>
    BY <1>0, <1>A, <1>10 DEF MoveCursor, TypeOK, loads
  <2>2. PICK i \in DOMAIN rows \ {cursor} : cursor' = i /\ events' = Append(events, i)
    BY <1>10 DEF MoveCursor
  <2>3. /\ cursor' \in 1..Len(rows) /\ events' \in Seq(Nat) /\ events' # <<>>
        /\ events'[Len(events')] = cursor' /\ rows # <<>>
    BY <1>A, <2>2
  <2>4. CursorInv' /\ LastEvent' /\ LastDetail' /\ DetailFollowsCursor'
    BY <2>1, <2>3 DEF CursorInv, LastEvent, LastDetail, DetailFollowsCursor
  <2> QED
    BY <1>A, <2>1, <2>3, <2>4 DEF PanesInv, TypeOK, info
<1>11. CASE Highlighted
  <2>1. LoadsOK /\ UNCHANGED <<view, cached, rows, cursor, detail>>
    BY <1>0, <1>A, <1>11 DEF Highlighted, TypeOK, loads
  <2>2. /\ events # <<>> /\ events' = Tail(events)
        /\ details' = IF Head(events) \in DOMAIN rows THEN Append(details, rows[Head(events)])
                      ELSE details
    BY <1>11 DEF Highlighted
  <2>3. /\ events' \in Seq(Nat) /\ Len(events) \in Nat \ {0} /\ Len(events') = Len(events) - 1
        /\ \A i \in 1..Len(events') : events'[i] = events[i + 1]
    BY <1>A, <2>2
  <2>4. details' \in Seq(Listed)
    BY <1>A, <2>2
  <2>5. LastEvent'
    <3> SUFFICES ASSUME cursor # 0, events' # <<>> PROVE events'[Len(events')] = cursor
      BY <2>1 DEF LastEvent
    <3>1. Len(events') \in 1..Len(events')
      BY <2>3, EmptySeq
    <3> QED
      BY <1>0, <2>2, <2>3, <3>1 DEF LastEvent
  <2>6. events' = <<>> /\ cursor # 0 =>
          details' # <<>> /\ details'[Len(details')] = rows[cursor]
    <3> SUFFICES ASSUME events' = <<>>, cursor # 0
                 PROVE  details' # <<>> /\ details'[Len(details')] = rows[cursor]
      OBVIOUS
    <3>1. Len(events) = 1
      BY <2>3
    <3>2. Head(events) = cursor /\ cursor \in DOMAIN rows
      BY <1>0, <1>A, <2>2, <3>1 DEF LastEvent, CursorInv
    <3>3. details' = Append(details, rows[cursor])
      BY <2>2, <3>2
    <3>4. details \in Seq(Listed) /\ rows[cursor] \in Listed
      BY <1>A, <3>2
    <3>5. Len(details') = Len(details) + 1 /\ details'[Len(details) + 1] = rows[cursor]
      BY <3>3, <3>4
    <3>6. Len(details) \in Nat
      BY <3>4
    <3> QED
      BY <2>4, <3>5, <3>6, EmptySeq
  <2>7. LastDetail' /\ DetailFollowsCursor'
    BY <2>1, <2>6 DEF LastDetail, DetailFollowsCursor, Selected
  <2> QED
    BY <1>0, <1>A, <2>1, <2>3, <2>4, <2>5, <2>7 DEF PanesInv, TypeOK, CursorInv
<1>12. CASE RenderDetail
  <2>1. LoadsOK /\ UNCHANGED table
    BY <1>0, <1>A, <1>12 DEF RenderDetail, TypeOK, loads
  <2>2. PICK i \in DOMAIN details : /\ InOrder => i = 1
                                   /\ detail' = details[i] /\ details' = RemoveAt(details, i)
    BY <1>12 DEF RenderDetail
  <2>3. i \in 1..Len(details) /\ Len(details) \in Nat /\ detail' \in Listed
    BY <1>A, <2>2
  <2>4. details' = SubSeq(details, 1, i - 1) \o SubSeq(details, i + 1, Len(details))
    BY <2>2 DEF RemoveAt
  <2>5. details' \in Seq(Listed)
    <3>1. SubSeq(details, 1, i - 1) \in Seq(Listed) /\ SubSeq(details, i + 1, Len(details)) \in Seq(Listed)
      BY <1>A, <2>3, SubSeqProperties
    <3> QED
      BY <2>4, <3>1
  <2>6. ASSUME InOrder PROVE LastDetail' /\ DetailFollowsCursor'
    <3>1. details' = Tail(details) /\ detail' = details[1] /\ Len(details') = Len(details) - 1
      BY <1>A, <2>2, <2>3, <2>4, <2>6
    <3>2. ASSUME cursor # 0, events = <<>> PROVE details[Len(details)] = rows[cursor]
      BY <1>0, <2>3, <2>6, <3>2 DEF LastDetail
    <3>3. details' # <<>> => Len(details') \in Nat \ {0} /\ details'[Len(details')] = details[Len(details)]
      BY <1>A, <2>3, <2>5, <3>1, SMTT(20)
    <3>4. details' = <<>> => Len(details) = 1
      BY <2>3, <2>5, <3>1
    <3> QED
      BY <2>1, <3>1, <3>2, <3>3, <3>4 DEF LastDetail, DetailFollowsCursor, Selected, table
  <2> QED
    BY <1>0, <1>A, <2>1, <2>3, <2>5, <2>6 DEF PanesInv, TypeOK, CursorInv, LastEvent, table
<1>13. CASE TickActivity
  BY <1>0, <1>A, <1>1, <1>13 DEF TickActivity, TypeOK, loads
<1>14. CASE ServerChanges
  BY <1>0, <1>A, <1>1, <1>14 DEF ServerChanges, TypeOK, loads
<1>15. CASE UNCHANGED vars
  BY <1>0, <1>A, <1>1, <1>15 DEF vars, TypeOK, loads
<1> QED
  BY <1>3, <1>4, <1>5, <1>6, <1>7, <1>8, <1>9, <1>10, <1>11, <1>12, <1>13, <1>14, <1>15
     DEF Next, Loader, Ticks, User

LEMMA PanesInvariance == Spec => []PanesInv
BY PanesInit, PanesKept, PTL DEF Spec

\* The table holds changelists that are or were pending, in any order of events.
THEOREM TypeCorrect == Spec => []TypeOK
BY PanesInvariance, PTL DEF PanesInv

\* At rest the details are those of the changelist under the cursor, for any
\* changelists, filters and loaders, if details are answered in order.
THEOREM DetailFollows == ASSUME InOrder PROVE Spec => []DetailFollowsCursor
<1>1. PanesInv => DetailFollowsCursor
  BY DEF PanesInv
<1> QED
  BY <1>1, PanesInvariance, PTL

\* No refresh or filter moves the cursor to another changelist.
THEOREM SelectionKept == Spec => SelectionStays
<1>1. ASSUME PanesInv, [Next]_vars
      PROVE  [moves' = moves \/ view' # view \/ rows' # rows =>
                (Selected \in ToSet(rows') => rows'[cursor'] = Selected)]_vars
  <2>1. view \in Views /\ cached \in SUBSET Listed /\ rows \in Seq(Listed) /\ CursorInv
    BY <1>1 DEF PanesInv, TypeOK
  <2>2. ASSUME UNCHANGED table PROVE Selected \in ToSet(rows') => rows'[cursor'] = Selected
    BY <2>1, <2>2 DEF table, Selected, CursorInv, ToSet
  <2>3. ASSUME NEW S \in SUBSET Listed, NEW v \in Views, Draw(S, v)
        PROVE  Selected \in ToSet(rows') => rows'[cursor'] = Selected
    BY <1>1, <2>3, DrawKeeps
  <2>4. ASSUME NEW l \in Loaders, Render(l) PROVE Selected \in ToSet(rows') => rows'[cursor'] = Selected
    <3>1. load[l].rows \in SUBSET Listed /\ Draw(load[l].rows, view)
      BY <1>1, <2>4 DEF Render, PanesInv, TypeOK
    <3> QED
      BY <2>1, <2>3, <3>1
  <2>5. CASE ChangeView
    BY <2>1, <2>3, <2>5 DEF ChangeView
  <2>6. CASE MoveCursor
    <3>1. moves' # moves /\ view' = view /\ rows' = rows
      BY <1>1, <2>6, PaneLoadsAssumption DEF MoveCursor, PanesInv, TypeOK
    <3> QED
      BY <3>1
  <2>7. ASSUME NEW l \in Loaders, Tick(l) \/ Refresh(l) \/ Begin(l) \/ QueryPending(l) \/ QueryDefault(l)
        PROVE  UNCHANGED table
    BY <2>7 DEF Tick, Refresh, Begin, QueryPending, QueryDefault
  <2>8. RenderDetail \/ TickActivity \/ ServerChanges => UNCHANGED table
    BY DEF RenderDetail, TickActivity, ServerChanges
  <2>9. CASE Highlighted
    BY <2>1, <2>9 DEF Highlighted, Selected, CursorInv, ToSet
  <2> QED
    BY <1>1, <2>2, <2>4, <2>5, <2>6, <2>7, <2>8, <2>9 DEF Next, Loader, Ticks, User
<1> QED
  BY <1>1, PanesInvariance, PTL DEF Spec, SelectionStays

-----------------------------------------------------------------------------
(* The pages of the navigator.                                             *)

USE DEF N!Pages, N!Trees, N!Widgets, N!PANEL_PAGES, N!ALWAYS_ON_PAGES

\* Whatever is taken out, the tree and the log are pages of the cycle.
LEMMA CycleHasPages ==
  ASSUME NEW drop
  PROVE  /\ N!EffectivePages(drop) \in Seq(N!Pages)
         /\ Len(N!EffectivePages(drop)) \in Nat /\ Len(N!EffectivePages(drop)) >= 2
<1> DEFINE Kept(p) == IF p \in drop \ N!ALWAYS_ON_PAGES THEN <<>> ELSE <<p>>
           a == Kept("tree")
           b == Kept("pending")
           c == Kept("history")
           d == Kept("submitted")
           e == Kept("log")
           s1 == a \o b
           s2 == s1 \o c
           s3 == s2 \o d
           s4 == s3 \o e
<1>1. ASSUME NEW p \in N!Pages
      PROVE  Kept(p) \in Seq(N!Pages) /\ Len(Kept(p)) \in Nat
  <2>1. <<>> \in Seq(N!Pages) /\ <<p>> \in Seq(N!Pages) /\ Len(<<>>) = 0 /\ Len(<<p>>) = 1
    OBVIOUS
  <2>2. Kept(p) = <<>> \/ Kept(p) = <<p>>
    OBVIOUS
  <2> HIDE DEF Kept
  <2> QED
    BY <2>1, <2>2
<1>2. Len(a) = 1 /\ Len(e) = 1
  OBVIOUS
<1>3. /\ a \in Seq(N!Pages) /\ b \in Seq(N!Pages) /\ c \in Seq(N!Pages) /\ d \in Seq(N!Pages) /\ e \in Seq(N!Pages)
      /\ Len(b) \in Nat /\ Len(c) \in Nat /\ Len(d) \in Nat
  BY <1>1
<1>4. N!EffectivePages(drop) = s4
  BY DEF N!EffectivePages
<1> HIDE DEF a, b, c, d, e
<1>5. \A s, t \in Seq(N!Pages) : s \o t \in Seq(N!Pages) /\ Len(s \o t) = Len(s) + Len(t)
  BY ConcatProperties
<1>6. s1 \in Seq(N!Pages) /\ Len(s1) = Len(a) + Len(b)
  BY <1>3, <1>5
<1> HIDE DEF s1
<1>7. s2 \in Seq(N!Pages) /\ Len(s2) = Len(s1) + Len(c)
  BY <1>3, <1>5, <1>6
<1> HIDE DEF s2
<1>8. s3 \in Seq(N!Pages) /\ Len(s3) = Len(s2) + Len(d)
  BY <1>3, <1>5, <1>7
<1> HIDE DEF s3
<1>9. s4 \in Seq(N!Pages) /\ Len(s4) = Len(s3) + 1
  BY ONLY <1>2, <1>3, <1>5, <1>8, ZenonT(20) DEF s4
<1> HIDE DEF s4
<1>10. Len(s4) \in Nat /\ Len(s4) >= 2
  <2>1. Len(s1) \in Nat /\ Len(s1) >= 1
    BY ONLY <1>2, <1>3, <1>6
  <2>2. Len(s2) \in Nat /\ Len(s2) >= 1
    BY ONLY <1>3, <1>7, <2>1
  <2>3. Len(s3) \in Nat /\ Len(s3) >= 1
    BY ONLY <1>3, <1>8, <2>2
  <2> QED
    BY ONLY <1>9, <2>3
<1> QED
  BY <1>4, <1>9, <1>10

\* An element has an index.
LEMMA IndexInDomain ==
  ASSUME NEW s, NEW e \in N!Elements(s)
  PROVE  N!IndexOf(e, s) \in DOMAIN s /\ s[N!IndexOf(e, s)] = e
BY DEF N!Elements, N!IndexOf

\* A step in the cycle, either way, is to a page.
LEMMA CyclePageIsPage ==
  ASSUME NEW s \in Seq(N!Pages), Len(s) >= 2, NEW p, NEW delta \in {-1, 1}
  PROVE  N!CyclePage(p, delta, s) \in N!Pages
<1> DEFINE i == N!IndexOf(N!Resolved(p, s), s)
<1>1. Len(s) \in Nat
  OBVIOUS
<1>2. N!Resolved(p, s) \in N!Elements(s)
  BY <1>1 DEF N!Resolved, N!Elements
<1>3. i \in 1..Len(s)
  BY <1>2, IndexInDomain
<1> HIDE DEF i
<1>4. ((i - 1 + delta) % Len(s)) + 1 \in 1..Len(s)
  BY <1>1, <1>3
<1> QED
  BY <1>4 DEF N!CyclePage, i

\* F3 goes to a page of the cycle.
LEMMA ToggleIsPage ==
  ASSUME NEW s \in Seq(N!Pages), Len(s) >= 2, NEW p, NEW q
  PROVE  N!ToggleTarget(p, q, s) \in N!Pages
<1>1. Len(s) \in Nat /\ s[2] \in N!Pages
  OBVIOUS
<1>2. N!Elements(s) \subseteq N!Pages
  BY DEF N!Elements
<1> QED
  BY <1>1, <1>2 DEF N!ToggleTarget

-----------------------------------------------------------------------------
(* The page, the tabs and the focus.                                       *)

\* Where the screen stands when the focus is asked for widget w.
Ready(w) ==
  /\ w \in N!Trees => page = "tree" /\ leftTab = w
  /\ w = "log" => page = "log"
  /\ w \in N!PANEL_PAGES => rightTab = w /\ (focus = w => page = w)

\* All the requests under way are for one widget, which is on the chosen page.
Aims == \E w \in N!Widgets :
  /\ \A i \in DOMAIN focusing : focusing[i] = w
  /\ Ready(w)
  /\ chosen # NoPage => chosen = N!PageOf(w)

\* Those of start-up, the last of which is for the widget of the last session.
Fresh ==
  /\ chosen = NoPage /\ page = "tree"
  /\ \E w \in N!Widgets :
       \/ focusing = <<"depot", w>> /\ focus = "headers"
       \/ focusing = <<w>> /\ focus = "depot" /\ leftTab = "depot"

\* The focus is on the page; at start-up it may be in a log that is not shown.
Rest ==
  /\ chosen # NoPage => page = chosen
  /\ \/ focus = "headers" /\ page # "log"
     \/ focus = "log" /\ (page = "log" \/ chosen = NoPage)
     \/ focus \in N!Trees /\ page = "tree" /\ leftTab = focus
     \/ focus \in N!PANEL_PAGES /\ page = focus /\ rightTab = focus

NavInv ==
  /\ N!TypeOK
  /\ ~narrow /\ chosen # NoPage => resume = chosen
  /\ narrow /\ focusing = <<>> => Rest
  /\ narrow /\ focusing # <<>> => Aims \/ Fresh

\* Start-up.
LEMMA NavInit == ASSUME N!Init PROVE NavInv
<1>1. PICK w \in N!Widgets : focusing = IF narrow THEN <<"depot", w>> ELSE <<w>>
  BY DEF N!Init
<1>2. focusing \in Seq(N!Widgets) /\ focusing # <<>>
  <2>1. CASE narrow
    <3>1. focusing = <<"depot", w>>
      BY <1>1, <2>1
    <3>2. <<"depot", w>> \in Seq(N!Widgets)
      OBVIOUS
    <3> QED
      BY <3>1, <3>2
  <2>2. CASE ~narrow
    <3>1. focusing = <<w>>
      BY <1>1, <2>2
    <3> QED
      BY <3>1
  <2> QED
    BY <2>1, <2>2
<1>3. crumb \in Seq(N!Pages)
  BY CycleHasPages DEF N!Init, N!Breadcrumb, N!Cycle
<1>4. layout \in {"auto", "narrow", "wide"}
  BY DEF N!Init, N!Elements, N!LAYOUT_MODES
<1>5. narrow \in BOOLEAN
  BY DEF N!Init, N!ResolveNarrow
<1>6. N!TypeOK
  BY <1>2, <1>3, <1>4, <1>5, NavigatorAssumption DEF N!Init, N!TypeOK, N!NavigatorAssumption
<1>7. narrow => Fresh
  BY <1>1 DEF N!Init, Fresh
<1> QED
  BY <1>2, <1>6, <1>7 DEF NavInv, N!Init

\* A page that is landed on aims at its widget.
LEMMA LandAims ==
  ASSUME NavInv, NEW p \in N!Pages, N!Land(p, <<>>), UNCHANGED leftTab,
         chosen' # NoPage => chosen' = p
  PROVE  /\ Aims' /\ focusing' # <<>> /\ focusing' \in Seq(N!Widgets)
         /\ page' \in N!Pages /\ lastPanel' \in N!Pages \ {"tree"} /\ rightTab' \in N!PANEL_PAGES
         /\ crumb' \in Seq(N!Pages)
<1>1. leftTab \in N!Trees /\ lastPanel \in N!Pages \ {"tree"} /\ rightTab \in N!PANEL_PAGES
  BY DEF NavInv, N!TypeOK
<1>2. PICK w \in N!Widgets : w = N!PaneOf(p)
  BY <1>1 DEF N!PaneOf
<1>3. focusing' = <<w>> /\ N!PageOf(w) = p
  BY <1>1, <1>2 DEF N!Land, N!PaneOf, N!PageOf
<1>3a. Ready(w)'
  BY <1>1, <1>2 DEF N!Land, N!PaneOf, Ready
<1>4. Aims'
  <2>1. \A i \in DOMAIN focusing' : focusing'[i] = w
    BY <1>3
  <2>2. chosen' # NoPage => chosen' = N!PageOf(w)
    BY <1>3
  <2> QED
    BY <1>3a, <2>1, <2>2 DEF Aims, N!PageOf
<1>5. crumb' \in Seq(N!Pages)
  BY CycleHasPages DEF N!Land, N!Breadcrumb, N!Cycle
<1> QED
  BY <1>1, <1>3, <1>4, <1>5 DEF N!Land

\* A choice of the user.
LEMMA ChooseKeeps == ASSUME NavInv, NEW p \in N!Pages, N!Choose(p) PROVE NavInv'
<1>1. /\ focusing = <<>> /\ narrow = TRUE /\ Rest /\ N!TypeOK
      /\ N!Flip(p, <<>>) /\ chosen' = (IF p # page THEN p ELSE chosen)
      /\ UNCHANGED <<N!window, resume, leftTab, focus, empty>>
  BY DEF N!Choose, N!Quiet, NavInv, N!TypeOK
<1>2. CASE p # page
  <2>1. N!Land(p, <<>>) /\ chosen' = p
    BY <1>1, <1>2 DEF N!Flip
  <2>2. /\ Aims' /\ focusing' # <<>> /\ focusing' \in Seq(N!Widgets)
        /\ page' \in N!Pages /\ lastPanel' \in N!Pages \ {"tree"} /\ rightTab' \in N!PANEL_PAGES
        /\ crumb' \in Seq(N!Pages)
    BY <1>1, <2>1, LandAims
  <2> QED
    BY <1>1, <2>1, <2>2 DEF NavInv, N!TypeOK, N!window
<1>3. CASE p = page
  <2>1. focusing' = <<>> /\ UNCHANGED <<page, lastPanel, rightTab, crumb, chosen>>
    BY <1>1, <1>3 DEF N!Flip
  <2> QED
    BY <1>1, <2>1 DEF NavInv, N!TypeOK, N!window, Rest
<1> QED
  BY <1>2, <1>3

\* The keys that choose a page.
LEMMA KeysChoose ==
  ASSUME NavInv,
         \/ \E d \in {-1, 1} : N!StepPage(d)
         \/ \E n \in 1..9 : N!Digit(n)
         \/ N!TogglePanels
         \/ N!Back
  PROVE  NavInv'
<1>1. N!Cycle \in Seq(N!Pages) /\ Len(N!Cycle) >= 2
  BY CycleHasPages DEF N!Cycle
<1>2. ASSUME NEW d \in {-1, 1}, N!StepPage(d) PROVE NavInv'
  BY <1>1, <1>2, CyclePageIsPage, ChooseKeeps DEF N!StepPage
<1>3. ASSUME NEW n \in 1..9, N!Digit(n) PROVE NavInv'
  <2>1. N!Cycle[n] \in N!Pages
    BY <1>1, <1>3 DEF N!Digit
  <2> QED
    BY <1>3, <2>1, ChooseKeeps DEF N!Digit
<1>4. CASE N!TogglePanels
  BY <1>1, <1>4, ToggleIsPage, ChooseKeeps DEF N!TogglePanels
<1>5. CASE N!Back
  BY <1>5, ChooseKeeps DEF N!Back
<1> QED
  BY <1>2, <1>3, <1>4, <1>5

\* A click on a widget of the screen.
LEMMA ClickKeeps == ASSUME NavInv, NEW w \in N!Widgets, N!Click(w) PROVE NavInv'
<1>1. /\ focusing = <<>> /\ w \in N!ShownWidgets \ {"headers"} /\ focusing' = <<w>>
      /\ chosen' = (IF narrow /\ w # "log" THEN N!PageOf(w) ELSE chosen)
      /\ UNCHANGED <<N!window, page, lastPanel, resume, N!tabs, focus, empty, crumb>>
  BY DEF N!Click, N!Quiet
<1>2. N!TypeOK /\ focusing' \in Seq(N!Widgets) /\ focusing' # <<>>
      /\ \A i \in DOMAIN focusing' : focusing'[i] = w
  BY <1>1 DEF NavInv
<1>3. N!TypeOK'
  BY <1>1, <1>2 DEF N!TypeOK, N!window, N!tabs, N!PageOf
<1>4. ASSUME narrow PROVE Aims'
  <2>1. Rest /\ page \in N!Pages /\ leftTab \in N!Trees /\ rightTab \in N!PANEL_PAGES
    BY <1>1, <1>2, <1>4 DEF NavInv, N!TypeOK
  <2>2. Ready(w)'
    BY <1>1, <1>4, <2>1 DEF N!ShownWidgets, Rest, Ready, N!tabs
  <2>3. chosen' # NoPage => chosen' = N!PageOf(w)
    BY <1>1, <1>4, <2>1 DEF N!ShownWidgets, Rest, N!PageOf
  <2> QED
    BY <1>2, <2>2, <2>3 DEF Aims, N!PageOf
<1> QED
  BY <1>1, <1>2, <1>3, <1>4 DEF NavInv, N!window

\* Clicks on the tabs and jumps to a path, which ask for no focus.
LEMMA TabsKeep == ASSUME NavInv, N!ClickHeader \/ N!NavigateTree PROVE NavInv'
<1>1. /\ focusing = <<>> /\ N!TypeOK /\ (narrow => Rest)
      /\ UNCHANGED <<N!window, page, lastPanel, resume, focusing, empty, crumb, chosen>>
  BY DEF N!ClickHeader, N!NavigateTree, N!Quiet, NavInv
<1>2. CASE N!ClickHeader
  <2>1. /\ focus' = "headers" /\ "headers" \in N!ShownWidgets
        /\ leftTab' \in N!Trees /\ rightTab' \in N!PANEL_PAGES
    BY <1>1, <1>2 DEF N!ClickHeader, N!TypeOK
  <2>2. narrow => page # "log"
    BY <2>1 DEF N!ShownWidgets
  <2>3. N!TypeOK'
    BY <1>1, <2>1 DEF N!TypeOK, N!window
  <2> QED
    BY <1>1, <2>1, <2>2, <2>3 DEF NavInv, Rest, N!window
<1>3. CASE N!NavigateTree
  <2>1. leftTab' \in N!Trees /\ N!Unhidden(leftTab, leftTab') /\ UNCHANGED rightTab
    BY <1>3 DEF N!NavigateTree
  <2>2. N!TypeOK'
    BY <1>1, <2>1 DEF N!TypeOK, N!window, N!Unhidden
  <2>3. narrow => Rest'
    BY <1>1, <2>1 DEF Rest, N!Unhidden, N!TypeOK
  <2> QED
    BY <1>1, <2>2, <2>3 DEF NavInv, N!window
<1> QED
  BY <1>2, <1>3

\* A jump to a row.
LEMMA FocusRowKeeps == ASSUME NavInv, NEW t \in N!PANEL_PAGES, N!FocusRow(t) PROVE NavInv'
<1>1. /\ focusing = <<>> /\ N!TypeOK /\ (narrow => Rest) /\ rightTab' = t
      /\ UNCHANGED <<N!window, page, lastPanel, resume, leftTab, empty, crumb>>
  BY DEF N!FocusRow, N!Quiet, NavInv
<1>2. CASE /\ focusing' = <<t>> /\ chosen' = (IF narrow THEN t ELSE chosen) /\ UNCHANGED focus
  <2>1. /\ focusing' \in Seq(N!Widgets) /\ focusing' # <<>> /\ t \in N!Widgets
        /\ \A i \in DOMAIN focusing' : focusing'[i] = t
    BY <1>2
  <2>2. N!TypeOK'
    BY <1>1, <1>2, <2>1 DEF N!TypeOK, N!window
  <2>3. ASSUME narrow PROVE Aims'
    <3>1. Ready(t)'
      BY <1>1, <1>2, <2>3 DEF Ready, Rest
    <3>2. chosen' = N!PageOf(t)
      BY <1>2, <2>3 DEF N!PageOf
    <3> QED
      BY <2>1, <3>1, <3>2 DEF Aims, N!PageOf
  <2> QED
    BY <1>1, <1>2, <2>1, <2>2, <2>3 DEF NavInv, N!window
<1>3. CASE N!Unhidden(rightTab, t) /\ UNCHANGED <<focusing, chosen>>
  <2>1. N!TypeOK'
    BY <1>1, <1>3 DEF N!TypeOK, N!window, N!Unhidden
  <2>2. narrow => Rest'
    BY <1>1, <1>3 DEF Rest, N!Unhidden, N!TypeOK
  <2> QED
    BY <1>1, <1>3, <2>1, <2>2 DEF NavInv, N!window
<1> QED
  BY <1>2, <1>3 DEF N!FocusRow

\* The keys of the wide layout.
LEMMA WideKeeps ==
  ASSUME NavInv, (\E d \in {-1, 1} : N!WideTab(d)) \/ N!WideFocus \/ N!WidePanels
  PROVE  NavInv'
<1>1. /\ ~narrow /\ N!TypeOK /\ (chosen # NoPage => resume = chosen)
      /\ UNCHANGED <<N!window, page, lastPanel, resume, leftTab, focus, empty, crumb, chosen>>
  BY DEF N!WideTab, N!WideFocus, N!WidePanels, NavInv, N!tabs
<1>2. focusing' \in Seq(N!Widgets) /\ rightTab' \in N!PANEL_PAGES
  <2>0. rightTab \in N!PANEL_PAGES /\ leftTab \in N!Trees /\ focus \in N!Widgets \cup {"headers"}
    BY <1>1 DEF N!TypeOK
  <2>1. ASSUME NEW d \in {-1, 1}, N!WideTab(d) PROVE focusing' \in Seq(N!Widgets) /\ rightTab' \in N!PANEL_PAGES
    <3> DEFINE tables == SubSeq(N!NARROW_PAGES, 2, 4)
               i == N!IndexOf(rightTab, tables)
    <3>1. DOMAIN tables = 1..3 /\ tables[1] = "pending" /\ tables[2] = "history" /\ tables[3] = "submitted"
      <4>1. N!NARROW_PAGES \in Seq(N!Pages) /\ Len(N!NARROW_PAGES) = 5
        BY DEF N!NARROW_PAGES
      <4>2. N!NARROW_PAGES[2] = "pending" /\ N!NARROW_PAGES[3] = "history" /\ N!NARROW_PAGES[4] = "submitted"
        BY DEF N!NARROW_PAGES
      <4>3. DOMAIN tables = 1..3 /\ \A k \in 1..3 : tables[k] = N!NARROW_PAGES[k + 1]
        BY <4>1, SubSeqProperties
      <4> QED
        BY <4>2, <4>3
    <3>2. rightTab' = tables[((i - 1 + d) % 3) + 1] /\ focusing' = <<rightTab'>>
      BY <2>1 DEF N!WideTab
    <3> HIDE DEF tables
    <3>3. DOMAIN tables = 1..3 /\ \A k \in 1..3 : tables[k] \in N!PANEL_PAGES
      BY <3>1
    <3>4. rightTab \in N!Elements(tables)
      BY <2>0, <3>1 DEF N!Elements
    <3>5. i \in 1..3
      BY <3>3, <3>4, IndexInDomain
    <3> HIDE DEF i
    <3>6. ((i - 1 + d) % 3) + 1 \in 1..3
      BY <3>5
    <3>7. rightTab' \in N!PANEL_PAGES
      BY <3>2, <3>3, <3>6
    <3> QED
      BY <3>2, <3>7
  <2>2. CASE N!WideFocus
    <3>1. N!FocusChain \in Seq(N!Widgets) /\ Len(N!FocusChain) \in {2, 3}
      <4>1. <<leftTab, rightTab>> \in Seq(N!Widgets) /\ Len(<<leftTab, rightTab>>) = 2
        BY <2>0
      <4>2. CASE short
        BY <4>1, <4>2 DEF N!FocusChain
      <4>3. CASE ~short
        BY <4>1, <4>3 DEF N!FocusChain
      <4> QED
        BY <4>2, <4>3
    <3>2. PICK delta \in {-1, 1} :
            LET i == IF focus \in N!Elements(N!FocusChain) THEN N!IndexOf(focus, N!FocusChain) - 1 ELSE -1
            IN  focusing' = <<N!FocusChain[((i + delta) % Len(N!FocusChain)) + 1]>>
      BY <2>2 DEF N!WideFocus
    <3> DEFINE i == IF focus \in N!Elements(N!FocusChain) THEN N!IndexOf(focus, N!FocusChain) - 1 ELSE -1
               c == N!FocusChain
    <3>3. i \in Int
      <4>1. focus \in N!Elements(N!FocusChain) => N!IndexOf(focus, N!FocusChain) \in DOMAIN N!FocusChain
        BY IndexInDomain
      <4> QED
        BY <3>1, <4>1
    <3>4. focusing' = <<c[((i + delta) % Len(c)) + 1]>>
      BY <3>2
    <3>5. c \in Seq(N!Widgets) /\ Len(c) \in {2, 3}
      BY <3>1
    <3> HIDE DEF i, c
    <3>6. ((i + delta) % Len(c)) + 1 \in 1..Len(c)
      <4>1. i + delta \in Int
        BY <3>3
      <4>2. CASE Len(c) = 2
        BY <4>1, <4>2
      <4>3. CASE Len(c) = 3
        BY <4>1, <4>3
      <4> QED
        BY <3>5, <4>2, <4>3
    <3>7. c[((i + delta) % Len(c)) + 1] \in N!Widgets
      BY <3>5, <3>6
    <3> QED
      BY <2>0, <2>2, <3>4, <3>7 DEF N!WideFocus, N!tabs
  <2>3. CASE N!WidePanels
    BY <2>0, <2>3 DEF N!WidePanels, N!tabs
  <2> QED
    BY <2>1, <2>2, <2>3
<1>3. N!TypeOK'
  BY <1>1, <1>2 DEF N!TypeOK, N!window
<1> QED
  BY <1>1, <1>3 DEF NavInv, N!window

\* A resize or a pin: the page that was left is landed on again.
LEMMA RelayoutKeeps ==
  ASSUME NavInv, N!Resize \/ N!CycleLayout
  PROVE  NavInv'
<1>1. /\ focusing = <<>> /\ N!TypeOK /\ (narrow => Rest)
      /\ layout' \in {"auto", "narrow", "wide"} /\ thin' \in BOOLEAN /\ short' \in BOOLEAN
  <2>1. CASE N!Resize
    BY <2>1 DEF N!Resize, N!Quiet, NavInv, N!TypeOK
  <2>2. CASE N!CycleLayout
    <3>1. layout \in N!Elements(N!LAYOUT_MODES)
      BY DEF NavInv, N!TypeOK, N!Elements, N!LAYOUT_MODES
    <3>2. N!IndexOf(layout, N!LAYOUT_MODES) \in 1..3
      BY <3>1, IndexInDomain DEF N!LAYOUT_MODES
    <3>3. (N!IndexOf(layout, N!LAYOUT_MODES) % 3) + 1 \in 1..3
      BY <3>2
    <3>4. N!NextLayout(layout) \in {"auto", "narrow", "wide"}
      BY <3>3 DEF N!NextLayout, N!LAYOUT_MODES
    <3> QED
      BY <2>2, <3>4 DEF N!CycleLayout, N!Quiet, NavInv, N!TypeOK
  <2> QED
    BY <2>1, <2>2
<1>2. PICK m, t : N!Relayout(m, t)
  BY DEF N!Resize, N!CycleLayout
<1>3. narrow' \in BOOLEAN /\ narrow \in BOOLEAN /\ UNCHANGED <<leftTab, focus, empty, chosen>>
  BY <1>1, <1>2 DEF N!Relayout, N!ResolveNarrow, N!TypeOK
<1>4. CASE narrow' = narrow
  <2>1. UNCHANGED <<page, lastPanel, resume, rightTab, focusing, crumb>>
    BY <1>2, <1>4 DEF N!Relayout
  <2>2. N!TypeOK'
    BY <1>1, <1>3, <2>1 DEF N!TypeOK
  <2> QED
    BY <1>1, <1>3, <1>4, <2>1, <2>2 DEF NavInv, Rest
<1>5. CASE narrow' # narrow /\ narrow'
  <2>1. N!Land(resume, <<>>) /\ UNCHANGED resume
    BY <1>1, <1>2, <1>5 DEF N!Relayout
  <2>2. resume \in N!Pages /\ (chosen' # NoPage => chosen' = resume)
    BY <1>1, <1>3, <1>5 DEF NavInv, N!TypeOK
  <2>3. /\ Aims' /\ focusing' # <<>> /\ focusing' \in Seq(N!Widgets)
        /\ page' \in N!Pages /\ lastPanel' \in N!Pages \ {"tree"} /\ rightTab' \in N!PANEL_PAGES
        /\ crumb' \in Seq(N!Pages)
    BY <1>3, <2>1, <2>2, LandAims
  <2>4. N!TypeOK'
    BY <1>1, <1>3, <2>1, <2>3 DEF N!TypeOK
  <2> QED
    BY <1>5, <2>3, <2>4 DEF NavInv
<1>6. CASE narrow' # narrow /\ ~narrow'
  <2>1. resume' = page /\ page' = "tree" /\ UNCHANGED <<lastPanel, rightTab, focusing, crumb>>
    BY <1>2, <1>6 DEF N!Relayout
  <2>2. N!TypeOK'
    BY <1>1, <1>3, <2>1 DEF N!TypeOK
  <2>3. chosen' # NoPage => resume' = chosen'
    BY <1>1, <1>3, <1>6, <2>1 DEF Rest
  <2> QED
    BY <1>6, <2>2, <2>3 DEF NavInv
<1> QED
  BY <1>3, <1>4, <1>5, <1>6

\* The focus comes to w, which has no further request but those for w; where that
\* is a tree or a table its page and tab are set.
LEMMA FocusKeeps ==
  ASSUME NavInv, narrow, NEW w \in N!Widgets, NEW q \in Seq(N!Widgets),
         \A i \in DOMAIN q : q[i] = w,
         chosen # NoPage => chosen = N!PageOf(w),
         w = "log" => page = "log" \/ (chosen = NoPage /\ q = <<>>),
         w \in N!Trees => page = "tree",
         focus' = w, N!DescendantFocus(w, q),
         UNCHANGED <<N!window, resume, empty, chosen>>
  PROVE  NavInv'
<1>1. N!TypeOK
  BY DEF NavInv
<1>2. CASE w = "log"
  <2>1. focusing' = q /\ UNCHANGED <<page, lastPanel, leftTab, rightTab, crumb>>
    BY <1>2 DEF N!DescendantFocus, N!tabs
  <2>2. N!TypeOK'
    BY <1>1, <2>1 DEF N!TypeOK, N!window
  <2>3. q = <<>> => Rest'
    BY <1>2, <2>1 DEF Rest, N!PageOf
  <2>4. q # <<>> => Aims'
    BY <1>2, <2>1 DEF Aims, Ready
  <2> QED
    BY <2>1, <2>2, <2>3, <2>4 DEF NavInv, N!window
<1>3. ASSUME page' = N!PageOf(w), w \in N!Trees => leftTab' = w, w \in N!PANEL_PAGES => rightTab' = w,
             w # "log", N!TypeOK', \A i \in DOMAIN focusing' : focusing'[i] = w
      PROVE  NavInv'
  <2>1. focusing' = <<>> => Rest'
    BY <1>3 DEF Rest, N!PageOf
  <2>2. focusing' # <<>> => Aims'
    BY <1>3 DEF Aims, Ready, N!PageOf
  <2> QED
    BY <1>3, <2>1, <2>2 DEF NavInv, N!window
<1>4. ASSUME NEW p \in N!Pages, N!PaneOf(p) = w, N!Land(p, q)
      PROVE  /\ focusing' \in Seq(N!Widgets) /\ \A i \in DOMAIN focusing' : focusing'[i] = w
             /\ page' = p /\ lastPanel' \in N!Pages \ {"tree"} /\ crumb' \in Seq(N!Pages)
             /\ rightTab' = IF p \in N!PANEL_PAGES THEN p ELSE rightTab
  <2>1. focusing' = Append(q, w)
    BY <1>4 DEF N!Land
  <2>2. crumb' \in Seq(N!Pages)
    BY <1>4, CycleHasPages DEF N!Land, N!Breadcrumb, N!Cycle
  <2>3. \A i \in DOMAIN focusing' : focusing'[i] = w
    BY <2>1
  <2> QED
    BY <1>1, <1>4, <2>1, <2>2, <2>3 DEF N!Land, N!TypeOK
<1>5. CASE w \in N!PANEL_PAGES
  <2>1. leftTab' = leftTab
    BY <1>5 DEF N!DescendantFocus
  <2>2. CASE page # w
    <3>1. N!Land(w, q) /\ N!PaneOf(w) = w
      BY <1>5, <2>2 DEF N!DescendantFocus, N!PaneOf
    <3>2. N!TypeOK'
      BY <1>1, <1>4, <1>5, <2>1, <3>1 DEF N!TypeOK, N!window
    <3> QED
      BY <1>3, <1>4, <1>5, <3>1, <3>2 DEF N!PageOf
  <2>3. CASE page = w
    <3>1. rightTab' = w /\ focusing' = q /\ UNCHANGED <<page, lastPanel, crumb>>
      BY <1>5, <2>3 DEF N!DescendantFocus
    <3>2. N!TypeOK'
      BY <1>1, <1>5, <2>1, <3>1 DEF N!TypeOK, N!window
    <3> QED
      BY <1>3, <1>5, <2>3, <3>1, <3>2 DEF N!PageOf
  <2> QED
    BY <2>2, <2>3
<1>6. CASE w \in N!Trees /\ page = "tree"
  <2>1. leftTab' = w /\ focusing' = q /\ UNCHANGED <<page, lastPanel, rightTab, crumb>>
    BY <1>6 DEF N!DescendantFocus, N!Flip
  <2>2. N!TypeOK'
    BY <1>1, <1>6, <2>1 DEF N!TypeOK, N!window
  <2> QED
    BY <1>3, <1>6, <2>1, <2>2 DEF N!PageOf
<1> QED
  BY <1>2, <1>5, <1>6

\* In the wide layout the focus changes nothing else.
LEMMA WideFocusKeeps ==
  ASSUME NavInv, ~narrow, NEW w \in N!Widgets \cup {"headers"}, NEW q \in Seq(N!Widgets),
         focus' = w, focusing' = q,
         UNCHANGED <<N!window, page, lastPanel, resume, N!tabs, empty, crumb, chosen>>
  PROVE  NavInv'
<1>1. N!TypeOK'
  BY DEF NavInv, N!TypeOK, N!window, N!tabs
<1> QED
  BY <1>1 DEF NavInv, N!window

\* A focus event arrives.
LEMMA ArrivesKeeps == ASSUME NavInv, N!FocusArrives PROVE NavInv'
<1>1. /\ N!TypeOK /\ focusing \in Seq(N!Widgets) /\ focusing # <<>> /\ focus' = Head(focusing)
      /\ UNCHANGED <<N!window, resume, empty, chosen>>
      /\ focus' = focus => focusing' = Tail(focusing) /\ UNCHANGED <<page, lastPanel, N!tabs, crumb>>
      /\ focus' # focus => N!DescendantFocus(focus', Tail(focusing))
  BY DEF N!FocusArrives, N!Quiet, NavInv, N!TypeOK
<1> DEFINE q == Tail(focusing)
<1>2. /\ q \in Seq(N!Widgets) /\ focus' \in N!Widgets /\ focus' = focusing[1] /\ 1 \in DOMAIN focusing
      /\ \A i \in DOMAIN q : i + 1 \in DOMAIN focusing /\ q[i] = focusing[i + 1]
  BY <1>1
<1> HIDE DEF q
<1>3. CASE ~narrow
  <2>1. focusing' = q /\ UNCHANGED <<page, lastPanel, N!tabs, crumb>>
    BY <1>1, <1>3 DEF N!DescendantFocus, q
  <2> QED
    BY <1>1, <1>2, <1>3, <2>1, WideFocusKeeps
<1>4. ASSUME narrow, Aims PROVE NavInv'
  <2>1. PICK w \in N!Widgets : /\ \A i \in DOMAIN focusing : focusing[i] = w
                               /\ Ready(w)
                               /\ chosen # NoPage => chosen = N!PageOf(w)
    BY <1>4 DEF Aims
  <2>2. focus' = w /\ \A i \in DOMAIN q : q[i] = w
    BY <1>2, <2>1
  <2>3. CASE focus = w
    <3>1. focusing' = q /\ UNCHANGED <<page, lastPanel, leftTab, rightTab, crumb, focus>>
      BY <1>1, <2>2, <2>3 DEF q, N!tabs
    <3>2. N!TypeOK'
      BY <1>1, <1>2, <3>1 DEF N!TypeOK, N!window
    <3>3. q = <<>> => Rest'
      BY <1>1, <2>1, <2>3, <3>1 DEF Rest, Ready, N!PageOf
    <3>4. q # <<>> => Aims'
      BY <1>1, <2>1, <2>2, <3>1 DEF Aims, Ready, N!PageOf
    <3> QED
      BY <1>1, <1>4, <3>1, <3>2, <3>3, <3>4 DEF NavInv, N!window
  <2>4. CASE focus # w
    <3>1. N!DescendantFocus(w, q)
      BY <1>1, <2>2, <2>4 DEF q
    <3>2. (w = "log" => page = "log") /\ (w \in N!Trees => page = "tree")
      BY <2>1 DEF Ready
    <3> QED
      BY <1>1, <1>2, <1>4, <2>1, <2>2, <3>1, <3>2, FocusKeeps
  <2> QED
    BY <2>3, <2>4
<1>5. ASSUME narrow, Fresh PROVE NavInv'
  <2>1. PICK w \in N!Widgets : \/ focusing = <<"depot", w>> /\ focus = "headers"
                               \/ focusing = <<w>> /\ focus = "depot" /\ leftTab = "depot"
    BY <1>5 DEF Fresh
  <2>2. chosen = NoPage /\ page = "tree"
    BY <1>5 DEF Fresh
  <2>3. CASE focusing = <<"depot", w>> /\ focus = "headers"
    <3>1. focus' = "depot" /\ q = <<w>>
      BY <1>2, <2>3 DEF q
    <3>2. N!DescendantFocus("depot", q)
      BY <1>1, <2>3, <3>1 DEF q
    <3>3. leftTab' = "depot" /\ focusing' = <<w>> /\ UNCHANGED <<page, lastPanel, rightTab, crumb>>
      BY <1>5, <2>2, <3>1, <3>2 DEF N!DescendantFocus, N!Flip
    <3>4. N!TypeOK'
      BY <1>1, <1>2, <3>1, <3>3 DEF N!TypeOK, N!window
    <3>5. Fresh'
      BY <1>1, <2>2, <3>1, <3>3 DEF Fresh
    <3> QED
      BY <1>1, <1>5, <3>3, <3>4, <3>5 DEF NavInv, N!window
  <2>4. CASE focusing = <<w>> /\ focus = "depot" /\ leftTab = "depot"
    <3>1. focus' = w /\ q = <<>>
      BY <1>2, <2>4 DEF q
    <3>2. CASE w = "depot"
      <4>1. focusing' = <<>> /\ UNCHANGED <<page, lastPanel, leftTab, rightTab, crumb, focus>>
        BY <1>1, <2>4, <3>1, <3>2 DEF q, N!tabs
      <4>2. N!TypeOK'
        BY <1>1, <4>1 DEF N!TypeOK, N!window
      <4>3. Rest'
        BY <1>1, <2>2, <2>4, <4>1 DEF Rest
      <4> QED
        BY <1>1, <1>5, <4>1, <4>2, <4>3 DEF NavInv, N!window
    <3>3. CASE w # "depot"
      <4>1. N!DescendantFocus(w, q)
        BY <1>1, <2>4, <3>1, <3>3 DEF q
      <4>2. \A i \in DOMAIN q : q[i] = w
        BY <3>1
      <4> QED
        BY <1>1, <1>2, <1>5, <2>2, <3>1, <4>1, <4>2, FocusKeeps
    <3> QED
      BY <3>2, <3>3
  <2> QED
    BY <2>1, <2>3, <2>4
<1> QED
  BY <1>1, <1>3, <1>4, <1>5 DEF NavInv

\* A hidden widget loses the focus.
LEMMA LostKeeps == ASSUME NavInv, N!FocusLost PROVE NavInv'
<1>1. /\ N!TypeOK /\ focusing \in Seq(N!Widgets) /\ focus \notin N!ShownWidgets /\ focus' \in N!ShownWidgets
      /\ N!DescendantFocus(focus', focusing) /\ UNCHANGED <<N!window, resume, empty, chosen>>
  BY DEF N!FocusLost, NavInv, N!TypeOK
<1>2. /\ leftTab \in N!Trees /\ rightTab \in N!PANEL_PAGES /\ page \in N!Pages
      /\ focus' \in N!Widgets \cup {"headers"}
  BY <1>1 DEF N!TypeOK, N!ShownWidgets
<1>3. CASE ~narrow
  <2>1. focusing' = focusing /\ UNCHANGED <<page, lastPanel, N!tabs, crumb>>
    BY <1>1, <1>3 DEF N!DescendantFocus
  <2> QED
    BY <1>1, <1>2, <1>3, <2>1, WideFocusKeeps
<1>4. ASSUME narrow, focus' = "headers" PROVE NavInv'
  <2>1. focusing' = focusing /\ UNCHANGED <<page, lastPanel, leftTab, rightTab, crumb>> /\ page # "log"
    BY <1>1, <1>4 DEF N!DescendantFocus, N!tabs, N!ShownWidgets
  <2>2. N!TypeOK'
    BY <1>1, <1>4, <2>1 DEF N!TypeOK, N!window
  <2>3. focusing = <<>> => Rest'
    BY <1>1, <1>4, <2>1 DEF NavInv, Rest
  <2>4. Aims => Aims'
    BY <1>1, <1>4, <2>1 DEF Aims, Ready, N!PageOf
  <2>5. ~Fresh
    BY <1>1, <1>4 DEF Fresh, N!ShownWidgets
  <2> QED
    BY <1>1, <1>4, <2>1, <2>2, <2>3, <2>4, <2>5 DEF NavInv, N!window
<1>5. ASSUME narrow, focus' \in N!Widgets PROVE NavInv'
  <2>1. \/ page = "tree" /\ focus' = leftTab
        \/ page = "log" /\ focus' = "log"
        \/ page \in N!PANEL_PAGES /\ focus' = rightTab
    BY <1>1, <1>2, <1>5 DEF N!ShownWidgets
  <2>2. ~Fresh
    BY <1>1, <1>5 DEF Fresh, N!ShownWidgets
  <2>3. CASE focusing = <<>>
    <3>1. Rest
      BY <1>5, <2>3 DEF NavInv
    <3>2. chosen = NoPage
      BY <1>1, <1>2, <1>5, <3>1 DEF Rest, N!ShownWidgets
    <3>3. (focus' = "log" => page = "log") /\ (focus' \in N!Trees => page = "tree")
      BY <1>2, <2>1
    <3>4. PICK w \in N!Widgets : w = focus'
      BY <1>5
    <3>5. \A i \in DOMAIN focusing : focusing[i] = w
      BY <2>3
    <3> QED
      BY <1>1, <1>5, <3>2, <3>3, <3>4, <3>5, FocusKeeps
  <2>4. CASE focusing # <<>>
    <3>1. PICK w \in N!Widgets : /\ \A i \in DOMAIN focusing : focusing[i] = w
                                 /\ Ready(w)
                                 /\ chosen # NoPage => chosen = N!PageOf(w)
      BY <1>5, <2>2, <2>4 DEF NavInv, Aims
    <3>2. CASE page \in N!PANEL_PAGES
      <4>1. w = rightTab /\ focus' = w /\ w \in N!PANEL_PAGES
        BY <1>2, <2>1, <3>1, <3>2 DEF Ready
      <4>2. w # "log" /\ w \notin N!Trees
        BY <4>1
      <4> QED
        BY <1>1, <1>5, <3>1, <4>1, <4>2, FocusKeeps
    <3>3. CASE page \notin N!PANEL_PAGES
      <4>1. UNCHANGED <<page, lastPanel, leftTab, rightTab, crumb, focusing>> /\ focus' \notin N!PANEL_PAGES
        BY <1>1, <1>2, <2>1, <3>3 DEF N!DescendantFocus, N!Flip, N!tabs
      <4>2. N!TypeOK'
        BY <1>1, <1>5, <4>1 DEF N!TypeOK, N!window
      <4>3. Aims'
        BY <1>1, <3>1, <4>1 DEF Aims, Ready, N!PageOf
      <4> QED
        BY <1>1, <1>5, <2>4, <4>1, <4>2, <4>3 DEF NavInv, N!window
    <3> QED
      BY <3>2, <3>3
  <2> QED
    BY <2>3, <2>4
<1> QED
  BY <1>2, <1>3, <1>4, <1>5

\* A load changes which tables are empty, and a stuttering step nothing.
LEMMA LoadKeeps ==
  ASSUME NavInv, (\E t \in N!PANEL_PAGES : N!Load(t)) \/ UNCHANGED N!vars
  PROVE  NavInv'
<1>1. UNCHANGED <<N!window, page, lastPanel, resume, leftTab, rightTab, focus, focusing, crumb, chosen>>
      /\ empty' \subseteq N!PANEL_PAGES
  BY DEF N!Load, N!vars, N!tabs, NavInv, N!TypeOK
<1> QED
  BY <1>1 DEF NavInv, N!TypeOK, N!window, Rest, Aims, Ready, Fresh, N!PageOf

LEMMA NavKept == ASSUME NavInv, [N!Next]_(N!vars) PROVE NavInv'
BY KeysChoose, ClickKeeps, TabsKeep, FocusRowKeeps, WideKeeps, RelayoutKeeps, ArrivesKeeps, LostKeeps, LoadKeeps
   DEF N!Next, N!Key

\* The screen settles on the page that was chosen.
THEOREM ChosenStands == N!Spec => []ChosenPageStands
<1>1. N!Init => NavInv
  BY NavInit
<1>2. NavInv /\ [N!Next]_(N!vars) => NavInv'
  BY NavKept
<1>3. NavInv => ChosenPageStands
  BY DEF NavInv, Rest, N!TypeOK, ChosenPageStands, N!ChosenPageStands, N!Quiet, N!ShownWidgets
<1> QED
  BY <1>1, <1>2, <1>3, PTL DEF N!Spec

-----------------------------------------------------------------------------
(* The screen comes to rest.  What is left is counted by the requests under     *)
(* way, and by the one that a change of the page to that of the last adds.      *)

PullOf(q, p) == Len(q) + (IF narrow /\ q # <<>> /\ N!PageOf(q[Len(q)]) # p THEN 1 ELSE 0)

Pull == PullOf(focusing, page)

FocusDrains ==
  [][focusing # <<>> =>
       /\ Pull \in Nat
       /\ Pull' <= Pull
       /\ N!FocusArrives => Pull' < Pull]_(N!vars)

\* The focus comes to w: a page that follows it asks for the focus once more.
LEMMA FollowPull ==
  ASSUME NavInv, narrow, NEW w \in N!Widgets, NEW q \in Seq(N!Widgets),
         \A i \in DOMAIN q : q[i] = w,
         w = "log" => page = "log" \/ q = <<>>,
         w \in N!Trees => page = "tree",
         N!DescendantFocus(w, q), narrow' = narrow
  PROVE  Pull' <= Len(q) + (IF N!PageOf(w) # page THEN 1 ELSE 0)
<1>1. CASE focusing' = q /\ page' = page
  <2>1. q # <<>> => q[Len(q)] = w
    OBVIOUS
  <2> QED
    BY <1>1, <2>1 DEF Pull, PullOf
<1>2. CASE w \in N!PANEL_PAGES /\ N!Land(w, q) /\ page # w
  <2>1. focusing' = Append(q, w) /\ page' = w /\ N!PageOf(w) = w
    BY <1>2 DEF N!Land, N!PaneOf, N!PageOf
  <2>2. focusing' \in Seq(N!Widgets) /\ Len(focusing') = Len(q) + 1 /\ focusing'[Len(focusing')] = w
    BY <2>1
  <2> QED
    BY <1>2, <2>1, <2>2 DEF Pull, PullOf
<1> QED
  BY <1>1, <1>2 DEF N!DescendantFocus, N!Flip, N!Widgets

LEMMA PullAt ==
  ASSUME narrow, focusing \in Seq(N!Widgets), focusing # <<>>, NEW w,
         \A i \in DOMAIN focusing : focusing[i] = w
  PROVE  Pull = Len(focusing) + (IF N!PageOf(w) # page THEN 1 ELSE 0)
<1>1. focusing[Len(focusing)] = w
  OBVIOUS
<1> QED
  BY <1>1 DEF Pull, PullOf

LEMMA ArrivesDrains == ASSUME NavInv, N!FocusArrives PROVE Pull' < Pull /\ Pull' <= Pull
<1>1. /\ focusing \in Seq(N!Widgets) /\ focusing # <<>> /\ focus' = Head(focusing) /\ narrow' = narrow
      /\ narrow \in BOOLEAN
      /\ focus' = focus => focusing' = Tail(focusing) /\ page' = page
      /\ focus' # focus => N!DescendantFocus(focus', Tail(focusing))
  BY DEF N!FocusArrives, N!Quiet, NavInv, N!TypeOK, N!window
<1> DEFINE q == Tail(focusing)
<1>2. /\ q \in Seq(N!Widgets) /\ Len(focusing) = Len(q) + 1 /\ Len(q) \in Nat
      /\ focus' \in N!Widgets /\ focus' = focusing[1] /\ 1 \in DOMAIN focusing
      /\ \A i \in DOMAIN q : i + 1 \in DOMAIN focusing /\ q[i] = focusing[i + 1]
  BY <1>1
<1> HIDE DEF q
<1>3. CASE ~narrow
  <2>1. focusing' = q /\ page' = page
    BY <1>1, <1>3 DEF N!DescendantFocus, q
  <2> QED
    BY <1>1, <1>2, <1>3, <2>1 DEF Pull, PullOf
<1>4. ASSUME narrow, Aims PROVE Pull' < Pull /\ Pull' <= Pull
  <2>1. PICK w \in N!Widgets : (\A i \in DOMAIN focusing : focusing[i] = w) /\ Ready(w)
    BY <1>4 DEF Aims
  <2>2. focus' = w /\ \A i \in DOMAIN q : q[i] = w
    BY <1>2, <2>1
  <2>3. Pull = Len(q) + 1 + (IF N!PageOf(w) # page THEN 1 ELSE 0)
    BY <1>1, <1>2, <1>4, <2>1, PullAt
  <2>4. CASE focus = w
    <3>1. focusing' = q /\ page' = page /\ N!PageOf(w) = page
      BY <1>1, <2>1, <2>2, <2>4 DEF q, Ready, N!PageOf, N!Widgets
    <3>2. q # <<>> => q[Len(q)] = w
      BY <1>2, <2>2
    <3>3. Pull' = Len(q)
      BY <1>1, <1>2, <3>1, <3>2 DEF Pull, PullOf
    <3> QED
      BY <1>2, <2>3, <3>3
  <2>5. CASE focus # w
    <3>1. N!DescendantFocus(w, q) /\ (w = "log" => page = "log") /\ (w \in N!Trees => page = "tree")
      BY <1>1, <2>1, <2>2, <2>5 DEF q, Ready
    <3>2. Pull' <= Len(q) + (IF N!PageOf(w) # page THEN 1 ELSE 0)
      BY <1>1, <1>2, <1>4, <2>2, <3>1, FollowPull
    <3>3. Pull' \in Nat
      BY ArrivesKeeps DEF Pull, PullOf, NavInv, N!TypeOK
    <3> QED
      BY <1>2, <2>3, <3>2, <3>3
  <2> QED
    BY <2>4, <2>5
<1>5. ASSUME narrow, Fresh PROVE Pull' < Pull /\ Pull' <= Pull
  <2>1. PICK w \in N!Widgets : \/ focusing = <<"depot", w>> /\ focus = "headers"
                               \/ focusing = <<w>> /\ focus = "depot" /\ leftTab = "depot"
    BY <1>5 DEF Fresh
  <2>2. page = "tree"
    BY <1>5 DEF Fresh
  <2>3. CASE focusing = <<"depot", w>> /\ focus = "headers"
    <3>1. focus' = "depot" /\ q = <<w>>
      BY <1>2, <2>3 DEF q
    <3>2. N!DescendantFocus("depot", q)
      BY <1>1, <2>3, <3>1 DEF q
    <3>3. focusing' = <<w>> /\ page' = page
      BY <1>5, <2>2, <3>1, <3>2 DEF N!DescendantFocus, N!Flip
    <3> QED
      BY <1>1, <2>3, <3>3 DEF Pull, PullOf
  <2>4. CASE focusing = <<w>> /\ focus = "depot" /\ leftTab = "depot"
    <3>1. focus' = w /\ q = <<>>
      BY <1>2, <2>4 DEF q
    <3>2. Pull = 1 + (IF N!PageOf(w) # page THEN 1 ELSE 0)
      BY <1>1, <1>5, <2>4, PullAt
    <3>3. CASE w = "depot"
      <4>1. focusing' = <<>>
        BY <1>1, <2>4, <3>1, <3>3 DEF q
      <4> QED
        BY <3>2, <4>1 DEF Pull, PullOf
    <3>4. CASE w # "depot"
      <4>1. N!DescendantFocus(w, q) /\ \A i \in DOMAIN q : q[i] = w
        BY <1>1, <2>4, <3>1, <3>4 DEF q
      <4>2. Pull' <= 0 + (IF N!PageOf(w) # page THEN 1 ELSE 0)
        BY <1>1, <1>2, <1>5, <2>2, <3>1, <4>1, FollowPull
      <4>3. Pull' \in Nat
        BY ArrivesKeeps DEF Pull, PullOf, NavInv, N!TypeOK
      <4> QED
        BY <3>2, <4>2, <4>3
    <3> QED
      BY <3>3, <3>4
  <2> QED
    BY <2>1, <2>3, <2>4
<1> QED
  BY <1>1, <1>3, <1>4, <1>5 DEF NavInv

LEMMA LostDrains == ASSUME NavInv, N!FocusLost, focusing # <<>> PROVE Pull' <= Pull
<1>1. /\ focusing \in Seq(N!Widgets) /\ focus \notin N!ShownWidgets /\ focus' \in N!ShownWidgets
      /\ N!DescendantFocus(focus', focusing) /\ narrow' = narrow /\ narrow \in BOOLEAN
      /\ leftTab \in N!Trees /\ rightTab \in N!PANEL_PAGES /\ page \in N!Pages
  BY DEF N!FocusLost, NavInv, N!TypeOK, N!window
<1>2. Pull \in Nat
  BY <1>1 DEF Pull, PullOf
<1>3. focusing' = focusing /\ page' = page => Pull' <= Pull
  BY <1>1, <1>2 DEF Pull, PullOf
<1>4. CASE ~narrow \/ page \notin N!PANEL_PAGES
  BY <1>1, <1>3, <1>4 DEF N!DescendantFocus, N!ShownWidgets, N!Flip, N!Pages
<1>5. ASSUME narrow, page \in N!PANEL_PAGES PROVE Pull' <= Pull
  <2>1. focus' = "headers" \/ focus' = rightTab
    BY <1>1, <1>5 DEF N!ShownWidgets
  <2>2. CASE focus' = "headers"
    BY <1>1, <1>3, <1>5, <2>2 DEF N!DescendantFocus
  <2>3. CASE focus' = rightTab
    <3>1. PICK w \in N!Widgets : (\A i \in DOMAIN focusing : focusing[i] = w) /\ Ready(w)
      BY <1>5 DEF NavInv, Aims, Fresh
    <3>2. w = rightTab /\ w \in N!PANEL_PAGES
      BY <1>1, <1>5, <3>1 DEF Ready, N!Widgets
    <3>3. w # "log" /\ w \notin N!Trees
      BY <3>2
    <3> QED
      BY <1>1, <1>5, <2>3, <3>1, <3>2, <3>3, FollowPull, PullAt
  <2> QED
    BY <2>1, <2>2, <2>3
<1> QED
  BY <1>4, <1>5

\* Focus events and page changes run out: every event that arrives leaves fewer to come,
\* counting the one a change of the page will cause, and a hidden widget that loses the
\* focus causes no more than was counted.  (on_descendant_focus, _apply_pane_visibility.)
THEOREM FocusRunsOut == N!Spec => FocusDrains
<1>1. ASSUME NavInv, [N!Next]_(N!vars), focusing # <<>>
      PROVE  Pull \in Nat /\ Pull' <= Pull /\ (N!FocusArrives => Pull' < Pull)
  <2>1. Pull \in Nat /\ Pull <= Pull
    BY <1>1 DEF NavInv, N!TypeOK, Pull, PullOf
  <2>2. focusing' = focusing /\ page' = page /\ narrow' = narrow => Pull' = Pull
    BY DEF Pull, PullOf
  <2>3. \/ N!FocusArrives \/ N!FocusLost
        \/ focusing' = focusing /\ page' = page /\ narrow' = narrow
    BY <1>1 DEF N!Next, N!Key, N!StepPage, N!Digit, N!TogglePanels, N!Back, N!Choose, N!WideTab, N!WidePanels,
       N!WideFocus, N!NavigateTree, N!ClickHeader, N!Click, N!FocusRow, N!Resize, N!CycleLayout, N!Quiet,
       N!Load, N!vars, N!window
  <2> QED
    BY <1>1, <2>1, <2>2, <2>3, ArrivesDrains, LostDrains
<1>2. NavInv /\ [N!Next]_(N!vars) =>
        [focusing # <<>> => /\ Pull \in Nat
                            /\ Pull' <= Pull
                            /\ N!FocusArrives => Pull' < Pull]_(N!vars)
  BY <1>1
<1> QED
  BY <1>2, NavInit, NavKept, PTL DEF N!Spec, FocusDrains
===============================================================================
