----------------------------- MODULE TreesProofs -----------------------------
(***************************************************************************)
(* Proofs about Trees, for every set of paths, every server and any number of *)
(* listings and moves.  Each property has an invariant of its own:             *)
(*   HistoryInv  which query of the history counts;                          *)
(*   TreeInv     what counts as in the tree is in it (live);                  *)
(*   LabelInv    what labels and spinners hold, and what of the root (RootInv); *)
(*   LoadInv     who asked for a folder, and what a walk waits for;            *)
(*   ListInv     what a folder shows that was asked for.                      *)
(* A walk takes the recursion out of a path: the folders a path is in are a    *)
(* chain under inclusion (OneWay), and the deepest of them that is in the tree *)
(* is well defined since they are finitely many (Topmost, Lowest, DeepestIs). *)
(***************************************************************************)
EXTENDS Trees, SequenceTheorems, FiniteSetTheorems, WellFoundedInduction, TLAPS

-----------------------------------------------------------------------------
(* Sequences.                                                              *)

\* What a sequence without its i-th element is.
LEMMA Removed ==
  ASSUME NEW S, NEW s \in Seq(S), NEW i \in DOMAIN s
  PROVE  /\ RemoveAt(s, i) \in Seq(S) /\ Len(RemoveAt(s, i)) = Len(s) - 1
         /\ i \in 1..Len(s) /\ Len(s) \in Nat
         /\ \A j \in 1..(Len(s) - 1) : RemoveAt(s, i)[j] = IF j < i THEN s[j] ELSE s[j + 1]
<1> DEFINE l == SubSeq(s, 1, i - 1)
           m == SubSeq(s, i + 1, Len(s))
<1>1. Len(s) \in Nat /\ DOMAIN s = 1..Len(s) /\ i \in 1..Len(s)
  OBVIOUS
<1>2. l \in Seq(S) /\ Len(l) = i - 1 /\ \A j \in 1..(i - 1) : l[j] = s[j]
  BY <1>1
<1>3. m \in Seq(S) /\ Len(m) = Len(s) - i /\ \A j \in 1..(Len(s) - i) : m[j] = s[i + j]
  BY <1>1
<1> HIDE DEF l, m
<1>4. l \o m \in Seq(S) /\ Len(l \o m) = Len(s) - 1
  <2>1. l \o m \in Seq(S)
    BY <1>2, <1>3
  <2>2. Len(l \o m) = Len(l) + Len(m)
    BY <1>2, <1>3, ConcatProperties
  <2> QED
    BY <1>1, <1>2, <1>3, <2>1, <2>2
<1>5. \A j \in 1..(Len(s) - 1) : (l \o m)[j] = IF j < i THEN s[j] ELSE s[j + 1]
  <2> DEFINE n == Len(s)
  <2>1. n \in Nat /\ i \in 1..n /\ Len(l) = i - 1 /\ Len(m) = n - i
    BY <1>1, <1>2, <1>3
  <2>2. \A j \in 1..(Len(l) + Len(m)) : (l \o m)[j] = IF j <= Len(l) THEN l[j] ELSE m[j - Len(l)]
    BY <1>2, <1>3, ConcatProperties
  <2> HIDE DEF n
  <2> SUFFICES ASSUME NEW j \in 1..(n - 1) PROVE (l \o m)[j] = IF j < i THEN s[j] ELSE s[j + 1]
    BY DEF n
  <2>3. (l \o m)[j] = IF j <= i - 1 THEN l[j] ELSE m[j - (i - 1)]
    <3>1. j \in 1..(Len(l) + Len(m))
      BY <2>1
    <3> QED
      BY <2>1, <2>2, <3>1
  <2>4. CASE j < i
    BY <1>2, <2>1, <2>3, <2>4
  <2>5. CASE ~(j < i)
    <3>1. j - (i - 1) \in 1..(n - i) /\ i + (j - (i - 1)) = j + 1 /\ ~(j <= i - 1)
      BY <2>1, <2>5
    <3> QED
      BY <1>3, <2>3, <2>5, <3>1 DEF n
  <2> QED
    BY <2>4, <2>5
<1>6. RemoveAt(s, i) = l \o m
  BY DEF RemoveAt, l, m
<1> QED
  BY <1>1, <1>4, <1>5, <1>6

USE TreesAssumption

-----------------------------------------------------------------------------
(* Paths.                                                                  *)

\* A way ends at its path and goes through the folder of the path.
LEMMA WalkFacts ==
  ASSUME NEW p \in Paths
  PROVE  /\ p \in Walk[p] /\ Walk[p] \subseteq Paths
         /\ p # Root => Up[p] \in Dirs /\ Up[p] \in Walk[p] /\ Walk[Up[p]] \subseteq Walk[p] /\ Up[p] # p
<1>1. p \in Walk[p]
  OBVIOUS
<1>2. p # Root => Up[p] \in Dirs /\ Up[p] \in Paths
  OBVIOUS
<1>3. p # Root => Up[p] \in Walk[Up[p]]
  <2> SUFFICES ASSUME p # Root PROVE Up[p] \in Walk[Up[p]]
    OBVIOUS
  <2> DEFINE u == Up[p]
  <2>1. u \in Paths
    BY <1>2
  <2> HIDE DEF u
  <2>2. u \in Walk[u]
    BY <2>1
  <2> QED
    BY <2>2 DEF u
<1> QED
  BY <1>1, <1>2, <1>3

\* A path below d is one further from it than its folder is.
LEMMA BelowUp ==
  ASSUME NEW d \in Dirs, NEW p \in Below(d)
  PROVE  p \in Paths \ {Root} /\ Up[p] \in Dirs /\ d \in Walk[Up[p]]
<1>1. p # Root
  BY DEF Below
<1> QED
  BY <1>1, WalkFacts DEF Below

\* What is not below d has no folder that is d or below d.
LEMMA NotBelow ==
  ASSUME NEW d \in Dirs, NEW p \in Paths \ Below(d), NEW q \in Walk[p] \ {Root}
  PROVE  q \in Paths /\ Up[q] \in Dirs /\ d \notin Walk[Up[q]]
<1>1. q \in Paths /\ Up[q] \in Dirs /\ Walk[Up[q]] \subseteq Walk[q] /\ Walk[q] \subseteq Walk[p]
  BY WalkFacts
<1>2. ASSUME d \in Walk[Up[q]] PROVE FALSE
  <2>1. d = p
    BY <1>1, <1>2 DEF Below
  <2>2. Walk[d] \subseteq Walk[Up[q]]
    BY <1>1, <1>2
  <2>3. q \in Walk[d]
    BY <2>1
  <2> QED
    BY <1>1, <2>2, <2>3
<1> QED
  BY <1>1, <1>2

\* The tree outside d is the same when only the children of d and below it change.
LEMMA LiveOutside ==
  ASSUME NEW d \in Dirs, NEW K, NEW M, \A e \in Dirs : d \notin Walk[e] => K[e] = M[e],
         NEW p \in Paths \ Below(d)
  PROVE  p \in Live(K) <=> p \in Live(M)
BY NotBelow DEF Live

\* Below a folder whose nodes below were taken away there are its new children.
LEMMA LiveBelow ==
  ASSUME NEW d \in Dirs, NEW K, \A e \in Dirs : e # d /\ d \in Walk[e] => K[e] = {},
         NEW p \in Live(K) \cap Below(d)
  PROVE  Up[p] = d /\ p \in K[d]
<1>1. p \in Paths \ {Root} /\ Up[p] \in Dirs /\ d \in Walk[Up[p]] /\ p \in Walk[p]
  BY BelowUp, WalkFacts
<1>2. p \in K[Up[p]]
  BY <1>1 DEF Live
<1> QED
  BY <1>1, <1>2

\* A child of a live folder is live.
LEMMA LiveChild ==
  ASSUME NEW K, NEW d \in Dirs \cap Live(K), NEW p \in K[d] \cap Under(d)
  PROVE  p \in Live(K)
<1>1. p \in Paths \ {Root} /\ Up[p] = d /\ Walk[p] = Walk[d] \cup {p}
  BY DEF Under
<1> QED
  BY <1>1 DEF Live

\* The root is never removed.
LEMMA LiveRoot == ASSUME NEW K PROVE Root \in Live(K)
BY DEF Live

\* What is live has live folders.
LEMMA LiveUp ==
  ASSUME NEW K, NEW p \in Live(K), NEW q \in Walk[p]
  PROVE  q \in Live(K)
<1>1. p \in Paths /\ Walk[q] \subseteq Walk[p] /\ q \in Paths
  BY DEF Live
<1> QED
  BY <1>1 DEF Live

\* What is in a folder is below it.
LEMMA UnderBelow == ASSUME NEW d \in Dirs PROVE Under(d) \subseteq Below(d) /\ d \notin Below(d) /\ Below(d) \subseteq Paths \ {Root}
<1>1. d \in Walk[d]
  BY WalkFacts
<1>2. \A p \in Under(d) : Walk[p] = Walk[d] \cup {p} /\ p # d
  BY <1>1 DEF Under
<1> QED
  BY <1>1, <1>2, BelowUp DEF Below, Under

-----------------------------------------------------------------------------
(* The way to a path.                                                      *)

\* Among some paths there is one that is below no other of them.
LEMMA Topmost ==
  ASSUME NEW T \in SUBSET Paths, T # {}
  PROVE  \E q \in T : \A y \in T : ~ (Walk[y] \subseteq Walk[q] /\ Walk[y] # Walk[q])
<1> DEFINE C == {Walk[q] : q \in T}
<1>1. C # {} /\ C \subseteq FiniteSubsetsOf(Paths)
  <2>1. \A q \in T : Walk[q] \in SUBSET Paths /\ IsFiniteSet(Walk[q])
    BY FS_Subset
  <2> QED
    BY <2>1 DEF FiniteSubsetsOf
<1>2. \E x \in C : \A y \in C : ~ (<<y, x>> \in StrictSubsetOrdering(Paths))
  <2> HIDE DEF C
  <2> QED
    BY <1>1, FS_StrictSubsetOrderingWellFounded, WFMin
<1>3. PICK q \in T : \A y \in T : ~ (<<Walk[y], Walk[q]>> \in StrictSubsetOrdering(Paths))
  BY <1>2
<1>4. ASSUME NEW y \in T, Walk[y] \subseteq Walk[q], Walk[y] # Walk[q] PROVE FALSE
  <2>1. Walk[y] \in SUBSET Paths /\ Walk[q] \in SUBSET Paths
    OBVIOUS
  <2> QED
    BY <1>3, <1>4, <2>1 DEF StrictSubsetOrdering
<1> QED
  BY <1>3, <1>4

\* Among some paths there is one with no other of them below it.
LEMMA Lowest ==
  ASSUME NEW T \in SUBSET Paths, T # {}
  PROVE  \E q \in T : \A y \in T : ~ (Walk[q] \subseteq Walk[y] /\ Walk[y] # Walk[q])
<1> DEFINE Rest == [q \in Paths |-> Paths \ Walk[q]]
           C == {Rest[q] : q \in T}
<1>1. \A q \in T : Walk[q] \subseteq Paths /\ Rest[q] = Paths \ Walk[q] /\ IsFiniteSet(Rest[q])
  BY FS_Subset
<1> HIDE DEF Rest
<1>2. C # {} /\ C \subseteq FiniteSubsetsOf(Paths)
  BY <1>1 DEF FiniteSubsetsOf
<1>3. \E x \in C : \A y \in C : ~ (<<y, x>> \in StrictSubsetOrdering(Paths))
  <2> HIDE DEF C
  <2> QED
    BY <1>2, FS_StrictSubsetOrderingWellFounded, WFMin
<1>4. PICK q \in T : \A y \in T : ~ (<<Rest[y], Rest[q]>> \in StrictSubsetOrdering(Paths))
  BY <1>3
<1>5. ASSUME NEW y \in T, Walk[q] \subseteq Walk[y], Walk[y] # Walk[q] PROVE FALSE
  <2>1. PICK p \in Walk[y] : p \notin Walk[q]
    BY <1>5
  <2>2. p \in Rest[q] /\ p \notin Rest[y] /\ Rest[y] \subseteq Rest[q]
        /\ Rest[q] \in SUBSET Paths /\ Rest[y] \in SUBSET Paths
    BY <1>1, <1>5, <2>1
  <2> QED
    BY <1>4, <2>2 DEF StrictSubsetOrdering
<1> QED
  BY <1>4, <1>5

\* What is on the way to t is a folder, and something further on is in it.
LEMMA OnTheWay ==
  ASSUME NEW t \in Paths, NEW n \in Walk[t], n # t
  PROVE  n \in Dirs /\ NextSegment(n, t) # {}
<1> DEFINE T == {q \in Walk[t] : n \in Walk[q] /\ q # n}
<1>1. t \in T /\ T \in SUBSET Paths
  BY WalkFacts
<1>2. PICK q \in T : \A y \in T : ~ (Walk[y] \subseteq Walk[q] /\ Walk[y] # Walk[q])
  BY <1>1, Topmost, ZenonT(20)
<1>3. q \in Paths \ {Root} /\ q \in Walk[t]
  BY <1>1
<1>4. Up[q] \in Dirs /\ n \in Walk[Up[q]] /\ q \notin Walk[Up[q]] /\ Up[q] \in Walk[q]
      /\ Walk[Up[q]] \subseteq Walk[q] /\ q \in Walk[q]
  BY <1>3, WalkFacts
<1>5. Up[q] \in Walk[t]
  BY <1>3, <1>4
<1>6. Up[q] = n
  BY <1>2, <1>4, <1>5
<1> QED
  BY <1>3, <1>4, <1>6 DEF NextSegment

\* The walk finds a node to go on from.
LEMMA DeepestIs ==
  ASSUME NEW K, NEW t \in Paths
  PROVE  LET n == Deepest(K, t)
         IN n \in Walk[t] /\ n \in Live(K) /\ NextSegment(n, t) \cap Children(K, n) = {}
<1> DEFINE T == Walk[t] \cap Live(K)
<1>1. T \in SUBSET Paths /\ Root \in T
  BY LiveRoot DEF Live
<1>2. PICK n \in T : \A y \in T : ~ (Walk[n] \subseteq Walk[y] /\ Walk[y] # Walk[n])
  BY <1>1, Lowest, ZenonT(20)
<1>3. ASSUME NEW q \in NextSegment(n, t) \cap Children(K, n) PROVE FALSE
  <2>1. n \in Dirs /\ q \in K[n] /\ q \in Walk[t] \ {Root} /\ Up[q] = n /\ q \in Paths
    BY <1>1, <1>3 DEF Children, NextSegment
  <2>2. q \in T
    BY <2>1, LiveChild DEF Under
  <2>3. Walk[n] \subseteq Walk[q] /\ q \in Walk[q] /\ q \notin Walk[n]
    BY <2>1, WalkFacts
  <2> QED
    BY <1>2, <2>2, <2>3
<1>4. \E m \in Walk[t] \cap Live(K) : NextSegment(m, t) \cap Children(K, m) = {}
  BY <1>3
<1> QED
  BY <1>4 DEF Deepest

-----------------------------------------------------------------------------
(* Labels.                                                                 *)

Glyph == {"mark", "pending"}

\* A glyph is in front of a label if and only if it is the first there.
LEMMA Prefixed ==
  ASSUME NEW l \in Seq(Glyph), NEW g \in Glyph
  PROVE  IsPrefix(<<g>>, l) <=> l # <<>> /\ l[1] = g
<1> DEFINE s == <<g>>
<1>1. s \in Seq(Glyph) /\ Len(s) = 1 /\ s[1] = g
  OBVIOUS
<1>2. SubSeq(s, 1, 1) \in Seq(Glyph) /\ Len(SubSeq(s, 1, 1)) = 1 /\ SubSeq(s, 1, 1)[1] = g
  BY <1>1
<1>3. ASSUME l # <<>>
      PROVE  SubSeq(l, 1, 1) \in Seq(Glyph) /\ Len(SubSeq(l, 1, 1)) = 1 /\ SubSeq(l, 1, 1)[1] = l[1]
  <2>1. Len(l) \in Nat /\ Len(l) >= 1
    BY <1>3
  <2> QED
    BY <2>1
<1>4. IsPrefix(s, l) <=> 1 <= Len(l) /\ SubSeq(s, 1, 1) = SubSeq(l, 1, 1)
  BY <1>1 DEF IsPrefix
<1>5. l # <<>> <=> 1 <= Len(l)
  OBVIOUS
<1> HIDE DEF s
<1>6. ASSUME l # <<>> PROVE SubSeq(s, 1, 1) = SubSeq(l, 1, 1) <=> g = l[1]
  <2> DEFINE u == SubSeq(s, 1, 1)
             v == SubSeq(l, 1, 1)
  <2>1. u \in Seq(Glyph) /\ v \in Seq(Glyph) /\ Len(u) = 1 /\ Len(v) = 1 /\ u[1] = g /\ v[1] = l[1]
    BY <1>2, <1>3, <1>6
  <2> HIDE DEF u, v
  <2>2. g = l[1] => u = v
    BY <2>1, SeqEqual
  <2> QED
    BY <2>1, <2>2 DEF u, v
<1> QED
  BY <1>4, <1>5, <1>6 DEF s

\* Labels stay labels.
LEMMA GlyphTypes ==
  ASSUME NEW l \in Seq(Glyph), NEW g \in Glyph
  PROVE  With(<<g>>, l) \in Seq(Glyph) /\ Without(<<g>>, l) \in Seq(Glyph)
<1>1. <<g>> \o l \in Seq(Glyph)
  OBVIOUS
<1>2. l # <<>> => Tail(l) \in Seq(Glyph)
  OBVIOUS
<1> QED
  BY <1>1, <1>2, Prefixed DEF With, Without

-----------------------------------------------------------------------------
(* The types.                                                              *)

Event == [path : Dirs, live : BOOLEAN]
Fetch == [path : Dirs, live : BOOLEAN, rows : SUBSET Paths, read : BOOLEAN]
Spinner == [path : Dirs, live : BOOLEAN, label : Seq(Glyph)]
Action == [path : Dirs, live : BOOLEAN, file : Paths \cup {Nothing}]
Lookup == [node : Paths, cancelled : BOOLEAN]

TreeTypes ==
  /\ server \subseteq Paths /\ kids \in [Dirs -> SUBSET Paths] /\ open \subseteq Dirs
  /\ cursor \in Paths /\ loaded \subseteq Dirs
  /\ events \subseteq Event /\ fetches \in Seq(Fetch) /\ spin \subseteq Spinner
  /\ target \in Paths \cup {Nothing} /\ back \in Paths \cup {Nothing}
  /\ reopen \subseteq Dirs /\ marked \subseteq Paths
  /\ label \in [Paths -> Seq(Glyph)] /\ acting \subseteq Action
  /\ tidy \in BOOLEAN /\ moves \in 0..MaxMoves /\ edits \in 0..MaxEdits

PastTypes ==
  /\ timer \in Paths \cup {Nothing} /\ history \in Paths \cup {Nothing}
  /\ lookups \in Seq(Lookup)

\* The types of the tree and those of the history.
LEMMA TypesSplit == TypeOK <=> TreeTypes /\ PastTypes
BY DEF TypeOK, TreeTypes, PastTypes, Event, Fetch, Spinner, Action, Lookup, Glyph

\* The steps that concern the tree.
Stir == User \/ Load \/ Act \/ ServerChanges

\* What waits for a node is left as it is, but for its being in the tree (events,
\* spinners, actions).
LEMMA EventsLeft ==
  ASSUME NEW S \in SUBSET Event, NEW d \in Dirs
  PROVE  /\ Detached(S, d) \subseteq Event
         /\ \A x \in Detached(S, d) : \E s \in S :
              x.path = s.path /\ (x.live <=> s.live /\ s.path \notin Below(d))
         /\ \A s \in S : \E x \in Detached(S, d) :
              x.path = s.path /\ (x.live <=> s.live /\ s.path \notin Below(d))
<1> DEFINE L(s) == s.live /\ s.path \notin Below(d)
           D(s) == [s EXCEPT !.live = L(s)]
<1>1. ASSUME NEW s \in S
      PROVE  D(s) \in Event /\ D(s).path = s.path /\ (D(s).live <=> L(s))
  <2>1. L(s) \in BOOLEAN
    OBVIOUS
  <2> HIDE DEF L
  <2> QED
    BY <2>1 DEF Event
<1>2. Detached(S, d) = {D(s) : s \in S}
  BY DEF Detached
<1> HIDE DEF D
<1> QED
  BY <1>1, <1>2

LEMMA SpinnersLeft ==
  ASSUME NEW S \in SUBSET Spinner, NEW d \in Dirs
  PROVE  /\ Detached(S, d) \subseteq Spinner
         /\ \A x \in Detached(S, d) : \E s \in S :
              x.path = s.path /\ x.label = s.label /\ (x.live <=> s.live /\ s.path \notin Below(d))
<1> DEFINE L(s) == s.live /\ s.path \notin Below(d)
           D(s) == [s EXCEPT !.live = L(s)]
<1>1. ASSUME NEW s \in S
      PROVE  D(s) \in Spinner /\ D(s).path = s.path /\ D(s).label = s.label /\ (D(s).live <=> L(s))
  <2>1. L(s) \in BOOLEAN
    OBVIOUS
  <2> HIDE DEF L
  <2> QED
    BY <2>1 DEF Spinner
<1>2. Detached(S, d) = {D(s) : s \in S}
  BY DEF Detached
<1> HIDE DEF D
<1> QED
  BY <1>1, <1>2

LEMMA ActionsLeft ==
  ASSUME NEW S \in SUBSET Action, NEW d \in Dirs
  PROVE  /\ Detached(S, d) \subseteq Action
         /\ \A x \in Detached(S, d) : \E s \in S :
              x.path = s.path /\ x.file = s.file /\ (x.live <=> s.live /\ s.path \notin Below(d))
         /\ \A s \in S : \E x \in Detached(S, d) :
              x.path = s.path /\ x.file = s.file /\ (x.live <=> s.live /\ s.path \notin Below(d))
<1> DEFINE L(s) == s.live /\ s.path \notin Below(d)
           D(s) == [s EXCEPT !.live = L(s)]
<1>1. ASSUME NEW s \in S
      PROVE  D(s) \in Action /\ D(s).path = s.path /\ D(s).file = s.file /\ (D(s).live <=> L(s))
  <2>1. L(s) \in BOOLEAN
    OBVIOUS
  <2> HIDE DEF L
  <2> QED
    BY <2>1 DEF Action
<1>2. Detached(S, d) = {D(s) : s \in S}
  BY DEF Detached
<1> HIDE DEF D
<1> QED
  BY <1>1, <1>2

\* The same, of their types only.
LEMMA DetachedEvents ==
  ASSUME NEW S \in SUBSET Event, NEW d \in Dirs
  PROVE  Detached(S, d) \subseteq Event
BY EventsLeft

LEMMA DetachedSpinners ==
  ASSUME NEW S \in SUBSET Spinner, NEW d \in Dirs
  PROVE  Detached(S, d) \subseteq Spinner
BY SpinnersLeft

LEMMA DetachedActions ==
  ASSUME NEW S \in SUBSET Action, NEW d \in Dirs
  PROVE  Detached(S, d) \subseteq Action
BY ActionsLeft

LEMMA DetachedFetches ==
  ASSUME NEW f \in Seq(Fetch), NEW d \in Dirs
  PROVE  /\ DetachedSeq(f, d) \in Seq(Fetch) /\ Len(DetachedSeq(f, d)) = Len(f)
         /\ DOMAIN DetachedSeq(f, d) = DOMAIN f
         /\ \A i \in DOMAIN f :
              LET g == DetachedSeq(f, d)[i]
              IN /\ g.path = f[i].path /\ g.rows = f[i].rows /\ g.read = f[i].read
                 /\ g.live <=> (f[i].live /\ f[i].path \notin Below(d))
<1> DEFINE L(i) == f[i].live /\ f[i].path \notin Below(d)
           D(i) == [f[i] EXCEPT !.live = L(i)]
           s == [i \in 1..Len(f) |-> D(i)]
<1>1. Len(f) \in Nat /\ DOMAIN f = 1..Len(f) /\ \A i \in 1..Len(f) : f[i] \in Fetch
  OBVIOUS
<1>2. ASSUME NEW i \in 1..Len(f)
      PROVE  /\ D(i) \in Fetch /\ (D(i).live <=> L(i))
             /\ D(i).path = f[i].path /\ D(i).rows = f[i].rows /\ D(i).read = f[i].read
  <2>1. f[i] \in Fetch /\ L(i) \in BOOLEAN
    BY <1>1
  <2> HIDE DEF L
  <2> QED
    BY <2>1 DEF Fetch
<1> HIDE DEF D
<1>4. s \in Seq(Fetch) /\ Len(s) = Len(f) /\ DOMAIN s = DOMAIN f /\ \A i \in DOMAIN f : s[i] = D(i)
  BY <1>1, <1>2
<1>5. DetachedSeq(f, d) = s
  BY <1>1 DEF DetachedSeq, D
<1> HIDE DEF s
<1> QED
  BY <1>1, <1>2, <1>4, <1>5

\* The types, action by action.
LEMMA AskedTypes ==
  ASSUME NEW f \in Seq(Fetch), NEW d \in Dirs, NEW l \in BOOLEAN
  PROVE  Asked(f, d, l) \in Seq(Fetch)
<1>1. [path |-> d, live |-> l, rows |-> {}, read |-> FALSE] \in Fetch
  BY DEF Fetch
<1> QED
  BY <1>1 DEF Asked

LEMMA Initially == Init => TypeOK
BY DEF Init, TypeOK

LEMMA ClearedTypes ==
  ASSUME kids \in [Dirs -> SUBSET Paths], NEW d \in Dirs
  PROVE  Cleared(d) \in [Dirs -> SUBSET Paths]
BY DEF Cleared

LEMMA StepTypes ==
  ASSUME NEW K \in [Dirs -> SUBSET Paths], NEW O \in SUBSET Dirs, NEW E \in SUBSET Event,
         NEW c \in Paths, NEW L, NEW t \in Paths, NavigateStep(K, O, E, c, L, t)
  PROVE  /\ kids' \in [Dirs -> SUBSET Paths] /\ open' \subseteq Dirs /\ events' \subseteq Event
         /\ cursor' \in Paths /\ target' \in Paths \cup {Nothing}
<1> DEFINE n == Deepest(K, t)
<1>1. n \in Walk[t] /\ n \in Live(K)
  BY DeepestIs
<1>2. n # t => n \in Dirs
  BY <1>1, OnTheWay
<1>3. n \in Paths /\ Visible(K, O) \subseteq Paths
  BY <1>1 DEF Live, Visible
<1>4. n \in Dirs => [path |-> n, live |-> TRUE] \in Event
  BY DEF Event
<1> HIDE DEF n
<1> QED
  BY <1>2, <1>3, <1>4 DEF NavigateStep, Lands, n

LEMMA RemoveTypes ==
  ASSUME TreeTypes, NEW d \in Dirs, RemoveChildren(d)
  PROVE  /\ kids' \in [Dirs -> SUBSET Paths] /\ spin' \subseteq Spinner
         /\ label' \in [Paths -> Seq(Glyph)] /\ cursor' \in Paths
BY ClearedTypes, DetachedSpinners DEF TreeTypes, RemoveChildren

LEMMA RefreshTypes ==
  ASSUME TreeTypes, RefreshRoot
  PROVE  /\ server' \subseteq Paths /\ kids' \in [Dirs -> SUBSET Paths] /\ open' \subseteq Dirs
         /\ cursor' \in Paths /\ loaded' \subseteq Dirs
         /\ events' \subseteq Event /\ fetches' \in Seq(Fetch) /\ spin' \subseteq Spinner
         /\ target' \in Paths \cup {Nothing} /\ back' \in Paths \cup {Nothing}
         /\ reopen' \subseteq Dirs /\ marked' \subseteq Paths
         /\ label' \in [Paths -> Seq(Glyph)] /\ tidy' \in BOOLEAN
<1>1. [path |-> Root, live |-> TRUE] \in Event
  BY DEF Event
<1> QED
  BY <1>1, RemoveTypes, DetachedEvents, DetachedFetches, ZenonT(40) DEF TreeTypes, RefreshRoot, Quiet

LEMMA ReloadTypes ==
  ASSUME TreeTypes, NEW d \in Dirs, NEW l \in BOOLEAN, ReloadNode(d, l)
  PROVE  /\ server' \subseteq Paths /\ kids' \in [Dirs -> SUBSET Paths] /\ open' \subseteq Dirs
         /\ cursor' \in Paths /\ loaded' \subseteq Dirs
         /\ events' \subseteq Event /\ fetches' \in Seq(Fetch) /\ spin' \subseteq Spinner
         /\ target' \in Paths \cup {Nothing} /\ back' \in Paths \cup {Nothing}
         /\ reopen' \subseteq Dirs /\ marked' \subseteq Paths
         /\ label' \in [Paths -> Seq(Glyph)] /\ tidy' \in BOOLEAN
<1>1. fetches' \in Seq(Fetch)
  BY DetachedFetches, AskedTypes DEF TreeTypes, ReloadNode
<1> QED
  BY <1>1, RemoveTypes, DetachedEvents, SMTT(20) DEF TreeTypes, ReloadNode, Quiet

LEMMA PopulateTypes ==
  ASSUME TreeTypes, NEW i \in DOMAIN fetches, Populate(i)
  PROVE  TreeTypes'
<1> DEFINE got == fetches[i]
           d == got.path
           K == IF got.live THEN [Cleared(d) EXCEPT ![d] = got.rows] ELSE kids
           again == got.rows \cap reopen \cap Dirs
           O == IF got.live THEN (open \ Below(d)) \cup again ELSE open
           E == (IF got.live THEN Detached(events, d) ELSE events)
                  \cup {[path |-> p, live |-> got.live] : p \in again}
           ended == {s \in spin : s.path = d /\ s.live = got.live}
           there == IF back \in got.rows THEN IF got.live THEN Lands(back, K, O) ELSE Visible(K, O)
                    ELSE {IF got.live /\ cursor \in Below(d) THEN Root ELSE cursor}
<1>1. got \in Fetch /\ d \in Dirs /\ got.live \in BOOLEAN /\ got.rows \subseteq Paths
  <2>1. got \in Fetch
    BY DEF TreeTypes
  <2> QED
    BY <2>1 DEF Fetch
<1>2. K \in [Dirs -> SUBSET Paths]
  BY <1>1, ClearedTypes DEF TreeTypes
<1>3. O \subseteq Dirs /\ E \subseteq Event
  <2>1. {[path |-> p, live |-> got.live] : p \in again} \subseteq Event
    BY <1>1 DEF Event
  <2> QED
    BY <1>1, <2>1, DetachedEvents DEF TreeTypes
<1>4. there \subseteq Paths
  BY <1>1 DEF TreeTypes, Lands, Visible, Live
<1>5. fetches' \in Seq(Fetch)
  BY <1>1, Removed, DetachedFetches DEF TreeTypes, Populate
<1>6. spin' \subseteq Spinner
  BY <1>1, DetachedSpinners DEF TreeTypes, Populate
<1>7. label' \in [Paths -> Seq(Glyph)]
  <2>1. \A p \in Paths : label'[p] \in Seq(Glyph)
    <3>1. Mark \in Seq(Glyph) /\ <<>> \in Seq(Glyph)
      BY DEF Mark, Glyph
    <3>2. ASSUME NEW p \in Paths, \E s \in spin : s.live /\ s.path = p
          PROVE  (CHOOSE s \in spin : s.live /\ s.path = p).label \in Seq(Glyph)
      BY <3>2 DEF TreeTypes, Spinner
    <3> QED
      BY <3>1, <3>2 DEF TreeTypes, Populate, Relabelled
  <2> QED
    BY <2>1 DEF Populate, Relabelled
<1>8. acting' \subseteq Action /\ back' \in Paths \cup {Nothing} /\ reopen' \subseteq Dirs
  BY <1>1, DetachedActions DEF TreeTypes, Populate
<1>9. PICK c \in there :
        IF target # Nothing /\ (target = d \/ NextSegment(d, target) # {})
        THEN NavigateStep(K, O, E, c, loaded, target)
        ELSE Stay(K, O, E, c)
  BY DEF Populate
<1>10. /\ kids' \in [Dirs -> SUBSET Paths] /\ open' \subseteq Dirs /\ events' \subseteq Event
       /\ cursor' \in Paths /\ target' \in Paths \cup {Nothing}
  <2> HIDE DEF got, d, K, O, E, there
  <2>1. c \in Paths /\ target \in Paths \cup {Nothing}
    BY <1>4 DEF TreeTypes
  <2>2. CASE target # Nothing /\ NavigateStep(K, O, E, c, loaded, target)
    BY <1>2, <1>3, <2>1, <2>2, StepTypes
  <2>3. CASE Stay(K, O, E, c)
    BY <1>2, <1>3, <2>1, <2>3 DEF Stay
  <2> QED
    BY <1>9, <2>2, <2>3
<1> QED
  BY <1>5, <1>6, <1>7, <1>8, <1>10 DEF TreeTypes, Populate

LEMMA UserTypes == ASSUME TreeTypes, User PROVE TreeTypes'
<1>1. CASE Refresh
  BY <1>1, RefreshTypes, DetachedActions DEF TreeTypes, Refresh, Move
<1>2. CASE Reload
  <2>1. cursor \in Dirs /\ ReloadNode(cursor, TRUE) /\ acting' \subseteq Action
    BY <1>2, DetachedActions DEF TreeTypes, Reload
  <2> QED
    <3>1. \A d \in Dirs : ReloadNode(d, TRUE) =>
            /\ server' \subseteq Paths /\ kids' \in [Dirs -> SUBSET Paths] /\ open' \subseteq Dirs
            /\ cursor' \in Paths /\ loaded' \subseteq Dirs
            /\ events' \subseteq Event /\ fetches' \in Seq(Fetch) /\ spin' \subseteq Spinner
            /\ target' \in Paths \cup {Nothing} /\ back' \in Paths \cup {Nothing}
            /\ reopen' \subseteq Dirs /\ marked' \subseteq Paths
            /\ label' \in [Paths -> Seq(Glyph)] /\ tidy' \in BOOLEAN
      BY ReloadTypes
    <3> QED
      <4>1. moves' \in 0..MaxMoves /\ edits' \in 0..MaxEdits
        BY <1>2 DEF TreeTypes, Reload, Move
      <4>2. cursor \in Dirs /\ ReloadNode(cursor, TRUE)
        BY <2>1
      <4> QED
        BY <2>1, <3>1, <4>1, <4>2 DEF TreeTypes
<1>3. CASE NavigateToPath
  <2>1. PICK t \in Paths : NavigateStep(kids, open, events, cursor, loaded, t)
    BY <1>3 DEF NavigateToPath
  <2>2. /\ kids' \in [Dirs -> SUBSET Paths] /\ open' \subseteq Dirs /\ events' \subseteq Event
        /\ cursor' \in Paths /\ target' \in Paths \cup {Nothing}
    <3>1. kids \in [Dirs -> SUBSET Paths] /\ open \in SUBSET Dirs /\ events \in SUBSET Event /\ cursor \in Paths
      BY DEF TreeTypes
    <3> QED
      BY <2>1, <3>1, StepTypes
  <2> QED
    BY <1>3, <2>2 DEF TreeTypes, NavigateToPath, Move, Quiet, labels
<1>4. CASE MoveCursor
  BY <1>4 DEF TreeTypes, MoveCursor, Move, Visible, Live, walk, labels
<1>5. ASSUME NEW S \in SUBSET Dirs, Open(S), Move PROVE TreeTypes'
  <2>1. {[path |-> d, live |-> TRUE] : d \in S \ open} \subseteq Event
    <3>1. \A d \in Dirs : [path |-> d, live |-> TRUE] \in Event
      BY DEF Event
    <3> QED
      BY <3>1
  <2> QED
    BY <1>5, <2>1 DEF TreeTypes, Open, Move, walk, labels
<1>6. CASE ExpandNode
  BY <1>5, <1>6 DEF ExpandNode
<1>7. CASE ApplyFilter
  <2>1. \A p \in Paths : Walk[p] \ {p} \subseteq Dirs
    BY OnTheWay
  <2> QED
    BY <1>5, <1>7, <2>1 DEF ApplyFilter, Live
<1>8. CASE CollapseNode
  BY <1>8 DEF TreeTypes, CollapseNode, Move, walk, labels
<1>9. CASE ToggleMark
  <2>1. With(Mark, label[cursor]) \in Seq(Glyph) /\ Without(Mark, label[cursor]) \in Seq(Glyph)
    BY GlyphTypes DEF TreeTypes, Mark, Glyph
  <2> QED
    <3>1. label' \in [Paths -> Seq(Glyph)] /\ marked' \subseteq Paths
      <4>1. cursor \in Paths /\ label \in [Paths -> Seq(Glyph)] /\ marked \subseteq Paths
        BY DEF TreeTypes
      <4>2. CASE cursor \in marked
        <5>1. marked' = marked \ {cursor} /\ label' = [label EXCEPT ![cursor] = Without(Mark, @)]
          BY <1>9, <4>2 DEF ToggleMark
        <5> QED
          BY <2>1, <4>1, <5>1
      <4>3. CASE cursor \notin marked
        <5>1. marked' = marked \cup {cursor} /\ label' = [label EXCEPT ![cursor] = With(Mark, @)]
          BY <1>9, <4>3 DEF ToggleMark
        <5> QED
          BY <2>1, <4>1, <5>1
      <4> QED
        BY <4>2, <4>3
    <3>2. tidy' \in BOOLEAN
      BY <1>9 DEF ToggleMark
    <3> QED
      BY <1>9, <3>1, <3>2 DEF TreeTypes, ToggleMark, Move, view, walk
<1>10. ASSUME ClearMarks, Move, acting' \subseteq Action PROVE TreeTypes'
  <2>1. label' \in [Paths -> Seq(Glyph)]
    BY <1>10, GlyphTypes DEF TreeTypes, ClearMarks, Mark, Glyph
  <2> QED
    BY <1>10, <2>1 DEF TreeTypes, ClearMarks, Move, view, walk
<1>11. CASE RunFileAction
  <2>1. With(Pending, label[cursor]) \in Seq(Glyph)
    BY GlyphTypes DEF TreeTypes, Pending, Glyph
  <2>2. acting' \subseteq Action
    <3>1. [path |-> Root, live |-> TRUE, file |-> Nothing] \in Action
      BY DEF Action
    <3>2. cursor # Root => [path |-> Up[cursor], live |-> TRUE, file |-> cursor] \in Action
      BY DEF TreeTypes, Action
    <3>3. acting \subseteq Action
      BY DEF TreeTypes
    <3>4. CASE cursor = Root
      BY <1>11, <3>1, <3>3, <3>4 DEF RunFileAction
    <3>5. CASE cursor # Root
      BY <1>11, <3>2, <3>3, <3>5 DEF RunFileAction
    <3> QED
      BY <3>4, <3>5
  <2> QED
    BY <1>11, <2>1, <2>2 DEF TreeTypes, RunFileAction, Move, view, walk
<1>12. CASE RunBulkAction
  <2>1. acting' \subseteq Action
    <3>1. [path |-> Root, live |-> TRUE, file |-> Nothing] \in Action
      BY DEF Action
    <3> QED
      BY <1>12, <3>1 DEF TreeTypes, RunBulkAction
  <2> QED
    BY <1>10, <1>12, <2>1 DEF RunBulkAction
<1>13. CASE DropMarks
  BY <1>10, <1>13 DEF TreeTypes, DropMarks
<1> QED
  BY <1>1, <1>2, <1>3, <1>4, <1>6, <1>7, <1>8, <1>9, <1>11, <1>12, <1>13 DEF User

LEMMA LoadTypes == ASSUME TreeTypes, Load PROVE TreeTypes'
<1>1. ASSUME NEW e \in events, Expanded(e) PROVE TreeTypes'
  <2>1. e \in Event /\ e.path \in Dirs /\ e.live \in BOOLEAN
    BY DEF TreeTypes, Event
  <2>2. [path |-> e.path, live |-> e.live, label |-> label[e.path]] \in Spinner
    BY <2>1 DEF TreeTypes, Spinner
  <2>3. CASE e.path \in loaded
    BY <1>1, <2>3 DEF TreeTypes, Expanded, view, walk, labels
  <2>4. CASE e.path \notin loaded
    <3>1. fetches' \in Seq(Fetch)
      BY <1>1, <2>1, <2>4, AskedTypes DEF TreeTypes, Expanded
    <3>2. spin' \subseteq Spinner /\ loaded' \subseteq Dirs
      BY <1>1, <2>1, <2>2, <2>4 DEF TreeTypes, Expanded
    <3> QED
      BY <1>1, <3>1, <3>2 DEF TreeTypes, Expanded, view, walk, labels
  <2> QED
    BY <2>3, <2>4
<1>2. ASSUME NEW i \in DOMAIN fetches, FetchNodeData(i) PROVE TreeTypes'
  <2>1. fetches \in Seq(Fetch) /\ i \in 1..Len(fetches) /\ fetches[i] \in Fetch
    BY DEF TreeTypes
  <2>2. ASSUME NEW g \in Fetch PROVE [fetches EXCEPT ![i] = g] \in Seq(Fetch)
    BY <2>1, ExceptSeq
  <2>3. \A R \in SUBSET Paths : /\ [fetches[i] EXCEPT !.read = TRUE, !.rows = R] \in Fetch
                                /\ [fetches[i] EXCEPT !.read = TRUE] \in Fetch
    BY <2>1 DEF Fetch
  <2>4. server \cap Under(fetches[i].path) \in SUBSET Paths
    BY DEF TreeTypes
  <2>5. fetches' \in Seq(Fetch)
    <3> DEFINE R == server \cap Under(fetches[i].path)
               g == [fetches[i] EXCEPT !.read = TRUE, !.rows = R]
               h == [fetches[i] EXCEPT !.read = TRUE]
    <3>1. g \in Fetch /\ h \in Fetch
      BY <2>3, <2>4
    <3>2. fetches' = [fetches EXCEPT ![i] = g] \/ fetches' = [fetches EXCEPT ![i] = h]
      BY <1>2 DEF FetchNodeData
    <3> HIDE DEF g, h
    <3> QED
      BY <2>2, <3>1, <3>2, SMTT(20)
  <2> QED
    BY <1>2, <2>5, SMTT(20) DEF TreeTypes, FetchNodeData, view, walk, labels
<1> QED
  BY <1>1, <1>2, PopulateTypes DEF Load

LEMMA ActTypes == ASSUME TreeTypes, Act PROVE TreeTypes'
<1> PICK a \in acting : RefreshAfterAction(a) \/ ActionFails(a)
  BY DEF Act
<1>1. a \in Action /\ a.path \in Dirs /\ a.live \in BOOLEAN
  BY DEF TreeTypes, Action
<1>2. CASE RefreshAfterAction(a) /\ a.file = Nothing
  BY <1>2, RefreshTypes, DetachedActions DEF TreeTypes, RefreshAfterAction
<1>3. CASE RefreshAfterAction(a) /\ a.file # Nothing
  <2>1. ReloadNode(a.path, a.live) /\ UNCHANGED <<moves, edits>>
    BY <1>3 DEF RefreshAfterAction
  <2>2. acting' \subseteq Action
    BY <1>1, <1>3, DetachedActions DEF TreeTypes, RefreshAfterAction
  <2>3. moves' \in 0..MaxMoves /\ edits' \in 0..MaxEdits
    BY <2>1 DEF TreeTypes
  <2>4. /\ server' \subseteq Paths /\ kids' \in [Dirs -> SUBSET Paths] /\ open' \subseteq Dirs
        /\ cursor' \in Paths /\ loaded' \subseteq Dirs
        /\ events' \subseteq Event /\ fetches' \in Seq(Fetch) /\ spin' \subseteq Spinner
        /\ target' \in Paths \cup {Nothing} /\ back' \in Paths \cup {Nothing}
        /\ reopen' \subseteq Dirs /\ marked' \subseteq Paths
        /\ label' \in [Paths -> Seq(Glyph)] /\ tidy' \in BOOLEAN
    BY <1>1, <2>1, ReloadTypes
  <2> QED
    BY <2>2, <2>3, <2>4 DEF TreeTypes
<1>4. CASE ActionFails(a)
  <2>1. \A p \in Paths : Without(Pending, label[p]) \in Seq(Glyph)
    BY GlyphTypes DEF TreeTypes, Pending, Glyph
  <2> QED
    <3>1. label' \in [Paths -> Seq(Glyph)]
      BY <1>4, <2>1 DEF TreeTypes, ActionFails
    <3> QED
      BY <1>4, <3>1 DEF TreeTypes, ActionFails, view, walk
<1> QED
  BY <1>2, <1>3, <1>4

LEMMA StirTypes == ASSUME TreeTypes, Stir PROVE TreeTypes'
<1>1. CASE ServerChanges
  BY <1>1 DEF TreeTypes, ServerChanges, view, walk, labels
<1> QED
  BY <1>1, UserTypes, LoadTypes, ActTypes DEF Stir

LEMMA LookupTypes ==
  ASSUME PastTypes, NEW n \in Paths, LoadHistory(n)
  PROVE  lookups' \in Seq(Lookup)
<1> DEFINE s == [i \in 1..Len(lookups) |-> [lookups[i] EXCEPT !.cancelled = TRUE]]
<1>1. DOMAIN lookups = 1..Len(lookups) /\ Len(lookups) \in Nat /\ \A i \in 1..Len(lookups) : lookups[i] \in Lookup
  BY DEF PastTypes
<1>2. s \in Seq(Lookup)
  <2>1. ASSUME NEW l \in Lookup PROVE [l EXCEPT !.cancelled = TRUE] \in Lookup
    BY DEF Lookup
  <2>2. \A i \in 1..Len(lookups) : [lookups[i] EXCEPT !.cancelled = TRUE] \in Lookup
    BY <1>1, <2>1
  <2> QED
    BY <1>1, <2>2
<1>3. [node |-> n, cancelled |-> FALSE] \in Lookup
  BY DEF Lookup
<1>4. lookups' = Append(s, [node |-> n, cancelled |-> FALSE])
  BY <1>1 DEF LoadHistory
<1> HIDE DEF s
<1> QED
  BY <1>2, <1>3, <1>4

\* The types hold at every step.
THEOREM TypeCorrect == Spec => []TypeOK
<1>1. ASSUME TypeOK, [Next]_vars PROVE TypeOK'
  <2> USE <1>1
  <2>1. TreeTypes /\ PastTypes
    BY TypesSplit
  <2>2. CASE Stir /\ Highlighted
    <3>1. TreeTypes'
      BY <2>1, <2>2, StirTypes
    <3>2. PastTypes'
      BY <2>1, <2>2, <3>1 DEF TreeTypes, PastTypes, Highlighted
    <3> QED
      BY <3>1, <3>2 DEF TreeTypes, PastTypes, TypeOK, Event, Fetch, Spinner, Action, Lookup, Glyph
  <2>3. CASE TimerFires
    <3>1. lookups' \in Seq(Lookup)
      BY <2>1, <2>3, LookupTypes DEF PastTypes, TimerFires
    <3> QED
      BY <2>1, <2>3, <3>1 DEF TypeOK, Lookup, TimerFires, view, walk, labels
  <2>4. CASE ShowFolderHistory
    <3>1. lookups' \in Seq(Lookup)
      BY <2>1, <2>4, LookupTypes DEF TreeTypes, ShowFolderHistory
    <3> QED
      BY <2>1, <2>4, <3>1 DEF TypeOK, Lookup, ShowFolderHistory, Move, view, walk, labels
  <2>5. ASSUME NEW i \in DOMAIN lookups, RenderHistory(i) PROVE TypeOK'
    <3>1. lookups' \in Seq(Lookup)
      BY <2>1, <2>5, Removed DEF PastTypes, RenderHistory
    <3>2. lookups[i].node \in Paths
      <4>1. lookups[i] \in Lookup
        BY <2>1 DEF PastTypes
      <4> QED
        BY <4>1 DEF Lookup
    <3> QED
      BY <2>5, <3>1, <3>2 DEF TypeOK, Lookup, RenderHistory, view, walk, labels
  <2>6. CASE UNCHANGED vars
    BY <2>6 DEF TypeOK, vars, view, walk, labels, past
  <2> QED
    BY <2>2, <2>3, <2>4, <2>5, <2>6 DEF Next, Stir, Look
<1> QED
  BY <1>1, Initially, PTL DEF Spec

-----------------------------------------------------------------------------
(* The history.  Only the newest query still counts.  When the newest highlight *)
(* has been served, a query that counts is for the node under the cursor, and    *)
(* when there is none the pane shows that node.                               *)

HistoryInv ==
  /\ \A i \in DOMAIN lookups : i < Len(lookups) => lookups[i].cancelled
  /\ timer # Root
  /\ cursor # Root =>
       timer = cursor \/
       (timer = Nothing /\
         IF \E i \in DOMAIN lookups : ~ lookups[i].cancelled
         THEN \A i \in DOMAIN lookups : ~ lookups[i].cancelled => lookups[i].node = cursor
         ELSE history = cursor)

\* A new query is the only one that counts.
LEMMA Superseded ==
  ASSUME PastTypes, NEW n \in Paths, LoadHistory(n)
  PROVE  /\ Len(lookups') = Len(lookups) + 1 /\ Len(lookups) \in Nat
         /\ DOMAIN lookups' = 1..(Len(lookups) + 1)
         /\ \A i \in 1..Len(lookups) : lookups'[i].cancelled
         /\ ~ lookups'[Len(lookups) + 1].cancelled /\ lookups'[Len(lookups) + 1].node = n
<1> DEFINE D(i) == [lookups[i] EXCEPT !.cancelled = TRUE]
           s == [i \in 1..Len(lookups) |-> D(i)]
           e == [node |-> n, cancelled |-> FALSE]
<1>1. DOMAIN lookups = 1..Len(lookups) /\ Len(lookups) \in Nat /\ \A i \in 1..Len(lookups) : lookups[i] \in Lookup
  BY DEF PastTypes
<1>2. \A i \in 1..Len(lookups) : D(i) \in Lookup /\ D(i).cancelled
  <2>1. ASSUME NEW l \in Lookup
        PROVE  [l EXCEPT !.cancelled = TRUE] \in Lookup /\ [l EXCEPT !.cancelled = TRUE].cancelled
    BY DEF Lookup
  <2> QED
    BY <1>1, <2>1
<1>3. e \in Lookup /\ e.node = n /\ ~ e.cancelled
  BY DEF Lookup
<1>4. lookups' = Append(s, e)
  BY <1>1 DEF LoadHistory
<1> HIDE DEF D, e
<1>5. s \in Seq(Lookup) /\ Len(s) = Len(lookups) /\ \A i \in 1..Len(lookups) : s[i] = D(i)
  BY <1>1, <1>2
<1> HIDE DEF s
<1>6. /\ Append(s, e) \in Seq(Lookup) /\ Len(Append(s, e)) = Len(s) + 1
      /\ \A i \in 1..Len(s) : Append(s, e)[i] = s[i]
      /\ Append(s, e)[Len(s) + 1] = e
  BY <1>3, <1>5, AppendProperties
<1> QED
  BY <1>1, <1>2, <1>3, <1>4, <1>5, <1>6

\* Each step keeps it: the cursor moves, a timer fires, an answer comes.
LEMMA HistoryNext ==
  ASSUME TypeOK, HistoryInv, [Next]_vars
  PROVE  HistoryInv'
<1>1. CASE Stir /\ Highlighted
  BY <1>1 DEF HistoryInv, Highlighted
<1>2. CASE TimerFires
  <2>1. timer \in Paths /\ timer' = Nothing /\ LoadHistory(timer) /\ UNCHANGED <<cursor, history>>
    BY <1>2 DEF TypeOK, TimerFires, view
  <2>2. PastTypes
    BY TypesSplit
  <2>3. /\ \A i \in DOMAIN lookups' : i < Len(lookups') => lookups'[i].cancelled
        /\ \E i \in DOMAIN lookups' : ~ lookups'[i].cancelled
        /\ \A i \in DOMAIN lookups' : ~ lookups'[i].cancelled => lookups'[i].node = timer
    BY <2>1, <2>2, Superseded
  <2>4. cursor # Root => timer = cursor
    BY <2>1 DEF HistoryInv
  <2> QED
    BY <2>1, <2>3, <2>4 DEF HistoryInv
<1>3. CASE ShowFolderHistory
  <2>1. cursor \in Paths /\ LoadHistory(cursor) /\ UNCHANGED <<cursor, history, timer>>
    BY <1>3 DEF TypeOK, ShowFolderHistory, view
  <2>2. PastTypes
    BY TypesSplit
  <2>3. /\ \A i \in DOMAIN lookups' : i < Len(lookups') => lookups'[i].cancelled
        /\ \E i \in DOMAIN lookups' : ~ lookups'[i].cancelled
        /\ \A i \in DOMAIN lookups' : ~ lookups'[i].cancelled => lookups'[i].node = cursor
    BY <2>1, <2>2, Superseded
  <2> QED
    BY <2>1, <2>3 DEF HistoryInv
<1>4. ASSUME NEW i \in DOMAIN lookups, RenderHistory(i)
      PROVE  HistoryInv'
  <2> DEFINE n == Len(lookups)
  <2>1. /\ lookups' = RemoveAt(lookups, i) /\ UNCHANGED <<cursor, timer>>
        /\ history' = IF lookups[i].cancelled THEN history ELSE lookups[i].node
    BY <1>4 DEF RenderHistory, view
  <2>2. /\ n \in Nat /\ i \in 1..n /\ DOMAIN lookups = 1..n /\ DOMAIN lookups' = 1..(n - 1) /\ Len(lookups') = n - 1
        /\ \A j \in 1..(n - 1) : lookups'[j] = IF j < i THEN lookups[j] ELSE lookups[j + 1]
    <3>1. lookups \in Seq(Lookup)
      BY TypesSplit DEF PastTypes
    <3>2. /\ RemoveAt(lookups, i) \in Seq(Lookup) /\ Len(RemoveAt(lookups, i)) = n - 1
          /\ \A j \in 1..(n - 1) : RemoveAt(lookups, i)[j] = IF j < i THEN lookups[j] ELSE lookups[j + 1]
      BY <3>1, Removed
    <3> QED
      BY <2>1, <3>1, <3>2
  <2> HIDE DEF n
  <2>3. \A j \in 1..n : j < n => lookups[j].cancelled
    BY <2>2 DEF HistoryInv, n
  <2>4. \A j \in 1..(n - 1) : j < n - 1 => lookups'[j].cancelled
    <3> SUFFICES ASSUME NEW j \in 1..(n - 1), j < n - 1 PROVE lookups'[j].cancelled
      OBVIOUS
    <3>1. j \in 1..n /\ j < n /\ j + 1 \in 1..n /\ j + 1 < n
      BY <2>2
    <3> QED
      BY <2>2, <2>3, <3>1
  <2>5. CASE lookups[i].cancelled
    <3>1. history' = history
      BY <2>1, <2>5
    <3>2. ASSUME NEW j \in 1..n, ~ lookups[j].cancelled
          PROVE  \E k \in 1..(n - 1) : lookups'[k] = lookups[j]
      <4>1. j # i /\ (j < i => j \in 1..(n - 1)) /\ (j > i => j - 1 \in 1..(n - 1) /\ ~ (j - 1 < i) /\ (j - 1) + 1 = j)
        BY <2>2, <2>5, <3>2
      <4>2. CASE j < i
        BY <2>2, <4>1, <4>2
      <4>3. CASE j > i
        <5>1. lookups'[j - 1] = lookups[(j - 1) + 1]
          BY <2>2, <4>1, <4>3
        <5> QED
          BY <4>1, <4>3, <5>1
      <4> QED
        BY <2>2, <4>1, <4>2, <4>3
    <3>3. ASSUME NEW k \in 1..(n - 1) PROVE \E j \in 1..n : lookups'[k] = lookups[j]
      <4>1. k \in 1..n /\ k + 1 \in 1..n
        BY <2>2
      <4> QED
        BY <2>2, <4>1
    <3>4. (\E j \in 1..n : ~ lookups[j].cancelled) <=> (\E k \in 1..(n - 1) : ~ lookups'[k].cancelled)
      BY <3>2, <3>3
    <3>5. (\A j \in 1..n : ~ lookups[j].cancelled => lookups[j].node = cursor)
          => (\A k \in 1..(n - 1) : ~ lookups'[k].cancelled => lookups'[k].node = cursor)
      BY <3>3
    <3> QED
      BY <2>1, <2>2, <2>4, <3>1, <3>4, <3>5, ZenonT(40) DEF HistoryInv
  <2>6. CASE ~ lookups[i].cancelled
    <3>1. i = n /\ history' = lookups[i].node
      BY <2>1, <2>2, <2>3, <2>6
    <3>2. \A k \in 1..(n - 1) : lookups'[k].cancelled
      BY <2>2, <2>3, <3>1
    <3>3. cursor # Root => timer = cursor \/ (timer = Nothing /\ lookups[i].node = cursor)
      BY <2>2, <2>6 DEF HistoryInv
    <3> QED
      BY <2>1, <2>2, <2>4, <3>1, <3>2, <3>3 DEF HistoryInv
  <2> QED
    BY <2>5, <2>6
<1>5. CASE UNCHANGED vars
  BY <1>5 DEF HistoryInv, vars, view, past
<1> QED
  BY <1>1, <1>2, <1>3, <1>4, <1>5 DEF Next, Stir, Look

\* When the cursor has rested and everything is answered, the history is that of the
\* node under it (P4VApp.on_tree_node_highlighted): no answer that comes late, and no
\* step that takes the node away, leaves the history of another one there.
THEOREM HistoryFollows == Spec => []HistoryFollowsCursor
<1>1. Init => HistoryInv
  BY DEF Init, HistoryInv
<1>2. TypeOK /\ HistoryInv /\ [Next]_vars => HistoryInv'
  BY HistoryNext
<1>3. TypeOK /\ HistoryInv => HistoryFollowsCursor
  BY DEF TypeOK, HistoryInv, HistoryFollowsCursor
<1> QED
  BY <1>1, <1>2, <1>3, TypeCorrect, PTL DEF Spec

-----------------------------------------------------------------------------
(* The nodes.  The cursor is on a node of the tree, a node hangs in its folder, *)
(* and what counts as still in the tree is.                                   *)

Placed == cursor \in Live(kids) /\ \A d \in Dirs : kids[d] \subseteq Under(d)
Alive(S, K) == \A s \in S : s.live => s.path \in Live(K)
AllAlive(f, K) ==
  \A i \in DOMAIN f : f[i].rows \subseteq Under(f[i].path) /\ (f[i].live => f[i].path \in Live(K))
TreeInv ==
  /\ Placed /\ Alive(events, kids) /\ Alive(spin, kids) /\ Alive(acting, kids)
  /\ AllAlive(fetches, kids)

\* Where K is the tree but for d and what is below it.
Outside(d, K) == \A e \in Dirs : d \notin Walk[e] => K[e] = kids[e]

\* A change below d moves nothing elsewhere.
LEMMA StaysLive ==
  ASSUME NEW d \in Dirs, NEW K, Outside(d, K), NEW p \in Paths \ Below(d)
  PROVE  p \in Live(K) <=> p \in Live(kids)
BY LiveOutside DEF Outside

\* What waited for a live node waits for one still, or knows that it is gone.
LEMMA LeftAlive ==
  ASSUME NEW d \in Dirs, NEW K, Outside(d, K), NEW S, Alive(S, kids),
         S \subseteq Event \/ S \subseteq Spinner \/ S \subseteq Action
  PROVE  Alive(Detached(S, d), K)
<1>1. \A s \in S : s.path \in Paths
  BY DEF Event, Spinner, Action
<1>2. ASSUME NEW x \in Detached(S, d), NEW s \in S, x.path = s.path,
             x.live <=> s.live /\ s.path \notin Below(d), x.live
      PROVE  x.path \in Live(K)
  BY <1>1, <1>2, StaysLive DEF Alive
<1> QED
  BY <1>2, EventsLeft, SpinnersLeft, ActionsLeft DEF Alive

LEMMA LeftAllAlive ==
  ASSUME NEW d \in Dirs, NEW K, Outside(d, K), NEW f \in Seq(Fetch), AllAlive(f, kids)
  PROVE  AllAlive(DetachedSeq(f, d), K)
<1>1. \A i \in DOMAIN f : f[i].path \in Paths
  <2>1. \A i \in DOMAIN f : f[i] \in Fetch
    OBVIOUS
  <2> QED
    BY <2>1 DEF Fetch
<1> QED
  <2> DEFINE g == DetachedSeq(f, d)
  <2>1. /\ DOMAIN g = DOMAIN f
        /\ \A i \in DOMAIN f : g[i].path = f[i].path /\ g[i].rows = f[i].rows
                               /\ (g[i].live <=> f[i].live /\ f[i].path \notin Below(d))
    BY DetachedFetches
  <2> HIDE DEF g
  <2>2. \A i \in DOMAIN g : g[i].rows \subseteq Under(g[i].path) /\ (g[i].live => g[i].path \in Live(K))
    BY <1>1, <2>1, StaysLive DEF AllAlive
  <2> QED
    BY <2>2 DEF AllAlive, g

\* A listing is asked for with what is known of its node.
LEMMA AskedAlive ==
  ASSUME NEW f \in Seq(Fetch), NEW K, AllAlive(f, K), NEW d \in Dirs, NEW l \in BOOLEAN,
         l => d \in Live(K)
  PROVE  AllAlive(Asked(f, d, l), K)
<1> DEFINE e == [path |-> d, live |-> l, rows |-> {}, read |-> FALSE]
<1>1. e \in Fetch /\ e.path = d /\ e.rows = {} /\ (e.live <=> l)
  BY DEF Fetch
<1>2. Asked(f, d, l) = Append(f, e)
  BY DEF Asked
<1> HIDE DEF e
<1>3. /\ Append(f, e) \in Seq(Fetch) /\ Len(Append(f, e)) = Len(f) + 1 /\ Len(f) \in Nat
      /\ \A i \in 1..Len(f) : Append(f, e)[i] = f[i]
      /\ Append(f, e)[Len(f) + 1] = e
  BY <1>1, AppendProperties
<1>4. ASSUME NEW i \in 1..(Len(f) + 1) PROVE i \in 1..Len(f) \/ i = Len(f) + 1
  BY <1>3
<1>5. DOMAIN Append(f, e) = 1..(Len(f) + 1) /\ DOMAIN f = 1..Len(f)
  BY <1>3
<1>6. ASSUME NEW i \in 1..(Len(f) + 1)
      PROVE  Append(f, e)[i].rows \subseteq Under(Append(f, e)[i].path)
             /\ (Append(f, e)[i].live => Append(f, e)[i].path \in Live(K))
  BY <1>1, <1>3, <1>4, <1>5 DEF AllAlive
<1> QED
  BY <1>2, <1>5, <1>6 DEF AllAlive

\* The invariant, action by action.
LEMMA RemoveTree ==
  ASSUME TreeTypes, TreeInv, NEW d \in Dirs, RemoveChildren(d)
  PROVE  /\ Outside(d, kids') /\ Placed' /\ Alive(spin', kids')
         /\ \A e \in Dirs : d \in Walk[e] => kids'[e] = {}
<1>1. Outside(d, kids') /\ \A e \in Dirs : d \in Walk[e] => kids'[e] = {}
  BY DEF Outside, RemoveChildren, Cleared
<1>2. cursor' \in Live(kids')
  BY <1>1, StaysLive, LiveRoot DEF TreeTypes, TreeInv, Placed, RemoveChildren
<1>3. \A e \in Dirs : kids'[e] \subseteq Under(e)
  BY <1>1 DEF TreeInv, Placed, Outside
<1>4. Alive(spin', kids')
  BY <1>1, LeftAlive DEF TreeTypes, TreeInv, RemoveChildren
<1> QED
  BY <1>1, <1>2, <1>3, <1>4 DEF Placed

LEMMA RefreshTree ==
  ASSUME TreeTypes, TreeInv, RefreshRoot, NEW A, A \subseteq acting, acting' = Detached(A, Root)
  PROVE  TreeInv'
<1>1. Outside(Root, kids') /\ Placed' /\ Alive(spin', kids')
  BY RemoveTree DEF RefreshRoot
<1>2. Alive(acting', kids')
  BY <1>1, LeftAlive DEF TreeTypes, TreeInv, Alive
<1>3. Alive(events', kids')
  <2>1. Alive(Detached(events, Root), kids')
    BY <1>1, LeftAlive DEF TreeTypes, TreeInv
  <2> QED
    BY <2>1, LiveRoot DEF RefreshRoot, Alive
<1>4. AllAlive(fetches', kids')
  BY <1>1, LeftAllAlive DEF TreeTypes, TreeInv, RefreshRoot
<1> QED
  BY <1>1, <1>2, <1>3, <1>4 DEF TreeInv

LEMMA ReloadTree ==
  ASSUME TreeTypes, TreeInv, NEW d \in Dirs, NEW l \in BOOLEAN, ReloadNode(d, l),
         l => d \in Live(kids), NEW A, A \subseteq acting,
         acting' = IF l THEN Detached(A, d) ELSE A
  PROVE  TreeInv'
<1>1. CASE l
  <2>1. Outside(d, kids') /\ Placed' /\ Alive(spin', kids')
    BY <1>1, RemoveTree DEF ReloadNode
  <2>2. Alive(acting', kids')
    BY <1>1, <2>1, LeftAlive DEF TreeTypes, TreeInv, Alive
  <2>3. Alive(events', kids')
    BY <1>1, <2>1, LeftAlive DEF TreeTypes, TreeInv, ReloadNode
  <2>4. AllAlive(fetches', kids')
    <3>1. AllAlive(DetachedSeq(fetches, d), kids') /\ DetachedSeq(fetches, d) \in Seq(Fetch)
      BY <2>1, LeftAllAlive, DetachedFetches DEF TreeTypes, TreeInv
    <3>2. d \in Live(kids')
      BY <1>1, <2>1, StaysLive, UnderBelow
    <3> QED
      BY <1>1, <3>1, <3>2, AskedAlive DEF ReloadNode
  <2> QED
    BY <2>1, <2>2, <2>3, <2>4 DEF TreeInv
<1>2. CASE ~ l
  <2>1. UNCHANGED <<kids, spin, cursor, events>> /\ fetches' = Asked(fetches, d, l) /\ acting' = A
    BY <1>2 DEF ReloadNode
  <2>2. AllAlive(fetches', kids')
    BY <1>2, <2>1, AskedAlive DEF TreeTypes, TreeInv
  <2> QED
    BY <2>1, <2>2 DEF TreeInv, Placed, Alive
<1> QED
  BY <1>1, <1>2

LEMMA StepTree ==
  ASSUME NEW K, NEW O, NEW E, NEW c \in Live(K), NEW L, NEW t \in Paths,
         NavigateStep(K, O, E, c, L, t), Alive(E, K)
  PROVE  kids' = K /\ cursor' \in Live(K) /\ Alive(events', K)
<1> DEFINE n == Deepest(K, t)
<1>1. n \in Live(K) /\ Visible(K, O) \subseteq Live(K)
  BY DeepestIs DEF Visible
<1> HIDE DEF n
<1>2. kids' = K /\ cursor' \in Live(K)
  BY <1>1 DEF NavigateStep, Lands, n
<1>3. events' = E \/ events' = E \cup {[path |-> n, live |-> TRUE]}
  BY DEF NavigateStep, n
<1> QED
  BY <1>1, <1>2, <1>3 DEF Alive

\* What an answer leaves, and what it brings.
LEMMA PopulateTree ==
  ASSUME TreeTypes, TreeInv, NEW i \in DOMAIN fetches, Populate(i)
  PROVE  TreeInv'
<1> DEFINE got == fetches[i]
           d == got.path
           K == IF got.live THEN [Cleared(d) EXCEPT ![d] = got.rows] ELSE kids
           again == got.rows \cap reopen \cap Dirs
           O == IF got.live THEN (open \ Below(d)) \cup again ELSE open
           W == IF got.live THEN Detached(events, d) ELSE events
           E == W \cup {[path |-> p, live |-> got.live] : p \in again}
           ended == {s \in spin : s.path = d /\ s.live = got.live}
           rest == RemoveAt(fetches, i)
           there == IF back \in got.rows THEN IF got.live THEN Lands(back, K, O) ELSE Visible(K, O)
                    ELSE {IF got.live /\ cursor \in Below(d) THEN Root ELSE cursor}
<1>1. got \in Fetch /\ d \in Dirs /\ got.live \in BOOLEAN /\ got.rows \subseteq Paths
  <2>1. got \in Fetch
    BY DEF TreeTypes
  <2> QED
    BY <2>1 DEF Fetch
<1>2. got.rows \subseteq Under(d) /\ (got.live => d \in Live(kids))
  BY DEF TreeInv, AllAlive
<1>3. Outside(d, K)
  <2>1. CASE got.live
    BY <1>1, <2>1, WalkFacts DEF TreeTypes, Outside, Cleared
  <2> QED
    BY <2>1 DEF Outside
<1>4. (got.live => d \in Live(K) /\ K[d] = got.rows) /\ \A e \in Dirs : K[e] \subseteq Under(e)
  <2>1. CASE got.live
    <3>1. K[d] = got.rows /\ \A e \in Dirs : e # d => K[e] = {} \/ K[e] = kids[e]
      BY <1>1, <2>1 DEF Cleared
    <3>2. d \in Live(K)
      BY <1>1, <1>2, <1>3, <2>1, StaysLive, UnderBelow
    <3> QED
      BY <1>2, <3>1, <3>2 DEF TreeInv, Placed
  <2> QED
    BY <2>1 DEF TreeInv, Placed
<1>5. there \subseteq Live(K)
  <2>1. Visible(K, O) \subseteq Live(K)
    BY DEF Visible
  <2>2. Lands(back, K, O) \subseteq Live(K)
    BY <2>1, ZenonT(40) DEF Lands
  <2>3. (IF got.live /\ cursor \in Below(d) THEN Root ELSE cursor) \in Live(K)
    <3>1. CASE got.live /\ cursor \in Below(d)
      BY <3>1, LiveRoot
    <3>2. CASE got.live /\ cursor \notin Below(d)
      BY <1>1, <1>3, <3>2, StaysLive DEF TreeTypes, TreeInv, Placed
    <3>3. CASE ~ got.live
      BY <3>3 DEF TreeInv, Placed
    <3> QED
      BY <3>1, <3>2, <3>3
  <2> QED
    BY <2>1, <2>2, <2>3, ZenonT(40)
<1>6. Alive(E, K)
  <2>1. Alive(W, K)
    BY <1>1, <1>3, LeftAlive DEF TreeTypes, TreeInv
  <2>2. ASSUME got.live, NEW p \in again PROVE p \in Live(K)
    BY <1>1, <1>2, <1>4, <2>2, LiveChild
  <2>3. \A p \in again : LET e == [path |-> p, live |-> got.live] IN e.live => e.path \in Live(K)
    BY <2>2
  <2> QED
    BY <2>1, <2>3 DEF Alive
<1>7. Alive(spin', K)
  <2>1. Alive(spin \ ended, kids) /\ spin \ ended \subseteq Spinner
    BY DEF TreeTypes, TreeInv, Alive
  <2>2. spin' = IF got.live THEN Detached(spin \ ended, d) ELSE spin \ ended
    BY DEF Populate
  <2> HIDE DEF ended
  <2>3. CASE got.live
    BY <1>1, <1>3, <2>1, <2>2, <2>3, LeftAlive
  <2>4. CASE ~ got.live
    BY <2>1, <2>2, <2>4
  <2> QED
    BY <2>3, <2>4
<1>8. Alive(acting', K)
  BY <1>1, <1>3, LeftAlive DEF TreeTypes, TreeInv, Populate
<1>9. AllAlive(fetches', K)
  <2>1. rest \in Seq(Fetch) /\ AllAlive(rest, kids)
    <3>1. /\ rest \in Seq(Fetch) /\ Len(rest) = Len(fetches) - 1
          /\ i \in 1..Len(fetches) /\ Len(fetches) \in Nat
          /\ \A j \in 1..(Len(fetches) - 1) : rest[j] = IF j < i THEN fetches[j] ELSE fetches[j + 1]
      BY Removed DEF TreeTypes
    <3>2. DOMAIN rest = 1..(Len(fetches) - 1)
      BY <3>1
    <3> HIDE DEF rest
    <3>3. ASSUME NEW j \in DOMAIN rest PROVE \E k \in DOMAIN fetches : rest[j] = fetches[k]
      <4>1. j \in 1..(Len(fetches) - 1) /\ DOMAIN fetches = 1..Len(fetches)
        BY <3>2 DEF TreeTypes
      <4>2. j \in 1..Len(fetches) /\ j + 1 \in 1..Len(fetches)
        BY <3>1, <4>1
      <4> QED
        BY <3>1, <4>1, <4>2
    <3> QED
      BY <3>1, <3>3 DEF TreeInv, AllAlive
  <2>2. fetches' = IF got.live THEN DetachedSeq(rest, d) ELSE rest
    BY DEF Populate
  <2> HIDE DEF rest
  <2>3. CASE got.live
    BY <1>1, <1>3, <2>1, <2>2, <2>3, LeftAllAlive
  <2>4. CASE ~ got.live
    BY <2>1, <2>2, <2>4
  <2> QED
    BY <2>3, <2>4
<1>10. PICK c \in there :
        IF target # Nothing /\ (target = d \/ NextSegment(d, target) # {})
        THEN NavigateStep(K, O, E, c, loaded, target)
        ELSE Stay(K, O, E, c)
  BY DEF Populate
<1>11. kids' = K /\ cursor' \in Live(K) /\ Alive(events', K)
  <2> HIDE DEF got, d, K, O, E, there
  <2>1. c \in Live(K) /\ target \in Paths \cup {Nothing}
    BY <1>5 DEF TreeTypes
  <2>2. CASE target # Nothing /\ NavigateStep(K, O, E, c, loaded, target)
    BY <1>6, <2>1, <2>2, StepTree
  <2>3. CASE Stay(K, O, E, c)
    BY <1>6, <2>1, <2>3 DEF Stay
  <2> QED
    BY <1>10, <2>2, <2>3
<1> HIDE DEF K
<1> QED
  BY <1>4, <1>7, <1>8, <1>9, <1>11 DEF TreeInv, Placed

\* Steps that leave the nodes alone.
LEMMA Unmoved ==
  ASSUME TreeInv, UNCHANGED <<kids, fetches, spin>>,
         cursor' \in Live(kids), Alive(events', kids), Alive(acting', kids)
  PROVE  TreeInv'
BY DEF TreeInv, Placed

LEMMA TreeNext == ASSUME TypeOK, TreeInv, [Next]_vars PROVE TreeInv'
<1> USE TypesSplit
<1>1. CASE Refresh
  BY <1>1, RefreshTree DEF Refresh
<1>2. CASE Reload
  BY <1>2, ReloadTree DEF TreeInv, Placed, Reload
<1>3. CASE NavigateToPath
  <2>1. PICK t \in Paths : NavigateStep(kids, open, events, cursor, loaded, t)
    BY <1>3 DEF NavigateToPath
  <2>2. kids' = kids /\ cursor' \in Live(kids) /\ Alive(events', kids)
    BY <2>1, StepTree DEF TreeInv, Placed
  <2> QED
    BY <1>3, <2>2, Unmoved DEF TreeInv, NavigateToPath, labels
<1>4. CASE MoveCursor
  BY <1>4, Unmoved DEF TreeInv, MoveCursor, Visible, labels
<1>5. ASSUME NEW S, S \subseteq Live(kids), Open(S) PROVE TreeInv'
  <2>1. UNCHANGED <<kids, fetches, spin, cursor, acting>>
        /\ events' = events \cup {[path |-> d, live |-> TRUE] : d \in S \ open}
    BY <1>5 DEF Open, labels
  <2>2. Alive(events', kids)
    BY <1>5, <2>1 DEF TreeInv, Alive
  <2> QED
    BY <2>1, <2>2, Unmoved DEF TreeInv, Placed
<1>6. CASE ExpandNode
  BY <1>5, <1>6 DEF ExpandNode, TreeInv, Placed
<1>7. CASE ApplyFilter
  <2>1. PICK p \in Live(kids) : Open(Walk[p] \ {p})
    BY <1>7 DEF ApplyFilter
  <2> QED
    BY <1>5, <2>1, LiveUp
<1>8. CASE CollapseNode \/ ToggleMark \/ DropMarks
  BY <1>8, Unmoved DEF TreeInv, Placed, CollapseNode, ToggleMark, DropMarks, ClearMarks, labels, view
<1>9. CASE RunFileAction
  <2>1. cursor # Root => Up[cursor] \in Live(kids)
    BY LiveUp, WalkFacts DEF TypeOK, TreeInv, Placed
  <2>2. Alive(acting', kids)
    BY <1>9, <2>1, LiveRoot DEF TreeInv, Alive, RunFileAction
  <2> QED
    BY <1>9, <2>2, Unmoved DEF TreeInv, Placed, RunFileAction, view
<1>10. CASE RunBulkAction
  <2>1. Alive(acting', kids)
    BY <1>10, LiveRoot DEF TreeInv, Alive, RunBulkAction
  <2> QED
    BY <1>10, <2>1, Unmoved DEF TreeInv, Placed, RunBulkAction, ClearMarks, view
<1>11. ASSUME NEW e \in events, Expanded(e) PROVE TreeInv'
  <2>1. e.path \in Dirs /\ e.live \in BOOLEAN /\ (e.live => e.path \in Live(kids))
    BY DEF TypeOK, TreeInv, Alive
  <2>2. UNCHANGED <<kids, cursor, acting>> /\ Alive(events', kids)
    BY <1>11 DEF TreeInv, Alive, Expanded, view, labels
  <2>3. Alive(spin', kids)
    BY <1>11, <2>1 DEF TreeInv, Alive, Expanded
  <2>4. AllAlive(fetches', kids)
    BY <1>11, <2>1, AskedAlive DEF TreeTypes, TreeInv, Expanded
  <2> QED
    BY <2>2, <2>3, <2>4 DEF TreeInv, Placed
<1>12. ASSUME NEW i \in DOMAIN fetches, FetchNodeData(i) PROVE TreeInv'
  <2>1. UNCHANGED <<kids, cursor, acting, spin, events>>
    BY <1>12 DEF FetchNodeData, view, labels
  <2>2. DOMAIN fetches' = DOMAIN fetches /\ \A j \in DOMAIN fetches : j # i => fetches'[j] = fetches[j]
    BY <1>12 DEF FetchNodeData
  <2>3. fetches'[i].path = fetches[i].path /\ (fetches'[i].live <=> fetches[i].live)
        /\ (fetches'[i].rows = fetches[i].rows \/ fetches'[i].rows = server \cap Under(fetches[i].path))
    <3>1. fetches[i] \in Fetch
      BY DEF TreeTypes
    <3> QED
      BY <1>12, <3>1 DEF FetchNodeData, Fetch
  <2>4. AllAlive(fetches', kids)
    BY <2>2, <2>3 DEF TreeInv, AllAlive
  <2> QED
    BY <2>1, <2>4 DEF TreeInv, Placed
<1>13. ASSUME NEW i \in DOMAIN fetches, Populate(i) PROVE TreeInv'
  BY <1>13, PopulateTree
<1>14. ASSUME NEW a \in acting, RefreshAfterAction(a) PROVE TreeInv'
  <2>1. a.path \in Dirs /\ a.live \in BOOLEAN /\ (a.live => a.path \in Live(kids)) /\ acting \ {a} \subseteq acting
    BY DEF TypeOK, TreeInv, Alive
  <2> QED
    BY <1>14, <2>1, RefreshTree, ReloadTree DEF RefreshAfterAction
<1>15. ASSUME NEW a \in acting, ActionFails(a) PROVE TreeInv'
  BY <1>15, Unmoved DEF TreeInv, Placed, Alive, ActionFails, view
<1>16. CASE ServerChanges
  BY <1>16, Unmoved DEF TreeInv, Placed, ServerChanges, view, labels
<1>17. CASE Look \/ ShowFolderHistory \/ UNCHANGED vars
  BY <1>17, Unmoved
     DEF TreeInv, Placed, Look, TimerFires, RenderHistory, ShowFolderHistory, vars, view, labels
<1> QED
  BY <1>1, <1>2, <1>3, <1>4, <1>6, <1>7, <1>8, <1>9, <1>10, <1>11, <1>12, <1>13, <1>14, <1>15,
     <1>16, <1>17 DEF Next, User, Load, Act

-----------------------------------------------------------------------------
(* The labels.                                                             *)

Both == Pending \o Mark
Plain == {<<>>, Mark}
Four == Plain \cup {Pending, Both}
Marked(l) == "mark" \in ToSet(l)
Busy(l) == "pending" \in ToSet(l)

\* There are four labels: with or without a mark, with or without an action.
LEMMA FourGlyphs ==
  /\ <<>> \in Seq(Glyph) /\ ToSet(<<>>) = {}
  /\ Mark \in Seq(Glyph) /\ Mark # <<>> /\ Mark[1] = "mark" /\ Tail(Mark) = <<>> /\ ToSet(Mark) = {"mark"}
  /\ Pending \in Seq(Glyph) /\ Pending # <<>> /\ Pending[1] = "pending" /\ Tail(Pending) = <<>>
  /\ ToSet(Pending) = {"pending"}
  /\ Both \in Seq(Glyph) /\ Both # <<>> /\ Both[1] = "pending" /\ Tail(Both) = Mark
  /\ ToSet(Both) = {"pending", "mark"}
<1>1. <<>> \in Seq(Glyph) /\ ToSet(<<>>) = {}
  BY DEF ToSet
<1>2. Mark \in Seq(Glyph) /\ Mark # <<>> /\ Mark[1] = "mark" /\ Tail(Mark) = <<>> /\ ToSet(Mark) = {"mark"}
  BY DEF ToSet, Mark, Glyph
<1>3. Pending \in Seq(Glyph) /\ Pending # <<>> /\ Pending[1] = "pending" /\ Tail(Pending) = <<>> /\ ToSet(Pending) = {"pending"}
  BY DEF ToSet, Pending, Glyph
<1>4. Both = <<"pending", "mark">>
  <2> DEFINE s == <<"pending", "mark">>
  <2>1. s \in Seq(Glyph) /\ Len(s) = 2 /\ s[1] = "pending" /\ s[2] = "mark"
    BY DEF Glyph
  <2>2. Len(Pending) = 1 /\ Len(Mark) = 1
    BY DEF Pending, Mark
  <2>3. /\ Both \in Seq(Glyph) /\ Len(Both) = Len(Pending) + Len(Mark)
        /\ \A i \in 1..(Len(Pending) + Len(Mark)) :
             Both[i] = IF i <= Len(Pending) THEN Pending[i] ELSE Mark[i - Len(Pending)]
    BY <1>2, <1>3, ConcatProperties DEF Both
  <2>4. Len(Both) = 2 /\ Both[1] = "pending" /\ Both[2] = "mark"
    BY <1>2, <1>3, <2>2, <2>3
  <2> HIDE DEF s
  <2>5. \A i \in 1..Len(Both) : Both[i] = s[i]
    <3>1. \A i \in 1..Len(Both) : i = 1 \/ i = 2
      BY <2>4
    <3> QED
      BY <2>1, <2>4, <3>1
  <2> QED
    BY <2>1, <2>3, <2>4, <2>5, SeqEqual, ZenonT(40) DEF s
<1>5. Both \in Seq(Glyph) /\ Both # <<>> /\ Both[1] = "pending" /\ Tail(Both) = Mark /\ ToSet(Both) = {"pending", "mark"}
  BY <1>4 DEF ToSet, Mark, Glyph
<1> QED
  BY <1>1, <1>2, <1>3, <1>5

\* What becomes of a label without an action.
LEMMA PlainLabels ==
  ASSUME NEW l \in Plain
  PROVE  /\ ~ Busy(l) /\ (Marked(l) <=> l = Mark) /\ <<>> \in Plain /\ Mark \in Plain /\ Mark # <<>>
         /\ With(Mark, l) = Mark /\ Without(Mark, l) = <<>>
<1>1. l \in Seq(Glyph) /\ "mark" \in Glyph
  BY FourGlyphs DEF Plain, Glyph
<1>2. IsPrefix(Mark, l) <=> l = Mark
  BY <1>1, FourGlyphs, Prefixed DEF Plain, Mark
<1>3. Mark \o <<>> = Mark
  BY FourGlyphs
<1> QED
  BY <1>2, <1>3, FourGlyphs DEF Plain, Busy, Marked, With, Without

\* What becomes of any of the four.
LEMMA FourLabels ==
  ASSUME NEW l \in Four
  PROVE  /\ l \in Seq(Glyph) /\ (Marked(l) <=> l \in {Mark, Both}) /\ (Busy(l) <=> l \in {Pending, Both})
         /\ (~ Busy(l) => l \in Plain)
         /\ With(Pending, l) \in Four /\ (Marked(With(Pending, l)) <=> Marked(l))
         /\ Without(Pending, l) \in Plain /\ (Marked(Without(Pending, l)) <=> Marked(l))
<1>1. l \in Seq(Glyph) /\ "pending" \in Glyph
  BY FourGlyphs, ZenonT(20) DEF Four, Plain, Glyph
<1>2. (Marked(l) <=> l \in {Mark, Both}) /\ (Busy(l) <=> l \in {Pending, Both}) /\ (~ Busy(l) => l \in Plain)
  BY FourGlyphs DEF Four, Plain, Marked, Busy
<1>3. IsPrefix(Pending, l) <=> l # <<>> /\ l[1] = "pending"
  BY <1>1, Prefixed DEF Pending
<1>4. IsPrefix(Pending, l) <=> l \in {Pending, Both}
  BY <1>3, FourGlyphs DEF Four, Plain
<1>5. Pending \o <<>> = Pending
  BY FourGlyphs
<1>6. With(Pending, l) \in Four /\ (Marked(With(Pending, l)) <=> Marked(l))
  BY <1>4, <1>5, FourGlyphs DEF With, Four, Plain, Marked, Both
<1>7. Without(Pending, l) \in Plain /\ (Marked(Without(Pending, l)) <=> Marked(l))
  BY <1>4, FourGlyphs DEF Without, Four, Plain, Marked
<1> QED
  BY <1>1, <1>2, <1>6, <1>7

\* The root has neither mark nor action, so its label is bare.
RootInv ==
  label[Root] = <<>> /\ Root \notin marked /\ \A s \in spin : s.path = Root => s.label = <<>>

\* Nothing can be taken from an empty label.
LEMMA Bare == Without(Mark, <<>>) = <<>> /\ Without(Pending, <<>>) = <<>>
<1>1. ~ IsPrefix(Mark, <<>>) /\ ~ IsPrefix(Pending, <<>>)
  BY FourGlyphs, Prefixed DEF Mark, Pending, Glyph
<1> QED
  BY <1>1 DEF Without

\* The root is never marked, and its label stays empty.
LEMMA RemoveRoot ==
  ASSUME TreeTypes, RootInv, NEW d \in Dirs, RemoveChildren(d), UNCHANGED marked
  PROVE  RootInv'
<1>1. label'[Root] = <<>>
  BY DEF TreeTypes, RootInv, RemoveChildren
<1>2. \A s \in spin' : s.path = Root => s.label = <<>>
  <2>1. spin \in SUBSET Spinner /\ spin' = Detached(spin, d)
    BY DEF TreeTypes, RemoveChildren
  <2>2. \A x \in Detached(spin, d) : \E s \in spin : x.path = s.path /\ x.label = s.label
    BY <2>1, SpinnersLeft
  <2> QED
    BY <2>1, <2>2 DEF RootInv
<1> QED
  BY <1>1, <1>2 DEF RootInv

LEMMA RootNext == ASSUME TypeOK, RootInv, [Next]_vars PROVE RootInv'
<1> USE TypesSplit
<1>1. CASE Refresh
  BY <1>1, RemoveRoot DEF Refresh, RefreshRoot
<1>2. ASSUME NEW d \in Dirs, NEW l, ReloadNode(d, l) PROVE RootInv'
  BY <1>2, RemoveRoot DEF RootInv, ReloadNode
<1>3. CASE Reload
  BY <1>2, <1>3 DEF Reload
<1>4. CASE NavigateToPath \/ MoveCursor \/ ExpandNode \/ ApplyFilter \/ CollapseNode \/ ServerChanges
  BY <1>4 DEF RootInv, NavigateToPath, MoveCursor, ExpandNode, ApplyFilter, Open, CollapseNode,
              ServerChanges, labels
<1>5. CASE ToggleMark
  BY <1>5 DEF TypeOK, RootInv, ToggleMark
<1>6. CASE RunFileAction
  BY <1>6 DEF TypeOK, RootInv, RunFileAction
<1>7. CASE RunBulkAction \/ DropMarks
  BY <1>7, Bare DEF RootInv, RunBulkAction, DropMarks, ClearMarks
<1>8. ASSUME NEW e \in events, Expanded(e) PROVE RootInv'
  BY <1>8 DEF RootInv, Expanded, labels
<1>9. ASSUME NEW i \in DOMAIN fetches, FetchNodeData(i) PROVE RootInv'
  BY <1>9 DEF RootInv, FetchNodeData, labels
<1>10. ASSUME NEW i \in DOMAIN fetches, Populate(i) PROVE RootInv'
  <2> DEFINE got == fetches[i]
             ended == {s \in spin : s.path = got.path /\ s.live = got.live}
  <2>1. got \in Fetch /\ got.path \in Dirs
    <3>1. got \in Fetch
      BY DEF TreeTypes
    <3> QED
      BY <3>1 DEF Fetch
  <2>2. label'[Root] = <<>>
    <3>1. Root \notin Below(got.path)
      BY <2>1, UnderBelow
    <3>2. (\E s \in spin : s.live /\ s.path = Root) =>
            (CHOOSE s \in spin : s.live /\ s.path = Root).label = <<>>
      BY DEF RootInv
    <3> QED
      BY <1>10, <3>1, <3>2 DEF RootInv, Populate, Relabelled
  <2>3. \A s \in spin' : s.path = Root => s.label = <<>>
    <3>1. spin' = IF got.live THEN Detached(spin \ ended, got.path) ELSE spin \ ended
      BY <1>10 DEF Populate
    <3>2. spin \ ended \in SUBSET Spinner /\ \A s \in spin \ ended : s.path = Root => s.label = <<>>
      BY DEF TreeTypes, RootInv
    <3> HIDE DEF got, ended
    <3> QED
      BY <2>1, <3>1, <3>2, SpinnersLeft
  <2> QED
    BY <1>10, <2>2, <2>3 DEF RootInv, Populate
<1>11. ASSUME NEW a \in acting, RefreshAfterAction(a) PROVE RootInv'
  BY <1>2, <1>11, RemoveRoot DEF TypeOK, RefreshAfterAction, RefreshRoot
<1>12. ASSUME NEW a \in acting, ActionFails(a) PROVE RootInv'
  <2>1. label'[Root] = <<>>
    BY <1>12, Bare DEF TypeOK, RootInv, ActionFails
  <2> QED
    BY <1>12, <2>1 DEF RootInv, ActionFails
<1>13. CASE Look \/ ShowFolderHistory \/ UNCHANGED vars
  BY <1>13 DEF RootInv, Look, TimerFires, RenderHistory, ShowFolderHistory, vars, labels
<1> QED
  BY <1>1, <1>3, <1>4, <1>5, <1>6, <1>7, <1>8, <1>9, <1>10, <1>11, <1>12, <1>13
     DEF Next, User, Load, Act

\* In a tidy tree a label has at most a mark below an action's glyph, a mark where the
\* node is marked, and the glyph only while the action on that file still knows the
\* folder it will list again; the label under a spinner is the one to put back.
Shaped == (\A p \in Paths : label[p] \in Four) /\ (\A d \in Dirs : label[d] \in Plain)
MarksShown == \A p \in Live(kids) : Marked(label[p]) <=> p \in marked
Kept == \A s \in spin : s.live => s.label \in Plain /\ (s.label = Mark <=> s.path \in marked)
ActsOn(a, p) == a.path = Up[p] /\ a.live /\ a.file = p
Backed ==
  \A p \in Paths : Busy(label[p]) => p \in Live(kids) /\ p # Root /\ \E a \in acting : ActsOn(a, p)
LabelInv == tidy => Shaped /\ MarksShown /\ Kept /\ Backed

\* The invariant, action by action.
LEMMA RefreshLabels ==
  ASSUME TypeOK, RootInv, RefreshRoot
  PROVE  (Shaped /\ MarksShown /\ Kept /\ Backed)'
<1>1. /\ kids' = Cleared(Root) /\ spin' = Detached(spin, Root) /\ marked' = marked
      /\ label' = [p \in Paths |-> IF p \in Below(Root) THEN <<>> ELSE label[p]]
  BY DEF RefreshRoot, RemoveChildren
<1>2. Below(Root) = Paths \ {Root}
  BY DEF Below
<1>3. \A p \in Paths : label'[p] = <<>>
  BY <1>1, <1>2 DEF RootInv
<1>4. \A l : l = <<>> => l \in Plain /\ l \in Four /\ ~ Marked(l) /\ ~ Busy(l)
  BY FourGlyphs DEF Plain, Four, Marked, Busy
<1>5. \A p \in Live(kids') : p = Root
  BY <1>1 DEF Live, Cleared
<1>6. Shaped' /\ MarksShown'
  BY <1>1, <1>3, <1>4, <1>5 DEF Shaped, MarksShown, RootInv
<1>7. Kept'
  <2>1. spin \in SUBSET Spinner /\ \A s \in spin : s.path \in Paths
    BY TypesSplit DEF TreeTypes, Spinner
  <2>2. \A x \in spin' : \E s \in spin : x.path = s.path /\ x.label = s.label
                                          /\ (x.live <=> s.live /\ s.path \notin Below(Root))
    BY <1>1, <2>1, SpinnersLeft
  <2>3. \A x \in spin' : x.live => x.path = Root /\ x.label = <<>>
    BY <1>2, <2>1, <2>2 DEF RootInv
  <2> QED
    BY <1>1, <1>4, <2>3, FourGlyphs DEF Kept, RootInv
<1>8. Backed'
  BY <1>3, <1>4 DEF Backed
<1> QED
  BY <1>6, <1>7, <1>8

\* The same labels outside d, the marks, the spinners and the actions that are left.
LEMMA LabelsOutside ==
  ASSUME TypeOK, NEW d \in Dirs, Outside(d, kids'), UNCHANGED marked,
         Shaped, MarksShown, Kept, Backed,
         NEW S \in SUBSET spin, spin' = Detached(S, d),
         NEW A \in SUBSET acting, acting' = Detached(A, d), \A a \in acting \ A : a.path = d,
         \A p \in Paths \ (Below(d) \cup {d}) : label'[p] = label[p],
         d \in Live(kids) => (Marked(label'[d]) <=> d \in marked), label'[d] \in Plain,
         \A p \in Below(d) : label'[p] \in Plain,
         \A p \in Below(d) \cap Live(kids') : Marked(label'[p]) <=> p \in marked,
         \A p \in Dirs \cap Below(d) : label'[p] \in Plain
  PROVE  (Shaped /\ MarksShown /\ Kept /\ Backed)'
<1>1. Shaped'
  BY DEF Shaped, Four
<1>2. MarksShown'
  <2>1. ASSUME NEW p \in Live(kids'), p \notin Below(d)
        PROVE  Marked(label'[p]) <=> p \in marked
    <3>1. p \in Live(kids) /\ p \in Paths
      BY <2>1, StaysLive DEF Live
    <3> QED
      BY <2>1, <3>1 DEF MarksShown
  <2> QED
    BY <2>1 DEF MarksShown
<1>3. Kept'
  <2>1. S \in SUBSET Spinner
    BY TypesSplit DEF TreeTypes
  <2>2. \A x \in spin' : \E s \in S : x.path = s.path /\ x.label = s.label /\ (x.live => s.live)
    BY <2>1, SpinnersLeft
  <2> QED
    BY <2>2 DEF Kept
<1>4. Backed'
  <2> SUFFICES ASSUME NEW p \in Paths, Busy(label'[p])
               PROVE  p \in Live(kids') /\ p # Root /\ \E a \in acting' : ActsOn(a, p)
    BY DEF Backed, ActsOn
  <2>1. p \notin Below(d) /\ p # d
    BY PlainLabels
  <2>2. p \in Live(kids) /\ p # Root /\ Busy(label[p])
    BY <2>1 DEF Backed
  <2>3. PICK a \in acting : ActsOn(a, p)
    BY <2>2 DEF Backed
  <2>4. Up[p] # d /\ Up[p] \notin Below(d)
    <3>1. Up[p] = d => p \in Under(d)
      BY <2>2 DEF Under
    <3>2. Up[p] \in Below(d) => p \in Below(d)
      BY <2>2, WalkFacts DEF Below
    <3> QED
      BY <2>1, <3>1, <3>2, UnderBelow
  <2>5. a \in A
    BY <2>3, <2>4 DEF ActsOn
  <2>6. A \in SUBSET Action
    BY TypesSplit DEF TreeTypes
  <2>7. \E x \in acting' : x.path = a.path /\ x.file = a.file /\ (x.live <=> a.live /\ a.path \notin Below(d))
    BY <2>5, <2>6, ActionsLeft
  <2>8. \E x \in acting' : ActsOn(x, p)
    BY <2>3, <2>4, <2>7 DEF ActsOn
  <2> QED
    BY <2>1, <2>2, <2>8, StaysLive
<1> QED
  BY <1>1, <1>2, <1>3, <1>4

LEMMA ReloadLabels ==
  ASSUME TypeOK, TreeInv, Shaped, MarksShown, Kept, Backed, NEW d \in Dirs, ReloadNode(d, TRUE),
         NEW A \in SUBSET acting, acting' = Detached(A, d), \A a \in acting \ A : a.path = d
  PROVE  (Shaped /\ MarksShown /\ Kept /\ Backed)'
<1>1. /\ RemoveChildren(d) /\ UNCHANGED marked
  BY DEF ReloadNode
<1>2. Outside(d, kids') /\ (\A e \in Dirs : d \in Walk[e] => kids'[e] = {})
  BY <1>1, RemoveTree, TypesSplit
<1>3. spin' = Detached(spin, d) /\ label' = [p \in Paths |-> IF p \in Below(d) THEN <<>> ELSE label[p]]
  BY <1>1 DEF RemoveChildren
<1>4. \A p \in Paths \ (Below(d) \cup {d}) : label'[p] = label[p]
  BY <1>3
<1>5. label'[d] = label[d] /\ label'[d] \in Plain /\ (d \in Live(kids) => (Marked(label'[d]) <=> d \in marked))
  BY <1>3, UnderBelow DEF Shaped, MarksShown
<1>6. \A p \in Below(d) : label'[p] = <<>> /\ label'[p] \in Plain
  BY <1>3 DEF Plain, Below
<1>7. Below(d) \cap Live(kids') = {}
  <2>1. ASSUME NEW p \in Below(d) \cap Live(kids') PROVE FALSE
    <3>1. Up[p] = d /\ p \in kids'[d]
      BY <1>2, LiveBelow
    <3>2. kids'[d] = {}
      BY <1>2, WalkFacts
    <3> QED
      BY <3>1, <3>2
  <2> QED
    BY <2>1
<1> QED
  BY <1>1, <1>2, <1>3, <1>4, <1>5, <1>6, <1>7, LabelsOutside

LEMMA PopulateLabels ==
  ASSUME TypeOK, TreeInv, Shaped, MarksShown, Kept, Backed, NEW i \in DOMAIN fetches, Populate(i)
  PROVE  (Shaped /\ MarksShown /\ Kept /\ Backed)'
<1> DEFINE got == fetches[i]
           d == got.path
           K == [Cleared(d) EXCEPT ![d] = got.rows]
           ended == {s \in spin : s.path = d /\ s.live = got.live}
<1>1. got \in Fetch /\ d \in Dirs /\ got.live \in BOOLEAN
  <2>1. got \in Fetch
    BY TypesSplit DEF TreeTypes
  <2> QED
    BY <2>1 DEF Fetch
<1>2. kids' = IF got.live THEN K ELSE kids
  <2>1. \E c : kids' = IF got.live THEN K ELSE kids
    BY DEF Populate, NavigateStep, Stay
  <2> QED
    BY <2>1
<1>3. marked' = marked
  BY DEF Populate
<1>4. CASE ~ got.live
  <2>1. kids' = kids /\ spin' = spin \ ended /\ acting' = acting
    BY <1>2, <1>4 DEF Populate
  <2>2. \A p \in Paths : label'[p] = label[p]
    BY <1>4 DEF Populate, Relabelled
  <2> HIDE DEF ended
  <2> QED
    BY <1>3, <2>1, <2>2 DEF Shaped, MarksShown, Kept, Backed, Live
<1>5. CASE got.live
  <2>1. kids' = K /\ spin' = Detached(spin \ ended, d) /\ acting' = Detached(acting, d)
    BY <1>2, <1>5 DEF Populate
  <2>2. Outside(d, kids') /\ (\A e \in Dirs : e # d /\ d \in Walk[e] => kids'[e] = {}) /\ kids'[d] = got.rows
        /\ d \in Live(kids)
    BY <1>1, <1>5, <2>1, WalkFacts, SMTT(20) DEF TypeOK, Outside, Cleared, TreeInv, AllAlive
  <2>3. \A p \in Paths : label'[p] =
          IF p \in Below(d) THEN IF p \in marked \cap got.rows THEN Mark ELSE <<>>
          ELSE IF \E s \in spin : s.live /\ p = d /\ p = s.path
               THEN (CHOOSE s \in spin : s.live /\ s.path = p).label
               ELSE label[p]
    <3>1. label' = Relabelled(got, K)
      BY <1>5 DEF Populate
    <3>2. K[d] = got.rows
      BY <1>1 DEF Cleared
    <3> HIDE DEF K, got
    <3> QED
      BY <1>5, <3>1, <3>2 DEF Relabelled
  <2>4. \A p \in Paths \ (Below(d) \cup {d}) : label'[p] = label[p]
    BY <2>3
  <2>5. label'[d] \in Plain /\ (Marked(label'[d]) <=> d \in marked)
    <3>1. d \in Paths /\ d \notin Below(d)
      BY <1>1, UnderBelow
    <3>2. CASE \E s \in spin : s.live /\ s.path = d
      <4>1. label'[d] = (CHOOSE s \in spin : s.live /\ s.path = d).label
        BY <2>3, <3>1, <3>2
      <4>2. PICK s \in spin : s.live /\ s.path = d /\ label'[d] = s.label
        BY <3>2, <4>1
      <4> QED
        BY <4>2, PlainLabels DEF Kept
    <3>3. CASE ~ \E s \in spin : s.live /\ s.path = d
      <4>1. label'[d] = label[d]
        BY <2>3, <3>1, <3>3
      <4> QED
        BY <1>1, <2>2, <4>1 DEF Shaped, MarksShown
    <3> QED
      BY <3>2, <3>3
  <2>6. \A p \in Below(d) : label'[p] \in Plain /\ (Marked(label'[p]) <=> p \in marked \cap got.rows)
    <3>1. \A p \in Below(d) : label'[p] = IF p \in marked \cap got.rows THEN Mark ELSE <<>>
      BY <2>3 DEF Below
    <3>2. Mark \in Plain /\ <<>> \in Plain /\ Marked(Mark) /\ ~ Marked(<<>>)
      BY FourGlyphs DEF Plain, Marked
    <3> QED
      BY <3>1, <3>2
  <2>7. \A p \in Below(d) \cap Live(kids') : Marked(label'[p]) <=> p \in marked
    <3>1. \A p \in Below(d) \cap Live(kids') : p \in got.rows
      BY <1>1, <2>2, LiveBelow
    <3> QED
      BY <2>6, <3>1
  <2> DEFINE S == spin \ ended
  <2>8. S \in SUBSET spin /\ spin' = Detached(S, d)
    BY <2>1
  <2> HIDE DEF got, d, K, S
  <2> QED
    BY <1>1, <1>3, <2>1, <2>2, <2>4, <2>5, <2>6, <2>7, <2>8, LabelsOutside
<1> QED
  BY <1>1, <1>4, <1>5

LEMMA LabelNext == ASSUME TypeOK, TreeInv, RootInv, LabelInv, [Next]_vars PROVE LabelInv'
<1> SUFFICES ASSUME tidy' PROVE (Shaped /\ MarksShown /\ Kept /\ Backed)'
  BY DEF LabelInv
<1>1. CASE Refresh
  BY <1>1, RefreshLabels DEF Refresh
<1>2. ASSUME tidy, UNCHANGED <<kids, spin, labels>>
      PROVE  (Shaped /\ MarksShown /\ Kept /\ Backed)'
  BY <1>2 DEF LabelInv, Shaped, MarksShown, Kept, Backed, Live, labels
<1>3. CASE Reload
  <2>1. cursor \in Dirs /\ ReloadNode(cursor, TRUE) /\ acting' = Detached(acting, cursor) /\ tidy
    BY <1>3 DEF Reload, ReloadNode
  <2> QED
    BY <2>1, ReloadLabels DEF LabelInv
<1>4. CASE NavigateToPath
  <2>1. kids' = kids
    BY <1>4 DEF NavigateToPath, NavigateStep
  <2> QED
    BY <1>2, <1>4, <2>1 DEF NavigateToPath
<1>5. CASE MoveCursor \/ ExpandNode \/ ApplyFilter \/ CollapseNode \/ ServerChanges
  BY <1>2, <1>5 DEF MoveCursor, ExpandNode, ApplyFilter, Open, CollapseNode, ServerChanges, view
<1>6. CASE ToggleMark
  <2>1. /\ tidy /\ ~ Spinning(cursor) /\ ~ Busy(label[cursor]) /\ UNCHANGED <<kids, spin, acting>>
        /\ cursor \in Paths /\ cursor # Root
    BY <1>6, FourGlyphs DEF TypeOK, ToggleMark, Busy, view
  <2>2. Shaped /\ MarksShown /\ Kept /\ Backed
    BY <2>1 DEF LabelInv
  <2>3. label[cursor] \in Plain
    BY <2>1, <2>2, FourLabels DEF Shaped
  <2>4. /\ \A p \in Paths : p # cursor => label'[p] = label[p] /\ (p \in marked' <=> p \in marked)
        /\ label'[cursor] \in Plain /\ (Marked(label'[cursor]) <=> cursor \in marked')
    <3>1. label \in [Paths -> Seq(Glyph)]
      BY TypesSplit DEF TreeTypes
    <3>2. CASE cursor \in marked
      <4>1. marked' = marked \ {cursor} /\ label' = [label EXCEPT ![cursor] = Without(Mark, label[cursor])]
        BY <1>6, <3>2 DEF ToggleMark
      <4>2. label'[cursor] = <<>> /\ \A p \in Paths : p # cursor => label'[p] = label[p]
        BY <2>1, <2>3, <3>1, <4>1, PlainLabels
      <4> QED
        BY <2>3, <4>1, <4>2, PlainLabels
    <3>3. CASE cursor \notin marked
      <4>1. marked' = marked \cup {cursor} /\ label' = [label EXCEPT ![cursor] = With(Mark, label[cursor])]
        BY <1>6, <3>3 DEF ToggleMark
      <4>2. label'[cursor] = Mark /\ \A p \in Paths : p # cursor => label'[p] = label[p]
        BY <2>1, <2>3, <3>1, <4>1, PlainLabels
      <4> QED
        BY <2>3, <4>1, <4>2, PlainLabels
    <3> QED
      BY <3>2, <3>3
  <2>5. Shaped'
    BY <2>2, <2>4 DEF Shaped, Four
  <2>6. MarksShown'
    BY <2>1, <2>2, <2>4 DEF MarksShown, Live
  <2>7. Kept'
    <3>1. \A s \in spin : s.live => s.path \in Paths /\ s.path # cursor
      BY <2>1, TypesSplit DEF Spinning, TreeTypes, Spinner
    <3> QED
      BY <2>1, <2>2, <2>4, <3>1 DEF Kept
  <2>8. Backed'
    BY <2>1, <2>2, <2>4, PlainLabels DEF Backed, Live
  <2> QED
    BY <2>5, <2>6, <2>7, <2>8
<1>7. ASSUME ClearMarks PROVE (Shaped /\ MarksShown /\ Kept /\ Backed)'
  <2>1. /\ tidy /\ spin = {} /\ marked' = {} /\ UNCHANGED <<kids, spin>>
        /\ \A p \in Paths : ~ Busy(label[p]) /\ label'[p] = Without(Mark, label[p])
    <3>1. tidy /\ spin = {} /\ \A p \in Paths : Pending[1] \notin ToSet(label[p])
      BY <1>7 DEF ClearMarks
    <3>2. marked' = {} /\ UNCHANGED <<kids, spin>> /\ label' = [p \in Paths |-> Without(Mark, label[p])]
      BY <1>7 DEF ClearMarks, view
    <3> QED
      BY <3>1, <3>2, FourGlyphs DEF Busy
  <2>2. \A p \in Paths : label'[p] = <<>>
    BY <2>1, FourLabels, PlainLabels DEF LabelInv, Shaped
  <2>3. <<>> \in Plain /\ <<>> \in Four /\ ~ Marked(<<>>) /\ ~ Busy(<<>>)
    BY FourGlyphs DEF Plain, Four, Marked, Busy
  <2> QED
    BY <2>1, <2>2, <2>3 DEF Shaped, MarksShown, Kept, Backed, Live
<1>8. CASE RunBulkAction \/ DropMarks
  BY <1>7, <1>8 DEF RunBulkAction, DropMarks
<1>9. CASE RunFileAction
  <2>1. /\ tidy /\ UNCHANGED <<kids, spin, marked>> /\ cursor \in Live(kids) /\ cursor \in Paths
        /\ acting \subseteq acting'
    BY <1>9 DEF TypeOK, TreeInv, Placed, RunFileAction, view
  <2>2. Shaped /\ MarksShown /\ Kept /\ Backed
    BY <2>1 DEF LabelInv
  <2>3. CASE cursor \in Dirs
    <3>1. label' = label
      BY <1>9, <2>3 DEF RunFileAction
    <3> QED
      BY <2>1, <2>2, <3>1 DEF Shaped, MarksShown, Kept, Backed, Live
  <2>4. CASE cursor \notin Dirs
    <3>1. /\ label'[cursor] = With(Pending, label[cursor]) /\ \A p \in Paths : p # cursor => label'[p] = label[p]
          /\ cursor # Root /\ \E a \in acting' : ActsOn(a, cursor)
      <4>1. cursor # Root /\ label' = [label EXCEPT ![cursor] = With(Pending, @)]
            /\ [path |-> Up[cursor], live |-> TRUE, file |-> cursor] \in acting'
        BY <1>9, <2>4 DEF RunFileAction
      <4>2. label \in [Paths -> Seq(Glyph)]
        BY TypesSplit DEF TreeTypes
      <4> QED
        BY <2>1, <4>1, <4>2, ZenonT(20) DEF ActsOn
    <3>2. label'[cursor] \in Four /\ (Marked(label'[cursor]) <=> Marked(label[cursor]))
      BY <2>1, <2>2, <3>1, FourLabels DEF Shaped
    <3>3. Shaped'
      BY <2>2, <2>4, <3>1, <3>2 DEF Shaped
    <3>4. MarksShown' /\ Kept'
      BY <2>1, <2>2, <3>1, <3>2 DEF MarksShown, Kept, Live
    <3>5. Backed'
      BY <2>1, <2>2, <3>1 DEF Backed, Live
    <3> QED
      BY <3>3, <3>4, <3>5
  <2> QED
    BY <2>3, <2>4
<1>10. ASSUME NEW e \in events, Expanded(e) PROVE (Shaped /\ MarksShown /\ Kept /\ Backed)'
  <2>1. tidy /\ UNCHANGED <<kids, labels>> /\ e.path \in Dirs /\ (e.live => e.path \in Live(kids))
    BY <1>10 DEF TypeOK, TreeInv, Alive, Expanded, view
  <2>2. Shaped /\ MarksShown /\ Kept /\ Backed
    BY <2>1 DEF LabelInv
  <2>3. spin' \subseteq spin \cup {[path |-> e.path, live |-> e.live, label |-> label[e.path]]}
    BY <1>10 DEF Expanded
  <2>4. label[e.path] \in Plain /\ (e.live => (label[e.path] = Mark <=> e.path \in marked))
    BY <2>1, <2>2, PlainLabels DEF Shaped, MarksShown
  <2>5. Kept'
    BY <2>1, <2>2, <2>3, <2>4 DEF Kept, labels
  <2> QED
    BY <2>1, <2>2, <2>5 DEF Shaped, MarksShown, Backed, Live, labels
<1>11. ASSUME NEW i \in DOMAIN fetches, FetchNodeData(i) PROVE (Shaped /\ MarksShown /\ Kept /\ Backed)'
  BY <1>2, <1>11 DEF FetchNodeData, view
<1>12. ASSUME NEW i \in DOMAIN fetches, Populate(i) PROVE (Shaped /\ MarksShown /\ Kept /\ Backed)'
  BY <1>12, PopulateLabels DEF Populate, LabelInv
<1>13. ASSUME NEW a \in acting, RefreshAfterAction(a) PROVE (Shaped /\ MarksShown /\ Kept /\ Backed)'
  <2>1. CASE a.file = Nothing
    BY <1>13, <2>1, RefreshLabels DEF RefreshAfterAction
  <2>2. CASE a.file # Nothing
    <3>1. ReloadNode(a.path, a.live) /\ a.path \in Dirs /\ a.live \in BOOLEAN
      BY <1>13, <2>2 DEF TypeOK, RefreshAfterAction
    <3>2. tidy /\ a.live
      BY <3>1 DEF ReloadNode
    <3>3. ReloadNode(a.path, TRUE) /\ acting' = Detached(acting \ {a}, a.path)
      <4>1. a.live = TRUE
        BY <3>1, <3>2
      <4> QED
        BY <1>13, <2>2, <3>1, <4>1 DEF RefreshAfterAction
    <3> DEFINE A == acting \ {a}
    <3>4. A \in SUBSET acting /\ acting' = Detached(A, a.path) /\ \A b \in acting \ A : b.path = a.path
      BY <3>3
    <3> HIDE DEF A
    <3> QED
      BY <3>1, <3>2, <3>3, <3>4, ReloadLabels DEF LabelInv
  <2> QED
    BY <2>1, <2>2
<1>14. ASSUME NEW a \in acting, ActionFails(a) PROVE (Shaped /\ MarksShown /\ Kept /\ Backed)'
  <2>1. tidy /\ UNCHANGED <<kids, spin, marked>> /\ acting' = acting \ {a}
        /\ a.file \in Paths /\ a.live \in BOOLEAN /\ label \in [Paths -> Seq(Glyph)]
    <3>1. a \in Action /\ label \in [Paths -> Seq(Glyph)]
      BY TypesSplit DEF TreeTypes
    <3> QED
      BY <1>14, <3>1 DEF Action, ActionFails, view
  <2>2. Shaped /\ MarksShown /\ Kept /\ Backed
    BY <2>1 DEF LabelInv
  <2>3. \A p \in Paths : p # a.file => label'[p] = label[p]
    BY <1>14, <2>1 DEF ActionFails
  <2>4. CASE a.live /\ a.file \in Live(kids)
    <3>1. label'[a.file] = Without(Pending, label[a.file])
      BY <1>14, <2>1, <2>4 DEF ActionFails
    <3>2. label'[a.file] \in Plain /\ (Marked(label'[a.file]) <=> Marked(label[a.file]))
      BY <2>1, <2>2, <3>1, FourLabels DEF Shaped
    <3>3. Shaped'
      BY <2>2, <2>3, <3>2 DEF Shaped, Four
    <3>4. MarksShown' /\ Kept'
      BY <2>1, <2>2, <2>3, <3>2 DEF MarksShown, Kept, Live
    <3>5. Backed'
      <4> SUFFICES ASSUME NEW p \in Paths, Busy(label'[p])
                   PROVE  p \in Live(kids') /\ p # Root /\ \E w \in acting' : ActsOn(w, p)
        BY DEF Backed, ActsOn
      <4>1. p # a.file
        BY <3>2, PlainLabels
      <4>2. PICK w \in acting : ActsOn(w, p)
        BY <2>2, <2>3, <4>1 DEF Backed
      <4>3. w \in acting'
        BY <2>1, <4>1, <4>2 DEF ActsOn
      <4> QED
        BY <2>1, <2>2, <2>3, <4>1, <4>2, <4>3 DEF Backed, Live
    <3> QED
      BY <3>3, <3>4, <3>5
  <2>5. CASE ~ (a.live /\ a.file \in Live(kids))
    <3>1. label' = label
      BY <1>14, <2>5 DEF ActionFails
    <3>2. Backed'
      <4> SUFFICES ASSUME NEW p \in Paths, Busy(label[p])
                   PROVE  p \in Live(kids) /\ p # Root /\ \E w \in acting' : ActsOn(w, p)
        BY <2>1, <3>1 DEF Backed, ActsOn, Live
      <4>1. p \in Live(kids) /\ p # Root
        BY <2>2 DEF Backed
      <4>2. PICK w \in acting : ActsOn(w, p)
        BY <2>2 DEF Backed
      <4>3. w # a
        BY <2>5, <4>1, <4>2 DEF ActsOn
      <4> QED
        BY <2>1, <4>1, <4>2, <4>3
    <3> QED
      BY <2>1, <2>2, <3>1, <3>2 DEF Shaped, MarksShown, Kept, Live
  <2> QED
    BY <2>4, <2>5
<1>15. CASE Look \/ ShowFolderHistory \/ UNCHANGED vars
  BY <1>2, <1>15 DEF Look, TimerFires, RenderHistory, ShowFolderHistory, vars, view
<1> QED
  BY <1>1, <1>3, <1>4, <1>5, <1>6, <1>8, <1>9, <1>10, <1>11, <1>12, <1>13, <1>14, <1>15
     DEF Next, User, Load, Act

LEMMA TreeCorrect == Spec => []TreeInv
<1>1. Init => TreeInv
  BY LiveRoot DEF Init, TreeInv, Placed, Alive, AllAlive
<1>2. TypeOK /\ TreeInv /\ [Next]_vars => TreeInv'
  BY TreeNext
<1> QED
  BY <1>1, <1>2, TypeCorrect, PTL DEF Spec

\* A label shows the mark when its node is marked, through every reload, and says that
\* an action is under way only while one is (P4Tree._decorate, P4Tree._populate,
\* P4VApp._run_file_action).
THEOREM LabelsTrue == Spec => []LabelsAreTrue
<1>1. Init => RootInv /\ LabelInv
  <2>1. <<>> \in Plain /\ <<>> \in Four /\ ~ Marked(<<>>) /\ ~ Busy(<<>>)
    BY FourGlyphs DEF Plain, Four, Marked, Busy
  <2> QED
    BY <2>1 DEF Init, RootInv, LabelInv, Shaped, MarksShown, Kept, Backed, Live
<1>2. TypeOK /\ TreeInv /\ RootInv /\ LabelInv /\ [Next]_vars => RootInv' /\ LabelInv'
  BY RootNext, LabelNext
<1>3. LabelInv => LabelsAreTrue
  BY DEF LabelInv, LabelsAreTrue, MarksShown, Backed, ActsOn, Marked, Busy
<1> QED
  BY <1>1, <1>2, <1>3, TypeCorrect, TreeCorrect, PTL DEF Spec

-----------------------------------------------------------------------------
(* The loading.  In a tidy tree a folder that has children was asked for and     *)
(* answered; one that is open was asked for or is about to be; there is one       *)
(* listing of a folder at a time, and its node is still there; what is still to   *)
(* be opened is not in the tree; and a walk waits for a folder on its way.        *)

Grown(d) == kids[d] # {} => d \in loaded /\ \A i \in DOMAIN fetches : fetches[i].path # d
Loaded == loaded \subseteq Live(kids) /\ \A d \in Dirs : Grown(d)
Fresh == \A e \in events : e.live
Asking ==
  \A i \in DOMAIN fetches :
    /\ fetches[i].live /\ fetches[i].path \in loaded
    /\ \A j \in DOMAIN fetches : fetches[i].path = fetches[j].path => i = j
Opened(O, K, E) == \A d \in O \cap Live(K) : d \in loaded \/ \E e \in E : e.path = d
Waiting == reopen \cap Live(kids) = {}
Due(d) ==
  (d \notin loaded /\ \E e \in events : e.path = d) \/ \E i \in DOMAIN fetches : fetches[i].path = d
Walking == target # Nothing => \E d \in Walk[target] \cap Dirs : Due(d)

LoadInv ==
  tidy => Loaded /\ Fresh /\ Asking /\ Opened(open, kids, events) /\ Waiting /\ Walking

\* Of two paths on a way one is on the way to the other.
LEMMA OneWay ==
  ASSUME NEW t \in Paths, NEW p \in Walk[t], NEW q \in Walk[t]
  PROVE  p \in Walk[q] \/ q \in Walk[p]
<1> DEFINE T == {x \in Walk[t] : p \in Walk[x] /\ q \in Walk[x]}
<1>1. t \in T /\ T \in SUBSET Paths
  BY WalkFacts
<1>2. PICK x \in T : \A y \in T : ~ (Walk[y] \subseteq Walk[x] /\ Walk[y] # Walk[x])
  BY <1>1, Topmost, ZenonT(40)
<1>3. ASSUME x # p, x # q PROVE FALSE
  <2>1. x \in Paths \ {Root}
    BY <1>1, <1>3
  <2>2. Up[x] \in Walk[x] /\ p \in Walk[Up[x]] /\ q \in Walk[Up[x]] /\ Walk[Up[x]] \subseteq Walk[x]
        /\ x \in Walk[x] /\ x \notin Walk[Up[x]]
    BY <1>3, <2>1, WalkFacts
  <2>3. Up[x] \in T
    BY <2>1, <2>2
  <2> QED
    BY <1>2, <2>2, <2>3
<1> QED
  BY <1>3

\* Nothing is in the tree below a folder without children.
LEMMA NothingBelow ==
  ASSUME NEW d \in Dirs, NEW K, K[d] = {}
  PROVE  Live(K) \cap Below(d) = {}
<1>1. ASSUME NEW p \in Live(K) \cap Below(d) PROVE FALSE
  <2>1. p \in Paths /\ d \in Walk[p] /\ d # p
    BY <1>1 DEF Below
  <2>2. PICK q \in NextSegment(d, p) : TRUE
    BY <2>1, OnTheWay
  <2>3. q \in K[d]
    BY <1>1, <2>2 DEF Live, NextSegment
  <2> QED
    BY <2>3
<1> QED
  BY <1>1

\* A step of a walk that goes on opens a folder that was not asked for.
LEMMA StepLoad ==
  ASSUME NEW K, NEW O, NEW E, NEW c, NEW t \in Paths,
         NavigateStep(K, O, E, c, loaded, t), Opened(O, K, E), \A e \in E : e.live
  PROVE  /\ kids' = K /\ Opened(open', K, events') /\ \A e \in events' : e.live
         /\ target' # Nothing =>
              target' = t /\ \E d \in Walk[t] \cap Dirs : d \notin loaded /\ \E e \in events' : e.path = d
         /\ \A e \in E : e \in events'
<1> DEFINE n == Deepest(K, t)
<1>1. n \in Walk[t] /\ n \in Live(K) /\ (n # t => n \in Dirs)
  BY DeepestIs, OnTheWay
<1> HIDE DEF n
<1>2. CASE n = t \/ n \in loaded
  BY <1>2 DEF NavigateStep, n
<1>3. CASE ~ (n = t \/ n \in loaded)
  <2>1. /\ kids' = K /\ target' = t /\ open' = O \cup {n}
        /\ events' = IF n \in O THEN E ELSE E \cup {[path |-> n, live |-> TRUE]}
    BY <1>3 DEF NavigateStep, n
  <2>2. (\E e \in events' : e.path = n) /\ E \subseteq events' /\ \A e \in events' : e.live
    <3>1. CASE n \in O
      BY <1>1, <1>3, <2>1, <3>1 DEF Opened
    <3>2. CASE n \notin O
      <4> DEFINE e == [path |-> n, live |-> TRUE]
      <4>1. e.path = n /\ e.live /\ events' = E \cup {e}
        BY <2>1, <3>2
      <4> HIDE DEF e
      <4> QED
        BY <4>1
    <3> QED
      BY <3>1, <3>2
  <2>3. Opened(open', K, events')
    BY <2>1, <2>2 DEF Opened
  <2> QED
    BY <1>1, <1>3, <2>1, <2>2, <2>3
<1> QED
  BY <1>2, <1>3

\* Where nothing waits nothing is detached.
LEMMA NoneLeft ==
  ASSUME NEW d \in Dirs
  PROVE  Detached({}, d) = {} /\ DetachedSeq(<<>>, d) = <<>>
<1>1. <<>> \in Seq(Fetch) /\ Len(<<>>) = 0
  OBVIOUS
<1>2. DetachedSeq(<<>>, d) \in Seq(Fetch) /\ Len(DetachedSeq(<<>>, d)) = 0
  BY <1>1, DetachedFetches
<1> QED
  BY <1>2 DEF Detached

\* The invariant, action by action.
LEMMA RefreshLoad ==
  ASSUME TypeOK, RefreshRoot, tidy'
  PROVE  (Loaded /\ Fresh /\ Asking /\ Opened(open, kids, events) /\ Waiting /\ Walking)'
<1>1. events = {} /\ fetches = <<>>
  BY DEF RefreshRoot, Quiet
<1>2. /\ kids' = Cleared(Root) /\ loaded' = {} /\ open' = {Root} /\ reopen' = open \ {Root}
      /\ events' = Detached(events, Root) \cup {[path |-> Root, live |-> TRUE]}
      /\ fetches' = DetachedSeq(fetches, Root) /\ target' = IF cursor = Root THEN target ELSE cursor
  BY DEF RefreshRoot, RemoveChildren
<1>3. events' = {[path |-> Root, live |-> TRUE]} /\ fetches' = <<>>
  BY <1>1, <1>2, NoneLeft
<1>4. \A d \in Dirs : kids'[d] = {}
  BY <1>2 DEF Cleared
<1>5. \A p \in Live(kids') : p = Root
  BY <1>4 DEF Live
<1>6. Loaded' /\ Fresh' /\ Asking'
  <2>1. Loaded'
    BY <1>2, <1>4 DEF Loaded, Grown
  <2>2. Fresh'
    BY <1>3 DEF Fresh
  <2>3. Asking'
    <3>1. DOMAIN fetches' = {}
      BY <1>3
    <3> QED
      BY <3>1 DEF Asking
  <2> QED
    BY <2>1, <2>2, <2>3
<1>7. Opened(open, kids, events)' /\ Waiting'
  <2>1. \E e \in events' : e.path = Root
    <3> DEFINE e == [path |-> Root, live |-> TRUE]
    <3>1. e.path = Root /\ e \in events'
      BY <1>3
    <3> HIDE DEF e
    <3> QED
      BY <3>1
  <2> QED
    BY <1>2, <1>5, <2>1 DEF Opened, Waiting
<1>8. Walking'
  <2>1. target' # Nothing => Root \in Walk[target']
    BY <1>2 DEF TypeOK
  <2>2. Root \notin loaded' /\ \E e \in events' : e.path = Root
    <3> DEFINE e == [path |-> Root, live |-> TRUE]
    <3>1. e.path = Root /\ e \in events'
      BY <1>3
    <3> HIDE DEF e
    <3> QED
      BY <1>2, <3>1
  <2>3. Due(Root)'
    BY <2>2 DEF Due
  <2> QED
    BY <2>1, <2>3 DEF Walking
<1> QED
  BY <1>6, <1>7, <1>8

LEMMA ReloadLoad ==
  ASSUME TypeOK, TreeInv, LoadInv, NEW d \in Dirs \cap Live(kids), ReloadNode(d, TRUE), tidy'
  PROVE  /\ (Loaded /\ Fresh /\ Asking /\ Opened(open, kids, events) /\ Waiting /\ Walking)'
         /\ fetches' = Asked(<<>>, d, TRUE) /\ fetches = <<>> /\ tidy /\ Outside(d, kids')
         /\ Below(d) \cap loaded = {}
<1>1. tidy /\ events = {} /\ fetches = <<>> /\ Below(d) \cap loaded = {}
  BY DEF ReloadNode, Quiet
<1>2. /\ RemoveChildren(d) /\ open' = open \ Below(d) /\ loaded' = loaded \cup {d} /\ events' = Detached(events, d)
      /\ fetches' = Asked(DetachedSeq(fetches, d), d, TRUE) /\ UNCHANGED <<target, reopen>>
  BY DEF ReloadNode
<1>3. events' = {} /\ fetches' = Asked(<<>>, d, TRUE)
  BY <1>1, <1>2, NoneLeft
<1>4. Outside(d, kids') /\ kids'[d] = {} /\ \A e \in Dirs : d \in Walk[e] => kids'[e] = {}
  BY <1>2, RemoveTree, TypesSplit, WalkFacts
<1>5. Loaded /\ Fresh /\ Asking /\ Opened(open, kids, events) /\ Waiting /\ Walking
  BY <1>1 DEF LoadInv
<1>6. /\ DOMAIN fetches' = {1} /\ fetches'[1].path = d /\ fetches'[1].live
  <2> DEFINE f == [path |-> d, live |-> TRUE, rows |-> {}, read |-> FALSE]
  <2>1. fetches' = Append(<<>>, f) /\ f.path = d /\ f.live
    BY <1>3 DEF Asked
  <2> HIDE DEF f
  <2>2. Append(<<>>, f) = <<f>>
    OBVIOUS
  <2> QED
    BY <2>1, <2>2
<1>7. \A p \in Live(kids') : p \notin Below(d)
  BY <1>4, NothingBelow
<1>8. \A p \in Paths \ Below(d) : p \in Live(kids') <=> p \in Live(kids)
  BY <1>4, StaysLive
<1>9. d \in Paths /\ d \notin Below(d) /\ loaded \subseteq Paths /\ reopen \subseteq Paths /\ open \subseteq Paths
  BY UnderBelow DEF TypeOK
<1>10. Loaded'
  <2>1. loaded' \subseteq Live(kids')
    BY <1>1, <1>2, <1>5, <1>8, <1>9 DEF Loaded
  <2>2. ASSUME NEW e \in Dirs, kids'[e] # {} PROVE e # d /\ e \in loaded'
    <3>1. d \notin Walk[e] /\ kids'[e] = kids[e] /\ e # d
      BY <1>4, <2>2, WalkFacts DEF Outside
    <3> QED
      BY <1>2, <1>5, <2>2, <3>1 DEF Loaded, Grown
  <2> QED
    BY <1>6, <2>1, <2>2 DEF Loaded, Grown
<1>11. Fresh' /\ Asking'
  BY <1>2, <1>3, <1>6 DEF Fresh, Asking
<1>12. Opened(open, kids, events)' /\ Waiting'
  BY <1>1, <1>2, <1>5, <1>7, <1>8, <1>9 DEF Opened, Waiting
<1>13. Walking'
  <2>1. DOMAIN fetches = {}
    BY <1>1
  <2>2. target = Nothing
    BY <1>1, <1>5, <2>1 DEF Walking, Due
  <2> QED
    BY <1>2, <2>2 DEF Walking
<1> QED
  BY <1>1, <1>3, <1>4, <1>10, <1>11, <1>12, <1>13

\* The listings that are left when the i-th has been answered.
LEMMA Rest ==
  ASSUME TypeOK, NEW i \in DOMAIN fetches, Populate(i)
  PROVE  /\ \A j \in DOMAIN fetches' : \E k \in DOMAIN fetches :
              /\ k = (IF j < i THEN j ELSE j + 1) /\ k # i
              /\ fetches'[j].path = fetches[k].path /\ fetches'[j].rows = fetches[k].rows
              /\ fetches'[j].read = fetches[k].read
              /\ fetches[k].live /\ fetches[k].path \notin Below(fetches[i].path) => fetches'[j].live
         /\ \A k \in DOMAIN fetches : k # i => \E j \in DOMAIN fetches' : fetches'[j].path = fetches[k].path
         /\ DOMAIN fetches' \subseteq Nat /\ i \in Nat
<1> DEFINE n == Len(fetches)
           rest == RemoveAt(fetches, i)
           d == fetches[i].path
<1>1. fetches \in Seq(Fetch) /\ fetches[i] \in Fetch /\ d \in Dirs
  <2>1. fetches \in Seq(Fetch) /\ fetches[i] \in Fetch
    BY TypesSplit DEF TreeTypes
  <2> QED
    BY <2>1 DEF Fetch
<1>2. /\ rest \in Seq(Fetch) /\ DOMAIN rest = 1..(n - 1) /\ i \in 1..n /\ n \in Nat /\ DOMAIN fetches = 1..n
      /\ \A j \in 1..(n - 1) : rest[j] = IF j < i THEN fetches[j] ELSE fetches[j + 1]
  <2>1. /\ rest \in Seq(Fetch) /\ Len(rest) = n - 1 /\ i \in 1..n /\ n \in Nat
        /\ \A j \in 1..(n - 1) : rest[j] = IF j < i THEN fetches[j] ELSE fetches[j + 1]
    BY <1>1, Removed
  <2> HIDE DEF rest
  <2> QED
    BY <1>1, <2>1
<1>3. fetches' = IF fetches[i].live THEN DetachedSeq(rest, d) ELSE rest
  BY DEF Populate
<1> HIDE DEF rest, d
<1>4. /\ DOMAIN fetches' = DOMAIN rest
      /\ \A j \in DOMAIN rest :
           /\ fetches'[j].path = rest[j].path /\ fetches'[j].rows = rest[j].rows /\ fetches'[j].read = rest[j].read
           /\ rest[j].live /\ rest[j].path \notin Below(d) => fetches'[j].live
  <2>1. CASE fetches[i].live
    <3> DEFINE g == DetachedSeq(rest, d)
    <3>1. /\ DOMAIN g = DOMAIN rest
          /\ \A j \in DOMAIN rest :
               /\ g[j].path = rest[j].path /\ g[j].rows = rest[j].rows /\ g[j].read = rest[j].read
               /\ g[j].live <=> (rest[j].live /\ rest[j].path \notin Below(d))
      BY <1>1, <1>2, DetachedFetches
    <3>2. fetches' = g
      BY <1>3, <2>1
    <3> HIDE DEF g
    <3> QED
      BY <3>1, <3>2
  <2>2. CASE ~ fetches[i].live
    BY <1>3, <2>2
  <2> QED
    BY <2>1, <2>2
<1> HIDE DEF n
<1>5. ASSUME NEW j \in 1..(n - 1)
      PROVE  LET k == IF j < i THEN j ELSE j + 1 IN k \in 1..n /\ k # i /\ rest[j] = fetches[k]
  BY <1>2
<1>6. ASSUME NEW k \in 1..n, k # i PROVE \E j \in 1..(n - 1) : rest[j] = fetches[k]
  <2>1. k < i => k \in 1..(n - 1) /\ rest[k] = fetches[k]
    BY <1>2
  <2>2. k > i => k - 1 \in 1..(n - 1) /\ rest[k - 1] = fetches[k]
    <3>1. k > i => k - 1 \in 1..(n - 1) /\ ~ (k - 1 < i) /\ (k - 1) + 1 = k
      BY <1>2
    <3> QED
      BY <1>2, <3>1
  <2>3. k < i \/ k > i
    BY <1>2, <1>6
  <2> QED
    BY <2>1, <2>2, <2>3
<1>7. DOMAIN fetches' = 1..(n - 1)
  BY <1>2, <1>4
<1>8. ASSUME NEW j \in DOMAIN fetches'
      PROVE  \E k \in DOMAIN fetches :
              /\ k = (IF j < i THEN j ELSE j + 1) /\ k # i
              /\ fetches'[j].path = fetches[k].path /\ fetches'[j].rows = fetches[k].rows
              /\ fetches'[j].read = fetches[k].read
              /\ fetches[k].live /\ fetches[k].path \notin Below(fetches[i].path) => fetches'[j].live
  <2> DEFINE k == IF j < i THEN j ELSE j + 1
  <2>1. k \in 1..n /\ k # i /\ rest[j] = fetches[k]
    BY <1>5, <1>7
  <2> HIDE DEF k
  <2>2. /\ fetches'[j].path = fetches[k].path /\ fetches'[j].rows = fetches[k].rows
        /\ fetches'[j].read = fetches[k].read
        /\ fetches[k].live /\ fetches[k].path \notin Below(d) => fetches'[j].live
    BY <1>2, <1>4, <1>7, <2>1
  <2> QED
    BY <1>2, <2>1, <2>2 DEF d, k
<1>9. ASSUME NEW k \in DOMAIN fetches, k # i PROVE \E j \in DOMAIN fetches' : fetches'[j].path = fetches[k].path
  <2>1. PICK j \in 1..(n - 1) : rest[j] = fetches[k]
    BY <1>2, <1>6, <1>9
  <2> QED
    BY <1>2, <1>4, <1>7, <2>1
<1> QED
  BY <1>2, <1>7, <1>8, <1>9

\* In a tidy tree the node of an answer is there and has no children yet.
LEMMA Answered ==
  ASSUME TypeOK, TreeInv, LoadInv, tidy, NEW i \in DOMAIN fetches, Populate(i)
  PROVE  LET d == fetches[i].path
         IN /\ fetches[i].live /\ d \in Dirs /\ d \in Live(kids) /\ d \in loaded
            /\ fetches[i].rows \subseteq Under(d)
            /\ kids' = [Cleared(d) EXCEPT ![d] = fetches[i].rows] /\ Outside(d, kids')
            /\ kids'[d] = fetches[i].rows /\ \A e \in Dirs : e # d /\ d \in Walk[e] => kids'[e] = {}
            /\ Live(kids) \cap Below(d) = {} /\ Live(kids') \cap Below(d) \subseteq fetches[i].rows
            /\ \A p \in Paths \ Below(d) : p \in Live(kids') <=> p \in Live(kids)
<1> DEFINE d == fetches[i].path
           rows == fetches[i].rows
           K == [Cleared(d) EXCEPT ![d] = rows]
<1>1. fetches[i].live /\ d \in loaded /\ d \in Dirs /\ d \in Live(kids) /\ rows \subseteq Under(d)
  BY DEF TypeOK, TreeInv, AllAlive, LoadInv, Asking
<1>2. kids' = K
  <2>1. \E c : kids' = K
    BY <1>1 DEF Populate, NavigateStep, Stay
  <2> QED
    BY <2>1
<1>3. Outside(d, kids') /\ kids'[d] = rows /\ \A e \in Dirs : e # d /\ d \in Walk[e] => kids'[e] = {}
  BY <1>1, <1>2, WalkFacts DEF TypeOK, Outside, Cleared
<1>4. Live(kids) \cap Below(d) = {}
  <2>1. kids[d] = {}
    BY <1>1 DEF LoadInv, Loaded, Grown
  <2> QED
    BY <1>1, <2>1, NothingBelow
<1>5. Live(kids') \cap Below(d) \subseteq rows
  BY <1>1, <1>3, LiveBelow
<1>6. \A p \in Paths \ Below(d) : p \in Live(kids') <=> p \in Live(kids)
  BY <1>1, <1>3, StaysLive
<1> QED
  BY <1>1, <1>2, <1>3, <1>4, <1>5, <1>6

LEMMA PopulateLoad ==
  ASSUME TypeOK, TreeInv, LoadInv, tidy, NEW i \in DOMAIN fetches, Populate(i)
  PROVE  (Loaded /\ Fresh /\ Asking /\ Opened(open, kids, events) /\ Waiting /\ Walking)'
<1> DEFINE got == fetches[i]
           d == got.path
           K == IF got.live THEN [Cleared(d) EXCEPT ![d] = got.rows] ELSE kids
           again == got.rows \cap reopen \cap Dirs
           O == IF got.live THEN (open \ Below(d)) \cup again ELSE open
           W == IF got.live THEN Detached(events, d) ELSE events
           new == {[path |-> p, live |-> got.live] : p \in again}
           E == W \cup new
           there == IF back \in got.rows THEN IF got.live THEN Lands(back, K, O) ELSE Visible(K, O)
                    ELSE {IF got.live /\ cursor \in Below(d) THEN Root ELSE cursor}
<1>1. Loaded /\ Fresh /\ Asking /\ Opened(open, kids, events) /\ Waiting /\ Walking
  BY DEF LoadInv
<1>2. /\ got.live /\ d \in Dirs /\ d \in Live(kids) /\ d \in loaded /\ got.rows \subseteq Under(d)
      /\ kids' = K /\ Outside(d, K)
      /\ K[d] = got.rows /\ \A e \in Dirs : e # d /\ d \in Walk[e] => K[e] = {}
      /\ Live(kids) \cap Below(d) = {} /\ Live(K) \cap Below(d) \subseteq got.rows
      /\ \A p \in Paths \ Below(d) : p \in Live(K) <=> p \in Live(kids)
  <2>1. /\ got.live /\ d \in Dirs /\ d \in Live(kids) /\ d \in loaded /\ got.rows \subseteq Under(d)
        /\ kids' = [Cleared(d) EXCEPT ![d] = got.rows] /\ Outside(d, kids')
        /\ kids'[d] = got.rows /\ \A e \in Dirs : e # d /\ d \in Walk[e] => kids'[e] = {}
        /\ Live(kids) \cap Below(d) = {} /\ Live(kids') \cap Below(d) \subseteq got.rows
        /\ \A p \in Paths \ Below(d) : p \in Live(kids') <=> p \in Live(kids)
    BY Answered
  <2>2. kids' = K
    BY <2>1
  <2> HIDE DEF K, got, d
  <2> QED
    BY <2>1, <2>2
<1>3. loaded' = loaded /\ reopen' = reopen \ again
  BY DEF Populate
<1>4. PICK c \in there :
        IF target # Nothing /\ (target = d \/ NextSegment(d, target) # {})
        THEN NavigateStep(K, O, E, c, loaded, target)
        ELSE Stay(K, O, E, c)
  BY DEF Populate
<1>5. O = (open \ Below(d)) \cup again /\ W = Detached(events, d)
  BY <1>2
<1>6. (\A e \in new : e.live) /\ \A p \in again : \E e \in new : e.path = p
  <2> DEFINE N(p) == [path |-> p, live |-> got.live]
  <2>1. \A p \in again : N(p).path = p /\ N(p).live
    BY <1>2
  <2>2. new = {N(p) : p \in again}
    OBVIOUS
  <2> HIDE DEF N, new, again
  <2> QED
    BY <2>1, <2>2
<1>7. \A j \in DOMAIN fetches' : \E k \in DOMAIN fetches :
        /\ k = (IF j < i THEN j ELSE j + 1) /\ k # i /\ fetches'[j].path = fetches[k].path
        /\ fetches[k].live /\ fetches[k].path \notin Below(d) => fetches'[j].live
  BY Rest
<1>8. \A k \in DOMAIN fetches : k # i => \E j \in DOMAIN fetches' : fetches'[j].path = fetches[k].path
  BY Rest
<1>9. loaded \subseteq Paths /\ open \subseteq Paths /\ reopen \subseteq Dirs /\ events \in SUBSET Event
      /\ target \in Paths \cup {Nothing} /\ Dirs \subseteq Paths
  BY TypesSplit DEF TreeTypes
<1> HIDE DEF got, K, O, W, new, E, there
<1>10. (\A e \in W : e.live) /\ \A e \in events : \E x \in W : x.path = e.path
  <2>1. \A e \in events : e.live /\ e.path \in Live(kids)
    BY <1>1 DEF Fresh, TreeInv, Alive
  <2>2. \A e \in events : e.path \notin Below(d)
    BY <1>2, <2>1
  <2> QED
    BY <1>2, <1>5, <1>9, <2>1, <2>2, EventsLeft
<1>11. (\A e \in E : e.live) /\ \A e \in events : \E x \in E : x.path = e.path
  BY <1>6, <1>10 DEF E
<1>12. Opened(O, K, E)
  <2> SUFFICES ASSUME NEW p \in O \cap Live(K), p \notin again
               PROVE  p \in loaded \/ \E e \in E : e.path = p
    BY <1>6 DEF Opened, E
  <2>1. p \in open /\ p \in Paths /\ p \notin Below(d) /\ p \in Live(kids)
    BY <1>2, <1>5, <1>9
  <2> QED
    BY <1>1, <1>11, <2>1 DEF Opened
<1>13. Loaded'
  <2>1. loaded' \subseteq Live(kids')
    BY <1>1, <1>2, <1>3, <1>9 DEF Loaded
  <2>2. ASSUME NEW e \in Dirs, K[e] # {}
        PROVE  e \in loaded /\ \A j \in DOMAIN fetches' : fetches'[j].path # e
    <3>1. CASE e = d
      BY <1>1, <1>2, <1>7, <3>1 DEF Asking, got
    <3>2. CASE e # d
      <4>1. kids[e] # {}
        BY <1>2, <2>2, <3>2 DEF Outside
      <4> QED
        BY <1>1, <1>7, <4>1 DEF Loaded, Grown
    <3> QED
      BY <3>1, <3>2
  <2> QED
    BY <1>2, <1>3, <2>1, <2>2 DEF Loaded, Grown
<1>14. Asking'
  <2>1. ASSUME NEW j \in DOMAIN fetches' PROVE fetches'[j].live /\ fetches'[j].path \in loaded'
    <3>1. PICK k \in DOMAIN fetches :
            /\ fetches'[j].path = fetches[k].path
            /\ fetches[k].live /\ fetches[k].path \notin Below(d) => fetches'[j].live
      BY <1>7
    <3>2. fetches[k].live /\ fetches[k].path \in loaded /\ fetches[k].path \notin Below(d)
      BY <1>1, <1>2 DEF Asking, Loaded
    <3> QED
      BY <1>3, <3>1, <3>2
  <2>2. ASSUME NEW j \in DOMAIN fetches', NEW m \in DOMAIN fetches', fetches'[j].path = fetches'[m].path
        PROVE  j = m
    <3>1. j \in Nat /\ m \in Nat /\ i \in Nat
      BY Rest
    <3>2. (IF j < i THEN j ELSE j + 1) = (IF m < i THEN m ELSE m + 1)
      BY <1>1, <1>7, <2>2 DEF Asking
    <3> QED
      BY <3>1, <3>2
  <2> QED
    BY <2>1, <2>2 DEF Asking
<1>15. Waiting'
  <2>1. ASSUME NEW p \in reopen, p \in Live(K) PROVE p \in again
    <3>1. p \in Below(d)
      BY <1>1, <1>2, <1>9, <2>1 DEF Waiting
    <3> QED
      BY <1>2, <1>9, <2>1, <3>1
  <2> QED
    BY <1>2, <1>3, <2>1 DEF Waiting
<1>16. Fresh' /\ Opened(open, kids, events)' /\ Walking'
  <2>1. CASE target # Nothing /\ NavigateStep(K, O, E, c, loaded, target)
    <3>1. /\ Opened(open', K, events') /\ \A e \in events' : e.live
          /\ target' # Nothing =>
               target' = target /\ \E e \in Walk[target] \cap Dirs : e \notin loaded /\ \E x \in events' : x.path = e
      BY <1>9, <1>11, <1>12, <2>1, StepLoad
    <3> QED
      BY <1>2, <1>3, <3>1 DEF Fresh, Opened, Walking, Due
  <2>2. CASE Stay(K, O, E, c) /\ ~ (target # Nothing /\ (target = d \/ NextSegment(d, target) # {}))
    <3>1. open' = O /\ events' = E /\ target' = target
      BY <2>2 DEF Stay
    <3>2. Fresh' /\ Opened(open, kids, events)'
      BY <1>2, <1>3, <1>11, <1>12, <3>1 DEF Fresh, Opened
    <3>3. ASSUME target # Nothing PROVE \E e \in Walk[target] \cap Dirs : Due(e)'
      <4>1. PICK e \in Walk[target] \cap Dirs : Due(e)
        BY <1>1, <3>3 DEF Walking
      <4>2. CASE e \notin loaded /\ \E x \in events : x.path = e
        BY <1>3, <1>11, <3>1, <4>2 DEF Due
      <4>3. ASSUME NEW k \in DOMAIN fetches, fetches[k].path = e PROVE Due(e)'
        <5>1. e # d
          BY <1>9, <2>2, <3>3, OnTheWay
        <5>2. k # i
          BY <4>3, <5>1 DEF got
        <5> QED
          BY <1>8, <4>3, <5>2 DEF Due
      <4> QED
        BY <4>1, <4>2, <4>3 DEF Due
    <3> QED
      BY <3>1, <3>2, <3>3 DEF Walking
  <2> QED
    BY <1>4, <2>1, <2>2
<1> QED
  BY <1>13, <1>14, <1>15, <1>16

\* What a listing asked for adds to the ones under way.
LEMMA AskedIs ==
  ASSUME NEW f \in Seq(Fetch), NEW d \in Dirs, NEW l \in BOOLEAN
  PROVE  /\ DOMAIN f = 1..Len(f) /\ Len(f) \in Nat /\ DOMAIN Asked(f, d, l) = 1..(Len(f) + 1)
         /\ \A i \in 1..Len(f) : Asked(f, d, l)[i] = f[i]
         /\ Asked(f, d, l)[Len(f) + 1].path = d /\ (Asked(f, d, l)[Len(f) + 1].live <=> l)
         /\ ~ Asked(f, d, l)[Len(f) + 1].read
         /\ \A i \in 1..(Len(f) + 1) : i \in 1..Len(f) \/ i = Len(f) + 1
<1> DEFINE e == [path |-> d, live |-> l, rows |-> {}, read |-> FALSE]
<1>1. e \in Fetch /\ e.path = d /\ (e.live <=> l) /\ ~ e.read
  BY DEF Fetch
<1>2. Asked(f, d, l) = Append(f, e)
  BY DEF Asked
<1> HIDE DEF e
<1>3. /\ Append(f, e) \in Seq(Fetch) /\ Len(Append(f, e)) = Len(f) + 1 /\ Len(f) \in Nat
      /\ \A i \in 1..Len(f) : Append(f, e)[i] = f[i]
      /\ Append(f, e)[Len(f) + 1] = e
  BY <1>1, AppendProperties
<1>4. DOMAIN Append(f, e) = 1..(Len(f) + 1) /\ DOMAIN f = 1..Len(f)
  BY <1>3
<1>5. \A i \in 1..(Len(f) + 1) : i \in 1..Len(f) \/ i = Len(f) + 1
  BY <1>3
<1> QED
  BY <1>1, <1>2, <1>3, <1>4, <1>5

LEMMA ExpandedLoad ==
  ASSUME TypeOK, TreeInv, LoadInv, tidy, NEW e \in events, Expanded(e)
  PROVE  (Loaded /\ Fresh /\ Asking /\ Opened(open, kids, events) /\ Waiting /\ Walking)'
<1>1. Loaded /\ Fresh /\ Asking /\ Opened(open, kids, events) /\ Waiting /\ Walking
  BY DEF LoadInv
<1>2. UNCHANGED <<kids, open, reopen, target>> /\ events' = events \ {e}
  BY DEF Expanded, view, walk
<1>3. e.live /\ e.path \in Dirs /\ e.path \in Live(kids)
  BY <1>1 DEF TypeOK, TreeInv, Alive, Fresh
<1>4. Fresh' /\ Waiting'
  BY <1>1, <1>2 DEF Fresh, Waiting, Live
<1>5. CASE e.path \in loaded
  <2>1. UNCHANGED <<loaded, fetches>>
    BY <1>5 DEF Expanded
  <2>2. Loaded' /\ Asking'
    BY <1>1, <1>2, <2>1 DEF Loaded, Grown, Asking, Live
  <2>3. Opened(open, kids, events)'
    BY <1>1, <1>2, <1>5, <2>1 DEF Opened, Live
  <2>4. Walking'
    BY <1>1, <1>2, <1>5, <2>1 DEF Walking, Due
  <2> QED
    BY <1>4, <2>2, <2>3, <2>4
<1>6. CASE e.path \notin loaded
  <2> DEFINE n == Len(fetches)
  <2>1. loaded' = loaded \cup {e.path} /\ fetches' = Asked(fetches, e.path, e.live)
    BY <1>6 DEF Expanded
  <2>2. fetches \in Seq(Fetch) /\ e.live \in BOOLEAN
    BY TypesSplit DEF TreeTypes, Event
  <2>3. /\ DOMAIN fetches = 1..n /\ n \in Nat /\ DOMAIN fetches' = 1..(n + 1)
        /\ \A i \in 1..n : fetches'[i] = fetches[i] /\ i \in 1..(n + 1)
        /\ fetches'[n + 1].path = e.path /\ fetches'[n + 1].live /\ n + 1 \in 1..(n + 1)
        /\ \A i \in 1..(n + 1) : i \in 1..n \/ i = n + 1
    <3> DEFINE f == Asked(fetches, e.path, e.live)
    <3>1. /\ DOMAIN fetches = 1..n /\ n \in Nat /\ DOMAIN f = 1..(n + 1)
          /\ \A i \in 1..n : f[i] = fetches[i]
          /\ f[n + 1].path = e.path /\ (f[n + 1].live <=> e.live)
          /\ \A i \in 1..(n + 1) : i \in 1..n \/ i = n + 1
      <4> DEFINE d == e.path
                 l == e.live
      <4>1. fetches \in Seq(Fetch) /\ d \in Dirs /\ l \in BOOLEAN /\ f = Asked(fetches, d, l)
        BY <1>3, <2>2
      <4> HIDE DEF d, l, f
      <4> QED
        BY <4>1, AskedIs DEF d, l
    <3> HIDE DEF f, n
    <3>2. (\A i \in 1..n : i \in 1..(n + 1)) /\ n + 1 \in 1..(n + 1)
      BY <3>1
    <3>3. fetches' = f
      BY <2>1 DEF f
    <3> QED
      BY <1>3, <3>1, <3>2, <3>3
  <2> HIDE DEF n
  <2>4. \A i \in 1..n : fetches[i].live /\ fetches[i].path \in loaded /\ fetches[i].path # e.path
    BY <1>1, <1>6, <2>3 DEF Asking
  <2>5. Loaded'
    <3>1. loaded' \subseteq Live(kids')
      BY <1>1, <1>2, <1>3, <2>1 DEF Loaded, Live
    <3>2. ASSUME NEW d \in Dirs, kids[d] # {}
          PROVE  d \in loaded /\ d # e.path /\ \A i \in 1..(n + 1) : fetches'[i].path # d
      <4>1. d \in loaded /\ \A i \in 1..n : fetches[i].path # d
        BY <1>1, <2>3, <3>2 DEF Loaded, Grown
      <4> QED
        BY <1>6, <2>3, <4>1
    <3> QED
      BY <1>2, <2>1, <2>3, <3>1, <3>2 DEF Loaded, Grown
  <2>6. Asking'
    <3>1. \A i \in 1..(n + 1) : fetches'[i].live /\ fetches'[i].path \in loaded'
      BY <2>1, <2>3, <2>4
    <3>2. \A i, j \in 1..(n + 1) : fetches'[i].path = fetches'[j].path => i = j
      BY <1>1, <2>3, <2>4 DEF Asking
    <3> QED
      BY <2>3, <3>1, <3>2 DEF Asking
  <2>7. Opened(open, kids, events)'
    BY <1>1, <1>2, <2>1 DEF Opened, Live
  <2>8. Walking'
    <3>1. ASSUME NEW d \in Dirs, Due(d) PROVE Due(d)'
      <4>1. CASE \E i \in DOMAIN fetches : fetches[i].path = d
        BY <2>3, <4>1 DEF Due
      <4>2. CASE d \notin loaded /\ \E x \in events : x.path = d
        BY <1>2, <2>1, <2>3, <4>2 DEF Due
      <4> QED
        BY <3>1, <4>1, <4>2 DEF Due
    <3> QED
      BY <1>1, <1>2, <3>1 DEF Walking
  <2> QED
    BY <1>4, <2>5, <2>6, <2>7, <2>8
<1> QED
  BY <1>5, <1>6

\* The step of a search in a tree at rest.
LEMMA NavigateLoad ==
  ASSUME TypeOK, TreeInv, LoadInv, tidy, NavigateToPath, tidy'
  PROVE  (Loaded /\ Fresh /\ Asking /\ Opened(open, kids, events) /\ Waiting /\ Walking)'
<1>1. Loaded /\ Fresh /\ Asking /\ Opened(open, kids, events) /\ Waiting /\ Walking
  BY DEF LoadInv
<1>2. UNCHANGED <<loaded, fetches, reopen>> /\ fetches = <<>>
  BY DEF NavigateToPath, Quiet
<1>3. PICK t \in Paths : NavigateStep(kids, open, events, cursor, loaded, t)
  BY DEF NavigateToPath
<1>4. /\ kids' = kids /\ Opened(open', kids, events') /\ \A e \in events' : e.live
      /\ target' # Nothing =>
           target' = t /\ \E d \in Walk[t] \cap Dirs : d \notin loaded /\ \E e \in events' : e.path = d
  BY <1>1, <1>3, StepLoad DEF Fresh
<1> QED
  BY <1>1, <1>2, <1>4 DEF Loaded, Grown, Fresh, Asking, Opened, Waiting, Walking, Due, Live

LEMMA LoadNext == ASSUME TypeOK, TreeInv, LoadInv, [Next]_vars PROVE LoadInv'
<1> SUFFICES ASSUME tidy'
             PROVE  (Loaded /\ Fresh /\ Asking /\ Opened(open, kids, events) /\ Waiting /\ Walking)'
  BY DEF LoadInv
<1>1. CASE Refresh
  BY <1>1, RefreshLoad DEF Refresh
<1>2. CASE Reload
  BY <1>2, ReloadLoad DEF Reload, TreeInv, Placed
<1>3. CASE NavigateToPath
  BY <1>3, NavigateLoad DEF NavigateToPath
<1>4. ASSUME tidy, UNCHANGED <<view, loaded, events, fetches, walk>>
      PROVE  (Loaded /\ Fresh /\ Asking /\ Opened(open, kids, events) /\ Waiting /\ Walking)'
  BY <1>4
     DEF LoadInv, Loaded, Grown, Fresh, Asking, Opened, Waiting, Walking, Due, Live, view, walk
<1>5. CASE ToggleMark \/ RunFileAction \/ RunBulkAction \/ DropMarks \/ ServerChanges
  BY <1>4, <1>5 DEF ToggleMark, RunFileAction, RunBulkAction, DropMarks, ClearMarks, ServerChanges
<1>6. CASE MoveCursor \/ CollapseNode
  <2>1. UNCHANGED <<kids, loaded, events, fetches, reopen, target>> /\ open' \subseteq open /\ tidy
    BY <1>6 DEF MoveCursor, CollapseNode, walk
  <2>2. Loaded /\ Fresh /\ Asking /\ Opened(open, kids, events) /\ Waiting /\ Walking
    BY <2>1 DEF LoadInv
  <2>3. Loaded' /\ Fresh' /\ Asking'
    BY <2>1, <2>2 DEF Loaded, Grown, Fresh, Asking, Live
  <2>4. Opened(open, kids, events)' /\ Waiting' /\ Walking'
    BY <2>1, <2>2 DEF Opened, Waiting, Walking, Due, Live
  <2> QED
    BY <2>3, <2>4
<1>7. ASSUME NEW S, Open(S) PROVE (Loaded /\ Fresh /\ Asking /\ Opened(open, kids, events) /\ Waiting /\ Walking)'
  <2> DEFINE N(d) == [path |-> d, live |-> TRUE]
  <2>1. /\ open' = open \cup S /\ events' = events \cup {N(d) : d \in S \ open}
        /\ UNCHANGED <<kids, loaded, fetches, reopen, target>> /\ tidy
    BY <1>7 DEF Open, walk
  <2>2. \A d : N(d).path = d /\ N(d).live
    OBVIOUS
  <2>3. Loaded /\ Fresh /\ Asking /\ Opened(open, kids, events) /\ Waiting /\ Walking
    BY <2>1 DEF LoadInv
  <2> HIDE DEF N
  <2>4. Fresh' /\ Opened(open, kids, events)'
    BY <2>1, <2>2, <2>3 DEF Fresh, Opened, Live
  <2> QED
    BY <2>1, <2>3, <2>4 DEF Loaded, Grown, Asking, Waiting, Walking, Due, Live
<1>8. CASE ExpandNode \/ ApplyFilter
  BY <1>7, <1>8 DEF ExpandNode, ApplyFilter
<1>9. ASSUME NEW e \in events, Expanded(e)
      PROVE  (Loaded /\ Fresh /\ Asking /\ Opened(open, kids, events) /\ Waiting /\ Walking)'
  BY <1>9, ExpandedLoad DEF Expanded
<1>10. ASSUME NEW i \in DOMAIN fetches, FetchNodeData(i)
       PROVE  (Loaded /\ Fresh /\ Asking /\ Opened(open, kids, events) /\ Waiting /\ Walking)'
  <2>1. UNCHANGED <<view, loaded, events, walk, tidy>>
    BY <1>10 DEF FetchNodeData
  <2>2. DOMAIN fetches' = DOMAIN fetches
        /\ \A j \in DOMAIN fetches : fetches'[j].path = fetches[j].path /\ (fetches'[j].live <=> fetches[j].live)
    <3>1. \A j \in DOMAIN fetches : fetches[j] \in Fetch
      BY TypesSplit DEF TreeTypes
    <3> QED
      BY <1>10, <3>1, SMTT(20) DEF FetchNodeData, Fetch
  <2> QED
    BY <2>1, <2>2
       DEF LoadInv, Loaded, Grown, Fresh, Asking, Opened, Waiting, Walking, Due, Live, view, walk
<1>11. ASSUME NEW i \in DOMAIN fetches, Populate(i)
       PROVE  (Loaded /\ Fresh /\ Asking /\ Opened(open, kids, events) /\ Waiting /\ Walking)'
  BY <1>11, PopulateLoad DEF Populate
<1>12. ASSUME NEW a \in acting, RefreshAfterAction(a)
       PROVE  (Loaded /\ Fresh /\ Asking /\ Opened(open, kids, events) /\ Waiting /\ Walking)'
  <2>1. CASE a.file = Nothing
    BY <1>12, <2>1, RefreshLoad DEF RefreshAfterAction
  <2>2. CASE a.file # Nothing
    <3>1. a.path \in Dirs /\ a.live \in BOOLEAN /\ ReloadNode(a.path, a.live)
      BY <1>12, <2>2 DEF TypeOK, RefreshAfterAction
    <3>2. a.live
      BY <3>1 DEF ReloadNode
    <3>3. a.path \in Live(kids)
      BY <3>2 DEF TreeInv, Alive
    <3>4. ReloadNode(a.path, TRUE)
      <4>1. a.live = TRUE
        BY <3>1, <3>2
      <4> QED
        BY <3>1, <4>1
    <3> QED
      BY <3>1, <3>3, <3>4, ReloadLoad, ZenonT(20)
  <2> QED
    BY <2>1, <2>2
<1>13. ASSUME NEW a \in acting, ActionFails(a)
       PROVE  (Loaded /\ Fresh /\ Asking /\ Opened(open, kids, events) /\ Waiting /\ Walking)'
  BY <1>4, <1>13 DEF ActionFails
<1>14. CASE Look \/ ShowFolderHistory \/ UNCHANGED vars
  BY <1>4, <1>14 DEF Look, TimerFires, RenderHistory, ShowFolderHistory, vars
<1> QED
  BY <1>1, <1>2, <1>3, <1>5, <1>6, <1>8, <1>9, <1>10, <1>11, <1>12, <1>13, <1>14
     DEF Next, User, Load, Act

LEMMA LoadCorrect == Spec => []LoadInv
<1>1. Init => LoadInv
  <2> SUFFICES ASSUME Init PROVE Loaded /\ Fresh /\ Asking /\ Opened(open, kids, events) /\ Waiting /\ Walking
    BY DEF LoadInv
  <2> DEFINE e == [path |-> Root, live |-> TRUE]
  <2>1. e.path = Root /\ e.live
    OBVIOUS
  <2>2. /\ \A d \in Dirs : kids[d] = {}
        /\ open = {Root} /\ loaded = {} /\ events = {e} /\ DOMAIN fetches = {} /\ target = Nothing /\ reopen = {}
    BY DEF Init
  <2> HIDE DEF e
  <2> QED
    BY <2>1, <2>2 DEF Loaded, Grown, Fresh, Asking, Opened, Waiting, Walking
<1>2. TypeOK /\ TreeInv /\ LoadInv /\ [Next]_vars => LoadInv'
  BY LoadNext
<1> QED
  BY <1>1, <1>2, TypeCorrect, TreeCorrect, PTL DEF Spec

\* When the loading is over nothing is in the tree that was open before a refresh and
\* is still to be opened, and the cursor is back (P4Tree.refresh_root, P4Tree._populate).
THEOREM RefreshDone == Spec => []RefreshRestores
<1>1. LoadInv => RefreshRestores
  <2> SUFFICES ASSUME LoadInv, tidy, Quiet PROVE reopen \cap Live(kids) = {} /\ target = Nothing
    BY DEF RefreshRestores
  <2>1. events = {} /\ DOMAIN fetches = {}
    BY DEF Quiet
  <2> QED
    BY <2>1 DEF LoadInv, Waiting, Walking, Due
<1> QED
  BY <1>1, LoadCorrect, PTL

\* While the tree walks to a path, a folder on the way is about to be listed or is being
\* listed, for a node that is there: the walk can go on or end, and is never forgotten.
WalkWaits ==
  tidy /\ target # Nothing =>
    \E d \in Walk[target] \cap Dirs :
      \/ d \notin loaded /\ \E e \in events : e.path = d /\ e.live
      \/ \E i \in DOMAIN fetches : fetches[i].path = d /\ fetches[i].live

\* A walk goes on and ends only when an answer comes (P4Tree._navigate_step, called by
\* _populate), so there must be one to come: a walk in a tidy tree waits for a listing
\* on its way.
THEOREM WalksWait == Spec => []WalkWaits
<1>1. LoadInv => WalkWaits
  BY DEF LoadInv, Fresh, Asking, Walking, Due, WalkWaits
<1> QED
  BY <1>1, LoadCorrect, PTL

-----------------------------------------------------------------------------
(* What a folder shows.  While the server stays the same and answers, a folder   *)
(* that was asked for shows what the server has, or is still being listed.       *)

Full(d) == kids[d] = server \cap Under(d) \/ \E i \in DOMAIN fetches : fetches[i].path = d
Brought ==
  \A i \in DOMAIN fetches : fetches[i].read => fetches[i].rows = server \cap Under(fetches[i].path)
ListInv == tidy /\ edits = 0 => (\A d \in loaded : Full(d)) /\ Brought

\* A folder at its own level is listed alone, in a tree where nothing else loads.
LEMMA ReloadList ==
  ASSUME TypeOK, TreeInv, LoadInv, ListInv, NEW d \in Dirs \cap Live(kids), ReloadNode(d, TRUE),
         tidy', edits = 0
  PROVE  (\A e \in loaded : Full(e))' /\ Brought'
<1>1. fetches' = Asked(<<>>, d, TRUE) /\ fetches = <<>> /\ tidy /\ Outside(d, kids') /\ Below(d) \cap loaded = {}
  BY ReloadLoad
<1>2. loaded' = loaded \cup {d} /\ server' = server
  BY DEF ReloadNode
<1>3. DOMAIN fetches' = {1} /\ fetches'[1].path = d /\ ~ fetches'[1].read
  <2> DEFINE f == [path |-> d, live |-> TRUE, rows |-> {}, read |-> FALSE]
  <2>1. fetches' = Append(<<>>, f) /\ f.path = d /\ ~ f.read
    BY <1>1 DEF Asked
  <2> HIDE DEF f
  <2>2. Append(<<>>, f) = <<f>>
    OBVIOUS
  <2> QED
    BY <2>1, <2>2
<1>4. ASSUME NEW e \in loaded, e # d PROVE kids'[e] = server \cap Under(e)
  <2>1. e \in Dirs /\ d \notin Walk[e]
    BY <1>1, <1>4 DEF TypeOK, Below
  <2>2. DOMAIN fetches = {}
    BY <1>1
  <2>3. kids[e] = server \cap Under(e)
    BY <1>1, <2>2 DEF ListInv, Full
  <2> QED
    BY <1>1, <2>1, <2>3 DEF Outside
<1> QED
  BY <1>2, <1>3, <1>4 DEF Full, Brought

\* Each step keeps it: only an answer changes what a folder shows.
LEMMA ListNext == ASSUME TypeOK, TreeInv, LoadInv, ListInv, [Next]_vars PROVE ListInv'
<1> SUFFICES ASSUME tidy', edits' = 0 PROVE (\A d \in loaded : Full(d))' /\ Brought'
  BY DEF ListInv
<1>1. ASSUME RefreshRoot PROVE (\A d \in loaded : Full(d))' /\ Brought'
  <2>1. loaded' = {} /\ fetches = <<>> /\ fetches' = DetachedSeq(fetches, Root)
    BY <1>1 DEF RefreshRoot, Quiet
  <2>2. DOMAIN fetches' = {}
    BY <2>1, NoneLeft
  <2> QED
    BY <2>1, <2>2 DEF Brought
<1>2. CASE Refresh
  BY <1>1, <1>2 DEF Refresh
<1>3. CASE Reload
  BY <1>3, ReloadList DEF Reload, TreeInv, Placed
<1>4. ASSUME tidy, edits = 0, UNCHANGED <<kids, loaded, fetches, server>>
      PROVE  (\A d \in loaded : Full(d))' /\ Brought'
  BY <1>4 DEF ListInv, Full, Brought
<1>5. CASE NavigateToPath
  BY <1>4, <1>5 DEF NavigateToPath, NavigateStep
<1>6. CASE MoveCursor \/ ExpandNode \/ ApplyFilter \/ CollapseNode
  BY <1>4, <1>6 DEF MoveCursor, ExpandNode, ApplyFilter, Open, CollapseNode
<1>7. CASE ToggleMark \/ RunFileAction \/ RunBulkAction \/ DropMarks
  BY <1>4, <1>7 DEF ToggleMark, RunFileAction, RunBulkAction, DropMarks, ClearMarks, view
<1>8. edits \in Nat
  BY DEF TypeOK
<1>9. CASE ServerChanges
  <2>1. edits' = edits + 1
    BY <1>9 DEF ServerChanges
  <2> QED
    BY <1>8, <2>1
<1>10. ASSUME NEW a \in acting, ActionFails(a) PROVE FALSE
  <2>1. edits' = edits + 1
    BY <1>10 DEF ActionFails
  <2> QED
    BY <1>8, <2>1
<1>11. ASSUME NEW a \in acting, RefreshAfterAction(a) PROVE (\A d \in loaded : Full(d))' /\ Brought'
  <2>1. CASE a.file = Nothing
    BY <1>1, <1>11, <2>1 DEF RefreshAfterAction
  <2>2. CASE a.file # Nothing
    <3>1. a.path \in Dirs /\ a.live \in BOOLEAN /\ ReloadNode(a.path, a.live) /\ edits = 0
      BY <1>11, <2>2 DEF TypeOK, RefreshAfterAction
    <3>2. a.live = TRUE
      BY <3>1 DEF ReloadNode
    <3>3. a.path \in Live(kids) /\ ReloadNode(a.path, TRUE)
      BY <3>1, <3>2 DEF TreeInv, Alive
    <3> QED
      BY <3>1, <3>3, ReloadList
  <2> QED
    BY <2>1, <2>2
<1>12. ASSUME NEW e \in events, Expanded(e) PROVE (\A d \in loaded : Full(d))' /\ Brought'
  <2>1. tidy /\ edits = 0 /\ UNCHANGED <<kids, server>>
    BY <1>12 DEF Expanded, view
  <2>2. CASE e.path \in loaded
    BY <1>4, <1>12, <2>1, <2>2 DEF Expanded
  <2>3. CASE e.path \notin loaded
    <3> DEFINE d == e.path
               l == e.live
               n == Len(fetches)
    <3>1. loaded' = loaded \cup {d} /\ fetches' = Asked(fetches, d, l)
      BY <1>12, <2>3 DEF Expanded
    <3>2. fetches \in Seq(Fetch) /\ d \in Dirs /\ l \in BOOLEAN
      BY TypesSplit DEF TreeTypes, Event
    <3> HIDE DEF d, l
    <3>3. /\ DOMAIN fetches = 1..n /\ n \in Nat /\ DOMAIN fetches' = 1..(n + 1)
          /\ \A i \in 1..n : fetches'[i] = fetches[i]
          /\ fetches'[n + 1].path = d /\ ~ fetches'[n + 1].read
          /\ \A i \in 1..(n + 1) : i \in 1..n \/ i = n + 1
      BY <3>1, <3>2, AskedIs
    <3> HIDE DEF n
    <3>4. (\A i \in 1..n : i \in 1..(n + 1)) /\ n + 1 \in 1..(n + 1)
      BY <3>3
    <3>5. ASSUME NEW c \in loaded' PROVE Full(c)'
      <4>1. CASE c = d
        BY <3>3, <3>4, <4>1 DEF Full
      <4>2. CASE c \in loaded
        BY <2>1, <3>3, <3>4, <4>2 DEF ListInv, Full
      <4> QED
        BY <3>1, <4>1, <4>2
    <3>6. Brought'
      BY <2>1, <3>3, <3>4 DEF ListInv, Brought
    <3> QED
      BY <3>5, <3>6
  <2> QED
    BY <2>2, <2>3
<1>13. ASSUME NEW i \in DOMAIN fetches, FetchNodeData(i) PROVE (\A d \in loaded : Full(d))' /\ Brought'
  <2>1. tidy /\ UNCHANGED <<kids, loaded, server>>
    BY <1>13 DEF FetchNodeData, view
  <2>2. edits = 0 /\ fetches' = [fetches EXCEPT ![i].read = TRUE, ![i].rows = server \cap Under(fetches[i].path)]
    BY <1>8, <1>13 DEF FetchNodeData
  <2>3. /\ DOMAIN fetches' = DOMAIN fetches /\ \A j \in DOMAIN fetches : j # i => fetches'[j] = fetches[j]
        /\ fetches'[i].path = fetches[i].path /\ fetches'[i].rows = server \cap Under(fetches[i].path)
    <3>1. fetches[i] \in Fetch
      BY TypesSplit DEF TreeTypes
    <3> QED
      BY <2>2, <3>1 DEF Fetch
  <2> QED
    BY <2>1, <2>2, <2>3 DEF ListInv, Full, Brought
<1>14. ASSUME NEW i \in DOMAIN fetches, Populate(i) PROVE (\A d \in loaded : Full(d))' /\ Brought'
  <2> DEFINE d == fetches[i].path
  <2>1. tidy /\ edits = 0 /\ UNCHANGED <<loaded, server>> /\ fetches[i].read
    BY <1>14 DEF Populate
  <2>2. /\ d \in Dirs /\ Outside(d, kids') /\ kids'[d] = fetches[i].rows
        /\ Live(kids) \cap Below(d) = {}
    BY <1>14, <2>1, Answered
  <2>3. /\ \A j \in DOMAIN fetches' : \E k \in DOMAIN fetches :
             fetches'[j].path = fetches[k].path /\ fetches'[j].rows = fetches[k].rows /\ (fetches'[j].read = fetches[k].read)
        /\ \A k \in DOMAIN fetches : k # i => \E j \in DOMAIN fetches' : fetches'[j].path = fetches[k].path
    BY <1>14, Rest
  <2>4. (\A e \in loaded : Full(e)) /\ Brought
    BY <2>1 DEF ListInv
  <2>5. Brought'
    BY <2>1, <2>3, <2>4 DEF Brought
  <2>6. ASSUME NEW e \in loaded PROVE Full(e)'
    <3>1. CASE e = d
      BY <2>1, <2>2, <2>4, <3>1 DEF Full, Brought
    <3>2. CASE e # d
      <4>1. e \in Dirs /\ e \in Live(kids)
        BY <2>1 DEF TypeOK, LoadInv, Loaded
      <4>2. d \notin Walk[e] /\ kids'[e] = kids[e]
        BY <2>2, <3>2, <4>1 DEF Below, Outside
      <4>3. CASE kids[e] = server \cap Under(e)
        BY <2>1, <4>2, <4>3 DEF Full
      <4>4. ASSUME NEW k \in DOMAIN fetches, fetches[k].path = e PROVE Full(e)'
        BY <2>3, <3>2, <4>4 DEF Full
      <4> QED
        BY <2>4, <4>3, <4>4 DEF Full
    <3> QED
      BY <3>1, <3>2
  <2> QED
    BY <2>1, <2>5, <2>6
<1>15. CASE Look \/ ShowFolderHistory \/ UNCHANGED vars
  BY <1>4, <1>15 DEF Look, TimerFires, RenderHistory, ShowFolderHistory, vars, view
<1> QED
  BY <1>2, <1>3, <1>5, <1>6, <1>7, <1>9, <1>10, <1>11, <1>12, <1>13, <1>14, <1>15
     DEF Next, User, Load, Act

\* In a tree that was at rest when it was refreshed or searched, a folder that is open
\* and not loading shows what the server has (P4Tree.refresh_root, P4Tree._populate):
\* none "lands as an empty node".
THEOREM FoldersFilled == Spec => []OpenFoldersAreFilled
<1>1. Init => ListInv
  BY DEF Init, ListInv, Brought
<1>2. TypeOK /\ TreeInv /\ LoadInv /\ ListInv /\ [Next]_vars => ListInv'
  BY ListNext
<1>3. LoadInv /\ ListInv => OpenFoldersAreFilled
  <2> SUFFICES ASSUME LoadInv, ListInv, tidy, Quiet, edits = 0, NEW d \in open \cap Live(kids)
               PROVE  kids[d] = server \cap Under(d)
    BY DEF OpenFoldersAreFilled, Listed
  <2>1. events = {} /\ DOMAIN fetches = {}
    BY DEF Quiet
  <2> QED
    BY <2>1 DEF LoadInv, Opened, ListInv, Full
<1> QED
  BY <1>1, <1>2, <1>3, TypeCorrect, TreeCorrect, LoadCorrect, PTL DEF Spec

-----------------------------------------------------------------------------
(* Where a walk ends.                                                      *)

EndsThere ==
  tidy' /\ target # Nothing /\ target' = Nothing =>
    LET n == Deepest(kids', target)
    IN /\ n \in Visible(kids', open') => cursor' = n
       /\ n = target \/ n \in loaded'
       /\ n = target \/ \A f \in ToSet(fetches') : f.path # n

\* An answer that ends the walk is for the last node that is there, or that node was
\* answered before.
LEMMA PopulateEnds ==
  ASSUME TypeOK, TreeInv, LoadInv, NEW i \in DOMAIN fetches, Populate(i),
         tidy, target # Nothing, target' = Nothing
  PROVE  LET n == Deepest(kids', target)
         IN /\ n \in Visible(kids', open') => cursor' = n
            /\ n = target \/ n \in loaded'
            /\ n = target \/ \A f \in ToSet(fetches') : f.path # n
<1> DEFINE got == fetches[i]
           d == got.path
           K == IF got.live THEN [Cleared(d) EXCEPT ![d] = got.rows] ELSE kids
           again == got.rows \cap reopen \cap Dirs
           O == IF got.live THEN (open \ Below(d)) \cup again ELSE open
           E == (IF got.live THEN Detached(events, d) ELSE events)
                  \cup {[path |-> p, live |-> got.live] : p \in again}
           n == Deepest(kids', target)
<1>1. target \in Paths /\ loaded' = loaded /\ loaded \subseteq Paths
  BY DEF TypeOK, Populate
<1>2. \E c : /\ NavigateStep(K, O, E, c, loaded, target)
             /\ target = d \/ NextSegment(d, target) # {}
  BY DEF Populate, Stay
<1> HIDE DEF K, O, E
<1>3. /\ kids' = K /\ (n = target \/ n \in loaded)
      /\ cursor' \in Lands(n, K, O) /\ open' = O
  BY <1>1, <1>2 DEF NavigateStep
<1>4. n \in Visible(kids', open') => cursor' = n
  BY <1>3 DEF Lands
<1>5. ASSUME n # target, NEW j \in DOMAIN fetches', fetches'[j].path = n PROVE FALSE
  <2>1. PICK k \in DOMAIN fetches : k # i /\ fetches[k].path = n
    BY <1>5, Rest
  <2>2. /\ d \in Dirs /\ d \in Live(kids) /\ Live(kids) \cap Below(d) = {} /\ n # d
        /\ \A p \in Paths \ Below(d) : p \in Live(kids') <=> p \in Live(kids)
    BY <2>1, Answered DEF LoadInv, Asking
  <2>3. d \in Live(kids')
    BY <2>2, UnderBelow
  <2>4. d \in Walk[target]
    <3>1. target = d \/ NextSegment(d, target) # {}
      BY <1>2
    <3>2. \A q \in NextSegment(d, target) : d \in Walk[target]
      BY <1>1, WalkFacts DEF NextSegment
    <3> QED
      BY <1>1, <3>1, <3>2, WalkFacts
  <2>5. n \in Walk[target] /\ n \in Live(kids') /\ NextSegment(n, target) \cap Children(kids', n) = {}
    BY <1>1, DeepestIs
  <2>6. n \in loaded /\ n \in Live(kids) /\ n \in Paths
    BY <1>1, <1>3, <1>5 DEF LoadInv, Loaded
  <2>7. CASE d \in Walk[n]
    BY <2>2, <2>6, <2>7 DEF Below
  <2>8. CASE n \in Walk[d]
    <3>1. n \in Dirs /\ NextSegment(n, d) # {}
      BY <2>2, <2>8, OnTheWay
    <3>2. PICK q \in NextSegment(n, d) : TRUE
      BY <3>1
    <3>3. q \in kids'[n] /\ q \in NextSegment(n, target)
      <4>1. q \in Walk[d] \ {Root} /\ Up[q] = n /\ Walk[d] \subseteq Walk[target]
        BY <1>1, <2>4, <3>2 DEF NextSegment
      <4> QED
        BY <2>3, <4>1 DEF Live, NextSegment
    <3> QED
      BY <2>5, <3>1, <3>3 DEF Children
  <2> QED
    BY <1>1, <2>4, <2>5, <2>7, <2>8, OneWay
<1>6. \A f \in ToSet(fetches') : \E j \in DOMAIN fetches' : f = fetches'[j]
  BY DEF ToSet
<1> QED
  BY <1>1, <1>3, <1>4, <1>5, <1>6

\* A walk ends on the path or on a folder that is listed and has no way on
\* (P4Tree.navigate_to_path: "the deepest reachable ancestor").
THEOREM WalkEndsWell == Spec => WalkEndsThere
<1>1. TypeOK /\ TreeInv /\ LoadInv /\ [Next]_vars => [EndsThere]_vars
  <2> SUFFICES ASSUME TypeOK, TreeInv, LoadInv, Next, tidy', target # Nothing, target' = Nothing
               PROVE  LET n == Deepest(kids', target)
                      IN /\ n \in Visible(kids', open') => cursor' = n
                         /\ n = target \/ n \in loaded'
                         /\ n = target \/ \A f \in ToSet(fetches') : f.path # n
    BY DEF EndsThere
  <2>1. ASSUME RefreshRoot PROVE FALSE
    BY <2>1 DEF TypeOK, RefreshRoot
  <2>2. ASSUME UNCHANGED target PROVE FALSE
    BY <2>2
  <2>3. ASSUME NavigateToPath PROVE FALSE
    <3>1. tidy' = (tidy /\ Quiet)
      BY <2>3 DEF NavigateToPath
    <3>2. tidy /\ events = {} /\ fetches = <<>>
      <4>1. tidy /\ Quiet
        BY <3>1, Zenon
      <4> QED
        BY <4>1 DEF Quiet
    <3>3. DOMAIN fetches = {}
      BY <3>2
    <3> QED
      BY <3>2, <3>3 DEF LoadInv, Walking, Due
  <2>4. \A i \in DOMAIN fetches : Populate(i) =>
          LET n == Deepest(kids', target)
          IN /\ n \in Visible(kids', open') => cursor' = n
             /\ n = target \/ n \in loaded'
             /\ n = target \/ \A f \in ToSet(fetches') : f.path # n
    BY PopulateEnds DEF Populate
  <2>5. CASE User
    BY <2>1, <2>2, <2>3, <2>5
       DEF User, Refresh, Reload, ReloadNode, MoveCursor, ExpandNode, ApplyFilter, Open, CollapseNode,
           ToggleMark, RunFileAction, RunBulkAction, DropMarks, ClearMarks, walk
  <2>6. CASE Load
    BY <2>2, <2>4, <2>6 DEF Load, Expanded, FetchNodeData, walk
  <2>7. CASE Act \/ ServerChanges \/ Look \/ ShowFolderHistory
    BY <2>1, <2>2, <2>7
       DEF Act, RefreshAfterAction, ReloadNode, ActionFails, ServerChanges, Look, TimerFires, RenderHistory,
           ShowFolderHistory, walk
  <2> QED
    BY <2>5, <2>6, <2>7 DEF Next
<1> QED
  BY <1>1, TypeCorrect, TreeCorrect, LoadCorrect, PTL DEF Spec, WalkEndsThere, EndsThere

==============================================================================
