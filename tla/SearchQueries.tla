---------------------------- MODULE SearchQueries ----------------------------
(***************************************************************************)
(* The answers of Fast Search (p4v_tui/search_index.py, the queries, and       *)
(* p4v_tui/widgets/search_modal.py, how a typed query is taken apart).  A path *)
(* and what the user types are sequences of words; a substring of a path is a  *)
(* run of its words.                                                        *)
(***************************************************************************)
EXTENDS Naturals, Integers, Sequences, FiniteSets, SequencesExt

CONSTANTS
  Files,    \* the rows of the index
  Row,      \* [dir, name, user, type, time, gone] of each: name is the leaf
  Logs,     \* the changelists of the server
  Log,      \* [words, user, time] of each
  Typos,    \* pairs of a query and a leaf that are two edits apart at most
  Queries   \* what may be typed: [mode, words, user, type, regex, cls,
            \* since, until]

Modes == {"plain", "grep", "cl", "nl"}

ASSUME SearchQueriesAssumption ==
  /\ IsFiniteSet(Files) /\ IsFiniteSet(Logs) /\ Files \cap Logs = {}
  /\ \A f \in Files : Row[f].time \in Int
  /\ \A f, g \in Files : Row[f].time = Row[g].time => f = g
  /\ \A c \in Logs : Log[c].time \in Int
  /\ \A c, d \in Logs : Log[c].time = Log[d].time => c = d
  /\ \A q \in Queries : q.mode \in Modes

\* The first n of a sequence.
First(n, s) == SubSeq(s, 1, IF n < Len(s) THEN n ELSE Len(s))

\* The members of S, each behind those that go before it.
InOrder(S, before(_, _)) ==
  [i \in 1..Cardinality(S) |-> CHOOSE f \in S : Cardinality({g \in S : before(g, f)}) = i - 1]

\* Words in a row, as a substring is in a path.
InARow(s, words) ==
  \E i \in 0..(Len(s) - Len(words)) : \A j \in DOMAIN words : s[i + j] = words[j]

Path(f) == Row[f].dir \o Row[f].name

\* Files that are gone at the head are left out, the rows of older indexes too.
Shown == {f \in Files : ~Row[f].gone}

\* The n newest rows, which is as far as the database looks.
Slab(S, n) == {f \in S : Cardinality({g \in S : Row[g].time > Row[f].time}) < n}

\* Higher ranks first, then the newer file.
Ranked(S, rank(_), limit) ==
  First(limit, InOrder(S, LAMBDA f, g :
    rank(f) > rank(g) \/ (rank(f) = rank(g) /\ Row[f].time > Row[g].time)))

\* Strict: the words in a row, and rather in the name than in the folder.
InLeaf(words, f) == IF words # <<>> /\ InARow(Row[f].name, words) THEN 1 ELSE 0
LeafFirst(S, words, limit) == Ranked(S, LAMBDA f : InLeaf(words, f), limit)

QueryFiles(words, limit) ==
  IF words = <<>> THEN <<>>
  ELSE LeafFirst(Slab({f \in Shown : InARow(Path(f), words)}, 5 * limit), words, limit)

\* Loose: every word somewhere, and rather more of them in the name.
LeafHits(words, f) == Cardinality({i \in DOMAIN words : InARow(Row[f].name, <<words[i]>>)})
MostHits(S, words, limit) == Ranked(S, LAMBDA f : LeafHits(words, f), limit)

QueryFilesLoose(words, limit) ==
  IF words = <<>> THEN <<>>
  ELSE MostHits(Slab({f \in Shown : ToSet(words) \subseteq ToSet(Path(f))}, 5 * limit), words, limit)

\* With a filter; the regular expression is tried on the rows of the slab.
QueryFilesFiltered(q, limit) ==
  LET rows == {f \in Shown : /\ InARow(Path(f), q.words)
                             /\ q.user # "" => Row[f].user = q.user
                             /\ q.type # "" => Row[f].type = q.type}
  IN LeafFirst({f \in Slab(rows, 3 * limit) : q.regex # <<>> => InARow(Path(f), q.regex)},
               q.words, limit)

\* "Did you mean": the names within two edits, of deleted files too.
SuggestCorrections(words) == {Row[f].name : f \in Files} \cap {t[2] : t \in {u \in Typos : u[1] = words}}

\* Changelists, the newest first.
Latest(S) == InOrder(S, LAMBDA c, d : Log[c].time > Log[d].time)

\* The changelists with these words in their descriptions.
QueryChanges(words, known, limit) ==
  IF words = <<>> THEN <<>>
  ELSE First(limit, Latest({c \in known : InARow(Log[c].words, words)}))

\* A natural-language query asks for files or for changelists of a user and a time.
InWindow(q, time) == (q.since # 0 => time >= q.since) /\ (q.until # 0 => time <= q.until)

Filtered(q) == q.user # "" \/ q.type # "" \/ q.regex # <<>>

\* The ladder: strict, loose, corrections.
Files1(q, limit) ==
  IF Filtered(q) THEN QueryFilesFiltered(q, limit)
  ELSE LET strict == QueryFiles(q.words, limit)
       IN IF strict # <<>> THEN strict ELSE QueryFilesLoose(q.words, limit)

Suggested(q, limit) ==
  IF q.mode = "plain" /\ ~Filtered(q) /\ Files1(q, limit) = <<>>
  THEN SuggestCorrections(q.words) ELSE {}

\* Changelists that are not in the index are fetched once none is found.
Seeds(q, known, limit) ==
  (q.mode = "nl" \/ q.words # <<>>) /\ QueryChanges(q.words, known, limit) = <<>>

Changelists1(q, known, limit) ==
  QueryChanges(q.words, IF Seeds(q, known, limit) THEN Logs ELSE known, limit)

\* Of the files and the changelists found for a natural-language query, those that
\* its user and its time let through, in the same order.
NlFiles(q, limit) ==
  LET found == QueryFilesFiltered([q EXCEPT !.regex = <<>>], limit)
  IN LeafFirst({f \in Files : f \in ToSet(found) /\ InWindow(q, Row[f].time)}, q.words, limit)

NlChangelists(q, known, limit) ==
  LET found == Changelists1(q, known, limit)
  IN Latest({c \in Logs : /\ c \in ToSet(found) /\ InWindow(q, Log[c].time)
                          /\ q.user # "" => Log[c].user = q.user})

\* The whole answer; a grep comes row by row.
Answer(q, known, limit) ==
  CASE q.mode = "plain" -> Files1(q, limit)
    [] q.mode = "cl"    -> Changelists1(q, known, limit)
    [] q.mode = "nl"    -> IF q.cls THEN NlChangelists(q, known, limit) ELSE NlFiles(q, limit)
    [] OTHER            -> <<>>
==============================================================================
