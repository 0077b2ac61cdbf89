-------------------------------- MODULE Merge3 --------------------------------
(***************************************************************************)
(* The conflict markers of p4 resolve -af and the merge of p4v_tui/merge3.py *)
(* and widgets/merge_editor_modal.py: a text with markers is parsed into     *)
(* common lines and conflicts, and put together again from one choice per    *)
(* conflict.  Beside it stands what the server knows: the chunks of the      *)
(* three-way merge, from which it writes the markers.                        *)
(***************************************************************************)
EXTENDS Naturals, Sequences, SequencesExt

\* A line that begins with a marker has it as mark, and its second word as word; the
\* one of equal signs is written shorter here.
Line(w)    == [mark |-> "", word |-> w]
Mark(m, l) == [mark |-> m, word |-> l]

-----------------------------------------------------------------------------
(* The server: a chunk is what the three sides have in one place.          *)

Same(l)          == [base |-> l, theirs |-> l, yours |-> l]
Conflicting(k)   == k.yours # k.theirs /\ k.yours # k.base /\ k.theirs # k.base
Automatic(k)     == IF k.yours = k.base THEN k.theirs ELSE k.yours
Clean(chunks)    == \A i \in DOMAIN chunks : ~Conflicting(chunks[i])

\* Number of conflicts among the first i chunks.
Conflicts(chunks, i) == Cardinality({j \in 1..i : Conflicting(chunks[j])})

\* A side as it was checked in, or as it is in the workspace.
Side(chunks, side) == FlattenSeq([i \in DOMAIN chunks |-> chunks[i][side]])

Joined(chunks, Part(_)) == FlattenSeq([i \in DOMAIN chunks |->
  IF Conflicting(chunks[i]) THEN Part(i) ELSE Automatic(chunks[i])])

Marked(chunks) ==
  Joined(chunks, LAMBDA i : <<Mark(">>>>", "ORIGINAL")>> \o chunks[i].base
                         \o <<Mark("==", "THEIRS")>> \o chunks[i].theirs
                         \o <<Mark("==", "YOURS")>> \o chunks[i].yours
                         \o <<Mark("<<<<", "")>>)

HasMarkers(text) == \E i \in DOMAIN text : text[i].mark # ""

\* What a merge with a choice for each of the conflicts must come to.
Chosen3(k, choice) ==
  CASE choice = "both" -> k.yours \o k.theirs
    [] choice \in {"yours", "theirs", "base"} -> k[choice]

Merged(chunks, choices) ==
  Joined(chunks, LAMBDA i : Chosen3(chunks[i], choices[Conflicts(chunks, i)]))

-----------------------------------------------------------------------------
(* merge3.py.                                                              *)

\* Labelled sections, the last one of a label; the first three when none is known.
MakeConflict(sections) ==
  LET Named(l) == {i \in DOMAIN sections : sections[i].label = l}
      Labelled(l) == IF Named(l) = {} THEN <<>> ELSE sections[Max(Named(l))].lines
      Nth(i) == IF i <= Len(sections) THEN sections[i].lines ELSE <<>> IN
  IF \E i \in DOMAIN sections : sections[i].label \in {"ORIGINAL", "THEIRS", "YOURS"}
  THEN [kind |-> "conflict", base |-> Labelled("ORIGINAL"), theirs |-> Labelled("THEIRS"),
        yours |-> Labelled("YOURS")]
  ELSE [kind |-> "conflict", base |-> Nth(1), theirs |-> Nth(2), yours |-> Nth(3)]

\* The parser between two lines: inside a conflict its sections are collected.
Start == [segs |-> <<>>, inside |-> FALSE, sections |-> <<>>, label |-> "", buf |-> <<>>]

Flushed(p) ==
  IF p.buf = <<>> THEN p.segs ELSE Append(p.segs, [kind |-> "common", lines |-> p.buf])
Sections(p) == Append(p.sections, [label |-> p.label, lines |-> p.buf])
Conflict(p) == Append(p.segs, MakeConflict(Sections(p)))

Next3(p, line) ==
  CASE ~p.inside /\ line.mark = ">>>>" ->
         [segs |-> Flushed(p), inside |-> TRUE, sections |-> <<>>, label |-> line.word, buf |-> <<>>]
    [] p.inside /\ line.mark = "<<<<" -> [Start EXCEPT !.segs = Conflict(p)]
    [] p.inside /\ line.mark = "==" ->
         [p EXCEPT !.sections = Sections(p), !.label = line.word, !.buf = <<>>]
    [] OTHER -> [p EXCEPT !.buf = Append(@, line)]

\* Mutant of Parse: the text after the last conflict is lost.
ParseToLast(text) ==
  LET p == FoldLeft(Next3, Start, text) IN IF p.inside THEN Conflict(p) ELSE p.segs

Parse(text) ==
  LET p == FoldLeft(Next3, Start, text) IN IF p.inside THEN Conflict(p) ELSE Flushed(p)

IsConflict(seg) == seg.kind = "conflict"
Hunks(segs)     == {i \in DOMAIN segs : IsConflict(segs[i])}

HunkLines(c, choice) ==
  CASE choice = "theirs" -> c.theirs
    [] choice = "base" -> c.base
    [] choice = "both" -> c.yours \o c.theirs
    [] OTHER -> c.yours

\* One more segment, with what was put together and the number of the next hunk; a
\* missing choice is "yours".
Add(choices, r, seg) ==
  IF ~IsConflict(seg) THEN [r EXCEPT !.out = @ \o seg.lines]
  ELSE [out |-> r.out \o HunkLines(seg, IF r.n <= Len(choices) THEN choices[r.n] ELSE "yours"),
        n |-> r.n + 1]

Reconstruct(segs, choices) ==
  FoldLeft(LAMBDA r, seg : Add(choices, r, seg), [out |-> <<>>, n |-> 1], segs).out

\* The merge editor begins with "yours" for every hunk; every key sets the
\* choice of the highlighted one.
EditorChoices(segs) == [1..Cardinality(Hunks(segs)) -> {"yours", "theirs", "base", "both"}]
===============================================================================
