-------------------------------- MODULE Merges --------------------------------
(***************************************************************************)
(* Resolving (widgets/resolve_modal.py, and the merges of p4v_tui/app.py):   *)
(* an integrate or an unshelve leaves an opened file to be resolved, the     *)
(* Resolve dialog accepts it one way or another, and a conflict is merged by *)
(* hand in the editor of the program or in another tool.  A merge by hand    *)
(* lets the server write conflict markers into the file and puts a text      *)
(* without markers there afterwards, while the dialog, other merges, reverts *)
(* and a queued submit go on.  The files are those of one changelist.        *)
(***************************************************************************)
EXTENDS Merge3, FiniteSets

CONSTANTS
  Files,
  Cases,    \* the three-way merges a file may need
  Mergers,  \* workers that merge a file by hand
  MaxAsked, \* bound: files given a merge, and Resolve dialogs opened
  Nothing   \* no file and no text

Texts == Seq([mark : {""}, word : STRING])

\* Of the constants.
MergesAssumption ==
  /\ MaxAsked \in Nat
  /\ Cases \subseteq Seq([base : Texts, theirs : Texts, yours : Texts]) \ {<<>>}
  /\ Nothing \notin Files /\ Nothing \notin Seq([mark : STRING, word : STRING])

VARIABLES
  opened,    \* the opened files
  chunks,    \* chunks[f]: the merge of f, resolved or not; empty if it has none
  due,       \* those that are not resolved
  text,      \* text[f]: what f holds in the workspace
  queued,    \* a submit of the changelist waits for the job runner
  dialog,    \* the Resolve dialog
  asked,     \* number of files given a merge, and of Resolve dialogs opened
  batch,     \* the p4 commands that Run of the dialog has left to do
  merger,    \* merger[m]: the merge by hand of worker m
  told,      \* history: told[f], the text the user was told a merge by hand left
  disturbed  \* history: files with two resolves, or a failing one, at a time

resolves == <<chunks, due, text>>
merging  == <<merger, told, disturbed>>
vars     == <<opened, queued, resolves, merging, dialog, asked, batch>>

\* The worker holds the snapshot, the parsed text and what to write; history:
\* before is what the file held when the merge was asked for, meant what it shall
\* hold at the end.
Idle    == [pc |-> "idle", file |-> Nothing, snapshot |-> Nothing, segs |-> <<>>,
            out |-> Nothing, before |-> Nothing, meant |-> Nothing]
Closed  == [pc |-> "closed", scope |-> {}, force |-> FALSE, submit |-> FALSE, rows |-> {}]
NoBatch == [todo |-> <<>>, force |-> FALSE]

\* What each way to resolve a file leaves in it.
Yours     == [k \in Cases |-> Side(k, "yours")]
Theirs    == [k \in Cases |-> Side(k, "theirs")]
Auto      == [k \in Cases |-> Merged(k, <<>>)]
Markers   == [k \in Cases |-> Marked(k)]
Mergeable == {k \in Cases : Clean(k)}

Init ==
  /\ opened \in SUBSET Files /\ due = {}
  /\ chunks = [f \in Files |-> <<>>] /\ text = [f \in Files |-> <<>>]
  /\ queued = FALSE /\ dialog = Closed /\ asked = 0 /\ batch = NoBatch
  /\ merger = [m \in Mergers |-> Idle]
  /\ told = [f \in Files |-> Nothing] /\ disturbed = {}

-----------------------------------------------------------------------------
(* Files that need a merge, and files that are closed.                     *)

Under(m, f)  == merger[m].pc # "idle" /\ merger[m].file = f
MergedNow(f) == \E m \in Mergers : Under(m, f)

Scheduled    == {f \in Files : chunks[f] # <<>>}

\* integrate, copy and unshelve open a file or take one that is opened, and leave
\* a merge if there is one.
Integrate(f) ==
  /\ f \notin Scheduled /\ asked < MaxAsked
  /\ opened' = opened \cup {f}
  /\ \E k \in Cases : chunks' = [chunks EXCEPT ![f] = k] /\ text' = [text EXCEPT ![f] = Yours[k]]
  /\ due' = due \cup {f}
  /\ disturbed' = IF MergedNow(f) THEN disturbed \cup {f} ELSE disturbed
  /\ asked' = asked + 1
  /\ UNCHANGED <<queued, merger, told, dialog, batch>>

\* A closed file has no merge any more, and its text is not looked at.
Close(S) ==
  /\ opened' = opened \ S /\ due' = due \ S
  /\ chunks' = [f \in Files |-> IF f \in S THEN <<>> ELSE chunks[f]]
  /\ text' = [f \in Files |-> IF f \in S THEN <<>> ELSE text[f]]
  /\ told' = [f \in Files |-> IF f \in S THEN Nothing ELSE told[f]]
  /\ disturbed' = (disturbed \ S) \cup {f \in S : MergedNow(f)}

Revert(f) ==
  /\ f \in opened
  /\ Close({f})
  /\ UNCHANGED <<queued, merger, dialog, asked, batch>>

\* The server refuses while a file is to be resolved.
RunSubmit ==
  /\ queued
  /\ \/ due = {} /\ Close(opened)
     \/ UNCHANGED <<opened, resolves, told, disturbed>>
  /\ queued' = FALSE
  /\ UNCHANGED <<merger, dialog, asked, batch>>

-----------------------------------------------------------------------------
(* The Resolve dialog.                                                     *)

\* resolve -n, and with -f also what was resolved before.
ToResolve(S, force) == S \cap (IF force THEN Scheduled ELSE due)

OpenDialog(S, force, submit) ==
  /\ dialog.pc = "closed" /\ asked < MaxAsked
  /\ dialog' = [Closed EXCEPT !.pc = "listing", !.scope = S, !.force = force, !.submit = submit]
  /\ asked' = asked + 1
  /\ UNCHANGED <<opened, queued, resolves, merging, batch>>

\* Resolve of a file, Submit & Resolve and Re-resolve of the changelist.
AskResolve ==
  \/ \E f \in Files : OpenDialog({f}, FALSE, FALSE)
  \/ OpenDialog(Files, FALSE, TRUE)
  \/ OpenDialog(Files, TRUE, FALSE)

\* The prompt after an integrate, a copy or an unshelve that left something.
PromptResolve == due # {} /\ OpenDialog(Files, FALSE, FALSE)

\* The list is empty when the command fails.
ListUnresolved ==
  /\ dialog.pc = "listing"
  /\ \E rows \in {ToResolve(dialog.scope, dialog.force), {}} :
       dialog' = [dialog EXCEPT !.pc = "open", !.rows = rows]
  /\ UNCHANGED <<opened, queued, resolves, merging, batch, asked>>

RefreshDialog ==
  /\ dialog.pc = "open"
  /\ dialog' = [dialog EXCEPT !.pc = "listing"]
  /\ UNCHANGED <<opened, queued, resolves, merging, batch, asked>>

\* Every file has an action, skip at first; one command for each of the others.
RunChoices ==
  /\ dialog.pc = "open" /\ batch = NoBatch
  /\ \E act \in [dialog.rows -> {"skip", "auto", "yours", "theirs"}] :
       LET Bucket(a) == [act |-> a, files |-> {f \in dialog.rows : act[f] = a}]
           todo == SelectSeq(<<Bucket("auto"), Bucket("yours"), Bucket("theirs")>>,
                             LAMBDA b : b.files # {}) IN
       /\ todo # <<>>
       /\ batch' = [todo |-> todo, force |-> dialog.force]
  /\ UNCHANGED <<opened, queued, resolves, merging, dialog, asked>>

\* resolve -am leaves a conflict as it is, -ay keeps the file, -at takes theirs.
Accepted(S, a) ==
  LET done == IF a = "auto" THEN {f \in S : chunks[f] \in Mergeable} ELSE S IN
  /\ due' = due \ done
  /\ text' = [f \in Files |->
       CASE f \in done /\ a = "auto" -> Auto[chunks[f]]
         [] f \in done /\ a = "theirs" -> Theirs[chunks[f]]
         [] OTHER -> text[f]]

\* The command of one bucket, with the -f of the list; one that fails does not
\* stop the next.  The list is made again after the last.
RunBucket ==
  /\ batch.todo # <<>>
  /\ LET b == Head(batch.todo)
         S == ToResolve(b.files, batch.force)
         rest == Tail(batch.todo) IN
     /\ \/ /\ Accepted(S, b.act)
           /\ told' = [f \in Files |-> IF f \in S THEN Nothing ELSE told[f]]
           /\ disturbed' = disturbed \cup {f \in S : MergedNow(f)}
        \/ UNCHANGED <<due, text, told, disturbed>>
     /\ batch' = IF rest = <<>> THEN NoBatch ELSE [batch EXCEPT !.todo = rest]
     /\ dialog' = [dialog EXCEPT !.pc = IF rest = <<>> /\ @ = "open" THEN "listing" ELSE @]
  /\ UNCHANGED <<opened, queued, chunks, merger, asked>>

\* Submit & Resolve goes on to ask for the submit, however the dialog was closed.
CloseDialog ==
  /\ dialog.pc # "closed"
  /\ dialog' = Closed
  /\ queued' \in IF dialog.submit THEN {TRUE, queued} ELSE {queued}
  /\ UNCHANGED <<opened, resolves, merging, batch, asked>>

\* Ctrl+E and Ctrl+T close the dialog and merge the highlighted file.
MergeHighlighted(m) ==
  /\ dialog.pc = "open" /\ ~dialog.submit /\ merger[m] = Idle
  /\ \E f \in dialog.rows :
       /\ merger' = [merger EXCEPT ![m] = [Idle EXCEPT !.pc = "auto", !.file = f, !.before = text[f]]]
       /\ told' = [told EXCEPT ![f] = Nothing]
       /\ disturbed' = IF MergedNow(f) THEN disturbed \cup {f} ELSE disturbed
  /\ dialog' = Closed
  /\ UNCHANGED <<opened, queued, resolves, batch, asked>>

-----------------------------------------------------------------------------
(* The merge of one file by hand.                                          *)

AtMerge(m, l) == merger[m].pc = l

\* Where worker m goes, and what it takes along.
Goes(m, w) == merger' = [merger EXCEPT ![m] = w]

\* resolve -am takes what merges cleanly; an error is swallowed.
MergeAuto(m) ==
  LET f == merger[m].file IN
  /\ AtMerge(m, "auto")
  /\ \/ Accepted({f} \cap due \cap opened, "auto")
     \/ UNCHANGED <<due, text>>
  /\ Goes(m, [merger[m] EXCEPT !.pc = "check"])
  /\ UNCHANGED <<opened, queued, chunks, told, disturbed, dialog, asked, batch>>

\* The local file cannot be located, nothing is left to resolve, or resolve -n
\* fails, which counts as nothing left.
MergeCheck(m) ==
  /\ AtMerge(m, "check")
  /\ \/ Goes(m, Idle)
     \/ /\ merger[m].file \in due
        /\ Goes(m, [merger[m] EXCEPT !.pc = "snapshot"])
  /\ UNCHANGED <<opened, queued, resolves, told, disturbed, dialog, asked, batch>>

MergeSnapshot(m) ==
  /\ AtMerge(m, "snapshot")
  /\ \/ Goes(m, [merger[m] EXCEPT !.pc = "force", !.snapshot = text[merger[m].file]])
     \/ Goes(m, Idle)
  /\ UNCHANGED <<opened, queued, resolves, told, disturbed, dialog, asked, batch>>

\* resolve -af writes the markers and resolves the file; one that is resolved
\* already is only a warning.
MergeForce(m) ==
  LET f == merger[m].file IN
  /\ AtMerge(m, "force")
  /\ \/ /\ due' = due \ {f}
        /\ text' = [text EXCEPT ![f] = IF f \in due THEN Markers[chunks[f]] ELSE @]
        /\ Goes(m, [merger[m] EXCEPT !.pc = "read"])
     \/ /\ Goes(m, Idle)
        /\ UNCHANGED <<due, text>>
  /\ UNCHANGED <<opened, queued, chunks, told, disturbed, dialog, asked, batch>>

\* Mutant of Restores: a cancelled merge just ends.
RestoresNothing(w) == Idle

\* The snapshot is to be written back.
Restores(w) == [w EXCEPT !.pc = "write", !.segs = <<>>, !.out = w.snapshot, !.meant = w.before]

\* The file is read again.  Without a conflict the snapshot is put back; when
\* the file cannot be read the worker ends and leaves it.
MergeRead(m) ==
  LET w == merger[m]
      segs == Parse(text[w.file]) IN
  /\ AtMerge(m, "read")
  /\ \/ /\ Goes(m, IF Hunks(segs) # {} THEN [w EXCEPT !.pc = "edit", !.segs = segs]
                   ELSE Restores(w))
        /\ UNCHANGED disturbed
     \/ /\ Goes(m, Idle)
        /\ disturbed' = disturbed \cup {w.file}
  /\ UNCHANGED <<opened, queued, resolves, told, dialog, asked, batch>>

\* The merge is applied, or cancelled, or the tool fails.  The tool is given the
\* three sides and may save anything; here it is what the editor could make too.
MergeClosed(m) ==
  LET w == merger[m] IN
  /\ AtMerge(m, "edit")
  /\ \/ \E choices \in EditorChoices(w.segs) :
          Goes(m, [w EXCEPT !.pc = "write", !.segs = <<>>, !.out = Reconstruct(w.segs, choices),
                            !.meant = Merged(chunks[w.file], choices)])
     \/ Goes(m, Restores(w))
  /\ UNCHANGED <<opened, queued, resolves, told, disturbed, dialog, asked, batch>>

\* The file is written.  Whether it could be is not looked at after a cancel.
MergeWrite(m) ==
  LET w == merger[m] IN
  /\ AtMerge(m, "write")
  /\ \/ /\ text' = [text EXCEPT ![w.file] = w.out]
        /\ told' = [told EXCEPT ![w.file] = w.meant]
        /\ UNCHANGED disturbed
     \/ /\ disturbed' = disturbed \cup {w.file}
        /\ UNCHANGED <<text, told>>
  /\ Goes(m, Idle)
  /\ UNCHANGED <<opened, queued, chunks, due, dialog, asked, batch>>

Merger(m) ==
  \/ MergeHighlighted(m) \/ MergeAuto(m) \/ MergeCheck(m) \/ MergeSnapshot(m)
  \/ MergeForce(m) \/ MergeRead(m) \/ MergeClosed(m) \/ MergeWrite(m)

Next ==
  \/ \E f \in Files : Integrate(f) \/ Revert(f)
  \/ RunSubmit
  \/ AskResolve \/ PromptResolve \/ ListUnresolved \/ RefreshDialog
  \/ RunChoices \/ RunBucket \/ CloseDialog
  \/ \E m \in Mergers : Merger(m)

Spec == Init /\ [][Next]_vars

-----------------------------------------------------------------------------
(* Properties.                                                             *)

\* The types, and that what is to be resolved is opened and has a merge.
TypeOK ==
  /\ opened \subseteq Files /\ due \subseteq opened \cap Scheduled
  /\ chunks \in [Files -> Cases \cup {<<>>}] /\ queued \in BOOLEAN
  /\ dialog.pc \in {"closed", "listing", "open"} /\ dialog.rows \subseteq Files
  /\ \A m \in Mergers : merger[m] # Idle => merger[m].file \in Files
  /\ disturbed \subseteq Files /\ asked \in 0..MaxAsked

\* A file holds conflict markers only while a merge of it is under way: however
\* the editor or the tool ends they are taken out again.  Of a file with two
\* resolves at a time, or one that cannot be read or written, it is not so.
MarkersAreTemporary ==
  \A f \in Files \ disturbed : HasMarkers(text[f]) =>
    \E m \in Mergers : Under(m, f) /\ merger[m].pc \in {"read", "edit", "write"}

\* When a merge by hand has ended, the file is resolved and holds what was chosen
\* for each of its conflicts, or what it held before when it was cancelled, until
\* the user resolves it again or it is closed.
MergeIsWhatWasChosen ==
  \A f \in Files \ disturbed : told[f] # Nothing => text[f] = told[f] /\ f \notin due
===============================================================================
