------------------------------ MODULE BulkJobs ------------------------------
(***************************************************************************)
(* The bulk jobs of p4v_tui/bulk_jobs.py (revert, reconcile, clean), the     *)
(* batches of p4v_tui/chunking.py they are cut into, and the dialogs of      *)
(* p4v_tui/app.py that start them.  A reconcile or clean is picked from a    *)
(* dry run; between the dry run and the last chunk the user goes on editing  *)
(* the workspace.  What the server does to a file stands for                 *)
(* p4 reconcile, clean and revert.                                           *)
(***************************************************************************)
EXTENDS Integers, SequencesExt

CONSTANTS
  Files,       \* the files below the target
  Dirs,        \* the subdirectories of the target
  Top,         \* the target itself
  Dir,         \* Dir[f]: the subdirectory f is in, or Top
  Size,        \* Size[f]: fileSize of f
  Strategies,  \* the chunking strategies that may be configured
  DefaultBatch, \* DEFAULT_BATCH_SIZE
  MaxEdits     \* bound: edits of the user after the job was asked for

\* Of the constants.
BulkAssumption ==
  /\ IsFiniteSet(Files) /\ Top \notin Dirs /\ Dir \in [Files -> Dirs \cup {Top}]
  /\ Size \in [Files -> Nat]
  /\ Strategies \subseteq [mode : {"count", "size", "single", "subdir"},
                           files : Nat \ {0}, bytes : Nat \ {0}]
  /\ DefaultBatch \in Nat \ {0} /\ MaxEdits \in Nat

VARIABLES
  local,    \* local[f]: the file on disk, as it differs from the depot
  opened,   \* the files opened for edit, add or delete
  pc,       \* where the dialog or the job is
  op,       \* "reconcile", "clean" or "revert"
  strategy, \* the chunking strategy of the job
  preview,  \* entries: what the dry run listed
  picked,   \* selected: what the user left checked
  pending,  \* _pending, _files or _pending_dirs: what is left to do
  sizes,    \* _sizes: the files whose size is known
  total,    \* total_chunks
  done,     \* done_chunks
  target,   \* history: the files the job has taken on
  handled,  \* history: the files a chunk was run for
  wiped,    \* history: the files whose local changes were discarded
  edits     \* number of edits

space  == <<local, opened>>
dialog == <<op, strategy, preview, picked>>
job    == <<pending, sizes, total, done>>
hist   == <<target, handled, wiped>>
vars   == <<space, pc, dialog, job, hist, edits>>

\* absent: neither on disk nor in the depot.
LocalStates == {"same", "edited", "missing", "unknown", "absent"}
InDepot(f)  == local[f] \in {"same", "edited", "missing"}
Differs     == {f \in Files : local[f] \in {"edited", "missing", "unknown"}}
BulkPC == {"idle", "picker", "confirm", "queued", "running", "done", "failed"}

\* An item of pending is a file or a path below which everything is meant.
Items == Files \cup Dirs \cup {Top}

\* Reconcile and clean coerce every mode to "subdir"; the job on explicit files
\* has a strategy of its own.
BySubdir  == [mode |-> "subdir", files |-> 50, bytes |-> 50 * 1024 * 1024]
ByDefault == [mode |-> "count", files |-> DefaultBatch, bytes |-> 50 * 1024 * 1024]

\* The types, and that no job runs on for ever: a chunk for every item is enough.
TypeOK ==
  /\ local \in [Files -> LocalStates] /\ opened \subseteq Files
  /\ pc \in BulkPC /\ op \in {"reconcile", "clean", "revert"}
  /\ strategy \in Strategies \cup {BySubdir, ByDefault}
  /\ preview \subseteq Files /\ picked \subseteq preview
  /\ pending \in Seq(Items) /\ sizes \subseteq Files
  /\ total \in Nat /\ done \in 0..(Cardinality(Files) + 2)
  /\ target \subseteq Files /\ handled \subseteq Files /\ wiped \subseteq Files
  /\ edits \in 0..MaxEdits

Init ==
  /\ local \in [Files -> {"same", "edited", "unknown"}]
  /\ opened \in SUBSET Differs
  /\ pc = "idle" /\ op \in {"reconcile", "clean", "revert"}
  /\ strategy = BySubdir
  /\ preview = {} /\ picked = {} /\ pending = <<>> /\ sizes = {}
  /\ total = 0 /\ done = 0
  /\ target = {} /\ handled = {} /\ wiped = {} /\ edits = 0

-----------------------------------------------------------------------------
(* chunking.py.                                                            *)

MinNat(a, b) == IF a < b THEN a ELSE b

\* size_lookup, where the sizes of the files in K could be fetched.
SizeOf(K, f) == IF f \in K THEN Size[f] ELSE 0
Weight(s) == FoldLeft(LAMBDA w, f : w + SizeOf(sizes, f), 0, s)

\* "size" falls back to "count" where there is no look-up, and so does "subdir".
BySize == strategy.mode = "size" /\ op = "revert"

\* How many files the next batch of the sequence s takes: a file that is over
\* the budget goes alone.
BatchLength(s) ==
  CASE strategy.mode = "single" -> 1
    [] BySize -> CHOOSE k \in 1..Len(s) :
                   /\ k = 1 \/ ~(Weight(SubSeq(s, 1, k)) > strategy.bytes)
                   /\ k = Len(s) \/ Weight(SubSeq(s, 1, k + 1)) > strategy.bytes
    [] OTHER -> MinNat(strategy.files, Len(s))

\* Mutant of Rest: the first file of the rest is lost when a batch is full.
RestSkipsOne(s) == SubSeq(s, BatchLength(s) + 2, Len(s))

Rest(s) == SubSeq(s, BatchLength(s) + 1, Len(s))

CeilDiv(n, d) == (n + d - 1) \div d

Overflows(running, size) == running + size > strategy.bytes

\* estimate_chunk_count: one pass over the sizes, without the batches; the first
\* file of a chunk is never over the budget.
EstimateChunks(s, K) ==
  LET Step(e, f) ==
        IF e.open /\ Overflows(e.running, SizeOf(K, f))
        THEN [e EXCEPT !.chunks = @ + 1, !.running = SizeOf(K, f)]
        ELSE [e EXCEPT !.running = @ + SizeOf(K, f), !.open = TRUE]
  IN CASE s = <<>> -> 0
       [] s # <<>> /\ strategy.mode = "single" -> Len(s)
       [] s # <<>> /\ BySize ->
            FoldLeft(Step, [chunks |-> 1, running |-> 0, open |-> FALSE], s).chunks
       [] OTHER -> CeilDiv(Len(s), strategy.files)

-----------------------------------------------------------------------------
(* The server.                                                             *)

\* p4 reconcile and clean look only at files that are not opened.
Listed == Differs \ opened

\* The files an item stands for.
Below(i) == IF i \in Files THEN {i}
            ELSE IF i = Top THEN Files ELSE {f \in Files : Dir[f] = i}

Reconcile(S) ==
  /\ opened' = opened \cup (S \cap Listed)
  /\ UNCHANGED <<local, wiped>>

Restored(f) == IF local[f] = "unknown" THEN "absent" ELSE "same"

Clean(S) ==
  /\ local' = [f \in Files |-> IF f \in S \cap Listed THEN Restored(f) ELSE local[f]]
  /\ wiped' = wiped \cup {f \in S \cap Listed : local[f] # "missing"}
  /\ UNCHANGED opened

\* A file opened for add is left on disk.
Revert(S) ==
  /\ opened' = opened \ S
  /\ local' = [f \in Files |-> IF f \in S \cap opened /\ InDepot(f) THEN "same" ELSE local[f]]
  /\ wiped' = wiped \cup {f \in S \cap opened : local[f] = "edited"}

Run(S) ==
  /\ CASE op = "reconcile" -> Reconcile(S)
       [] op = "clean"     -> Clean(S)
       [] op = "revert"    -> Revert(S)
  /\ handled' = handled \cup S

\* p4 dirs lists the subdirectories that have files in the depot.
DepotDirs == {d \in Dirs : \E f \in Files : Dir[f] = d /\ InDepot(f)}

-----------------------------------------------------------------------------
(* The dialogs.                                                            *)

\* reconcile -n or clean -n; nothing opens when nothing is listed.
OpenPreview ==
  /\ pc = "idle" /\ op # "revert" /\ Listed # {}
  /\ preview' = Listed
  /\ pc' = "picker"
  /\ UNCHANGED <<space, op, strategy, picked, job, hist, edits>>

Whole == picked = preview

\* A clean is confirmed once more; Escape leaves the picker.
Pick ==
  /\ pc = "picker"
  /\ \/ /\ picked' \in (SUBSET preview) \ {{}}
        /\ pc' = IF op = "clean" THEN "confirm" ELSE "queued"
        /\ UNCHANGED preview
     \/ /\ pc' = "idle" /\ preview' = {} /\ UNCHANGED picked
  /\ UNCHANGED <<space, op, strategy, job, hist, edits>>

AskRevert ==
  /\ pc = "idle" /\ op = "revert"
  /\ strategy' \in Strategies
  /\ pc' = "confirm"
  /\ UNCHANGED <<space, op, preview, picked, job, hist, edits>>

Confirm ==
  /\ pc = "confirm"
  /\ \/ pc' = "queued" /\ UNCHANGED <<preview, picked>>
     \/ pc' = "idle" /\ preview' = {} /\ picked' = {}
  /\ UNCHANGED <<space, op, strategy, job, hist, edits>>

-----------------------------------------------------------------------------
(* The jobs.                                                               *)

\* Mutant of Explicit: a picked part is run over the whole target as well.
NeverExplicit == FALSE

\* A subset of the dry run goes to the explicit-files job, all of it to the job
\* that walks the subdirectories.
Explicit == op # "revert" /\ ~Whole

\* The explicit job is constructed with its batches.
StartExplicit ==
  /\ pc = "queued" /\ Explicit
  /\ pc' = "running"
  /\ pending' = SetToSeq(picked)
  /\ strategy' = ByDefault
  /\ total' = CeilDiv(Cardinality(picked), DefaultBatch)
  /\ target' = picked
  /\ UNCHANGED <<space, op, preview, picked, sizes, done, handled, wiped, edits>>

\* _enumerate of the revert job.  Sizes are fetched for "size" only, and the
\* files of a batch of fstat that fails have none.
EnumerateOpened ==
  /\ pc = "queued" /\ op = "revert"
  /\ target' \in {opened, {}}
  /\ pending' = SetToSeq(target')
  /\ sizes' \in IF strategy.mode = "size" THEN SUBSET target' ELSE {{}}
  /\ total' = 1 + EstimateChunks(pending', sizes')
  /\ done' = 1
  /\ pc' = "running"
  /\ UNCHANGED <<space, dialog, handled, wiped, edits>>

\* _enumerate of the subdirectory job: the target itself where p4 dirs lists
\* nothing or fails.
EnumerateDirs ==
  /\ pc = "queued" /\ op # "revert" /\ ~Explicit
  /\ \E listed \in {DepotDirs, {}} :
       pending' = IF listed = {} THEN <<Top>> ELSE SetToSeq(listed)
  /\ total' = 1 + Len(pending')
  /\ done' = 1
  /\ target' = picked
  /\ pc' = "running"
  /\ UNCHANGED <<space, dialog, sizes, handled, wiped, edits>>

Walks == op # "revert" /\ ~Explicit

\* One chunk: a batch of files, or one subdirectory.
RunChunk ==
  /\ pc = "running" /\ pending # <<>>
  /\ IF Walks
     THEN Run(Below(Head(pending))) /\ pending' = Tail(pending)
     ELSE /\ Run(ToSet(SubSeq(pending, 1, BatchLength(pending))))
          /\ pending' = Rest(pending)
  /\ done' = done + 1
  /\ UNCHANGED <<pc, dialog, sizes, total, target, edits>>

\* The command raises something that is not one of _BENIGN_FRAGMENTS.
ChunkFails ==
  /\ pc = "running" /\ pending # <<>>
  /\ pc' = "failed"
  /\ UNCHANGED <<space, dialog, job, hist, edits>>

\* "no file(s) to reconcile": the chunk is skipped.  It is answered when none of
\* its files is listed, which Run leaves as they are.
Finish ==
  /\ pc = "running" /\ pending = <<>>
  /\ pc' = "done"
  /\ UNCHANGED <<space, dialog, job, hist, edits>>

-----------------------------------------------------------------------------
(* The user, at work in an editor.                                         *)

Edit(f) ==
  /\ edits < MaxEdits /\ pc \notin {"idle", "done", "failed"}
  /\ edits' = edits + 1
  /\ local' \in {[local EXCEPT ![f] = l] :
                   l \in IF InDepot(f) THEN {"edited", "missing"} ELSE {"unknown"}}
  /\ UNCHANGED <<opened, pc, dialog, job, hist>>

Next ==
  \/ OpenPreview \/ Pick \/ AskRevert \/ Confirm
  \/ StartExplicit \/ EnumerateOpened \/ EnumerateDirs
  \/ RunChunk \/ ChunkFails \/ Finish
  \/ \E f \in Files : Edit(f)
  \/ pc \in {"idle", "done", "failed"} /\ UNCHANGED vars

Spec == Init /\ [][Next]_vars

-----------------------------------------------------------------------------
(* Properties.                                                             *)

\* A job on part of the dry run discards local changes of the picked files only,
\* whatever the user does to the others before and between the chunks.
PickedIsWiped == op = "clean" /\ ~Whole => wiped \subseteq picked

\* A job that ends as done has run a chunk for every file it had taken on: the
\* batches lose no file, in every mode, also with sizes that are not known.
\* The walk over subdirectories does not: files that are directly in the target
\* are in none of them, and a subdirectory with no file in the depot is not listed.
DoneIsHandled == pc = "done" /\ ~Walks => target \subseteq handled
==============================================================================
