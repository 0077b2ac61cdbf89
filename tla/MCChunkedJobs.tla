----------------------------- MODULE MCChunkedJobs -----------------------------
(***************************************************************************)
(* The chunked jobs on the workspace for TLC: resumable syncs (SyncJob) and   *)
(* bulk reconcile, clean and revert (BulkJobs).  They are looked at one at a  *)
(* time: in each behaviour one of them begins where nothing can happen in it  *)
(* any more.                                                               *)
(***************************************************************************)
EXTENDS SyncJob, TLC

CONSTANTS
  f1, f2, all, sub,
  BulkFiles, Dirs, Top, Dir, Size, Strategies, DefaultBatch, MaxEdits

VARIABLES
  disk, opened, place, op, strategy, preview, picked, queue, sizes, total, done, target,
  handled, wiped, edits

bulkVars == <<disk, opened, place, op, strategy, preview, picked, queue, sizes, total, done,
              target, handled, wiped, edits>>

B == INSTANCE BulkJobs WITH
       Files <- BulkFiles, local <- disk, pc <- place, pending <- queue

ASSUME BulkJobsAssumption == B!BulkAssumption

\* A directory and one inside it.
Nested   == (all :> {f1, f2}) @@ (sub :> {f1})
Symmetry == Permutations(Jobs)

\* One file directly in the target, three in two subdirectories.
FourFiles == {"a", "b", "c", "d"}
TwoDirs   == {"x", "y"}
DirOf     == [f \in FourFiles |-> CASE f = "a" -> "target" [] f = "d" -> "y" [] OTHER -> "x"]
SizeTable == [f \in FourFiles |-> CASE f = "a" -> 2 [] f = "b" -> 0 [] f = "c" -> 3 [] OTHER -> 1]

AllStrategies ==
  {[mode |-> m, files |-> 3, bytes |-> 2] : m \in {"count", "size", "single", "subdir"}}

NothingToSync ==
  /\ head = [f \in Files |-> 1] /\ have = head /\ local = head /\ saved = [k \in Keys |-> NoFile]
  /\ pc = [j \in Jobs |-> "done"] /\ key \in [Jobs -> {[target |-> all, force |-> FALSE]}]
  /\ pending = [j \in Jobs |-> {}] /\ completed = pending /\ batch = pending
  /\ goal = [j \in Jobs |-> head] /\ submits = MaxSubmits /\ crashes = MaxCrashes

NothingInBulk ==
  /\ disk = [f \in BulkFiles |-> "same"] /\ opened = {} /\ place = "failed" /\ op = "revert"
  /\ strategy = B!BySubdir /\ preview = {} /\ picked = {} /\ queue = <<>> /\ sizes = {}
  /\ total = 0 /\ done = 0 /\ target = {} /\ handled = {} /\ wiped = {} /\ edits = 0

OneInit == (Init /\ NothingInBulk) \/ (B!Init /\ NothingToSync)

OneNext ==
  \/ Next /\ UNCHANGED bulkVars
  \/ B!Next /\ UNCHANGED vars

OneSpec == OneInit /\ [][OneNext]_<<vars, bulkVars>>

\* A clean of part of the dry run discards local changes of the picked files only
\* (bulk_jobs.py, ChunkedReconcileJob).
PickedIsWiped == B!PickedIsWiped

\* A bulk job that ends as done has run a chunk for every file it had taken on
\* (bulk_jobs.py and chunking.py).
DoneIsHandled == B!DoneIsHandled
===============================================================================
