------------------------------ MODULE SyncJob ------------------------------
(***************************************************************************)
(* The chunked, resumable sync of p4v_tui/sync_job.py with the discovery of  *)
(* interrupted jobs of p4v_tui/pending_jobs.py, across crashes and restarts  *)
(* of the application.                                                       *)
(*                                                                         *)
(* The job runner executes the chunks of all jobs on one thread, so a chunk  *)
(* of one job never overlaps one of another, but a crash may come between    *)
(* any two steps.  The p4 server is modelled by the answers to sync -n and   *)
(* sync; other users may submit new revisions meanwhile.                     *)
(***************************************************************************)
EXTENDS Naturals, FiniteSets

CONSTANTS
  Files,       \* depot files
  Targets,     \* the paths that may be synced
  Under,       \* Under[g]: the files under target g
  Jobs,        \* ChunkedSyncJob objects, of all sessions
  BatchSize,   \* the most files a batch holds
  MaxSubmits,  \* bound: revisions submitted by others
  MaxCrashes,  \* bound: crashes of the application
  NoFile       \* the state file does not exist

ASSUME SyncJobAssumption ==
  /\ Under \in [Targets -> SUBSET Files]
  /\ BatchSize \in Nat \ {0}
  /\ MaxSubmits \in Nat /\ MaxCrashes \in Nat

\* The state file is chosen by the target and by force.
Keys == [target : Targets, force : BOOLEAN]

VARIABLES
  head,      \* head[f]: the revision of f in the depot
  have,      \* have[f]: the revision the server believes the workspace has
  local,     \* local[f]: the revision that is in the workspace, 0 if damaged
  saved,     \* saved[k]: the completed set of the state file, or NoFile
  pc,        \* pc[j]: where job j is
  key,       \* key[j]: its target and its force flag
  pending,   \* _pending
  completed, \* _completed
  batch,     \* the batch that job j is about to run
  goal,      \* history: goal[j][f], the head of f when j enumerated
  submits,   \* number of revisions submitted by others
  crashes    \* number of crashes

server == <<head, submits>>
space  == <<have, local>>
job    == <<key, pending, completed, batch, goal>>
vars   == <<server, space, saved, pc, job, crashes>>

\* queued: submitted, nothing run yet; ready: between two chunks; sync and
\* save: inside a batch chunk.
JobPC == {"new", "queued", "ready", "sync", "save", "done", "failed", "dropped"}
Live  == {"queued", "ready", "sync", "save"}

\* The types, and that a job has no file among the pending ones that it
\* counts as completed.
TypeOK ==
  /\ head \in [Files -> Nat] /\ have \in [Files -> Nat] /\ local \in [Files -> Nat]
  /\ saved \in [Keys -> (SUBSET Files) \cup {NoFile}]
  /\ pc \in [Jobs -> JobPC] /\ key \in [Jobs -> Keys]
  /\ pending \in [Jobs -> SUBSET Files] /\ completed \in [Jobs -> SUBSET Files]
  /\ batch \in [Jobs -> SUBSET Files]
  /\ \A j \in Jobs : pending[j] \cap completed[j] = {}
  /\ goal \in [Jobs -> [Files -> Nat]]
  /\ submits \in Nat /\ crashes \in Nat

\* Some files are out of date and some were damaged behind the server's back.
Init ==
  /\ head = [f \in Files |-> 1]
  /\ have \in [Files -> {0, 1}]
  /\ local \in {l \in [Files -> {0, 1}] : \A f \in Files : l[f] <= have[f]}
  /\ saved = [k \in Keys |-> NoFile]
  /\ pc = [j \in Jobs |-> "new"]
  /\ key \in [Jobs -> Keys]
  /\ pending = [j \in Jobs |-> {}] /\ completed = [j \in Jobs |-> {}]
  /\ batch = [j \in Jobs |-> {}]
  /\ goal = [j \in Jobs |-> [f \in Files |-> 0]]
  /\ submits = 0 /\ crashes = 0

Goto(j, l) == pc' = [pc EXCEPT ![j] = l]

Idle == \A j \in Jobs : pc[j] \notin {"sync", "save"}

-----------------------------------------------------------------------------
(* The p4 server.                                                          *)

\* sync -n lists what sync would transfer.
Listed(k) == {f \in Under[k.target] : k.force \/ have[f] # head[f]}

\* sync of the files S; without -f it leaves alone what the server believes is
\* in the workspace already.
Sync(S, force) ==
  /\ have' = [f \in Files |-> IF f \in S THEN head[f] ELSE have[f]]
  /\ local' = [f \in Files |->
                 IF f \in S /\ (force \/ have[f] # head[f]) THEN head[f] ELSE local[f]]

\* Another user submits.
OtherSubmit(f) ==
  /\ submits < MaxSubmits
  /\ submits' = submits + 1
  /\ head' = [head EXCEPT ![f] = @ + 1]
  /\ UNCHANGED <<space, saved, pc, job, crashes>>

-----------------------------------------------------------------------------
(* A job.                                                                  *)

\* The user starts a sync, or resumes one: from_state builds a new job from
\* the parameters in the state file, which is read again when it enumerates.
SubmitJob(j) ==
  /\ pc[j] = "new"
  /\ Goto(j, "queued")
  /\ UNCHANGED <<server, space, saved, job, crashes>>

StateFile(k) == k

Prior(j) == IF saved[StateFile(key[j])] = NoFile THEN {} ELSE saved[StateFile(key[j])]

Remaining(j) == Listed(key[j]) \ Prior(j)

\* _enumerate_chunk: the prior state is loaded and sync -n is run.
Enumerate(j) ==
  /\ pc[j] = "queued" /\ Idle
  /\ completed' = [completed EXCEPT ![j] = Prior(j)]
  /\ pending' = [pending EXCEPT ![j] = Remaining(j)]
  /\ goal' = [goal EXCEPT ![j] = head]
  /\ Goto(j, "ready")
  /\ UNCHANGED <<server, space, saved, key, batch, crashes>>

EnumerateFails(j) ==
  /\ pc[j] = "queued" /\ Idle
  /\ completed' = [completed EXCEPT ![j] = Prior(j)]
  /\ Goto(j, "failed")
  /\ UNCHANGED <<server, space, saved, key, pending, batch, goal, crashes>>

\* The generator takes the next batch off _pending.
NextBatch(j) ==
  /\ pc[j] = "ready" /\ Idle
  /\ \E b \in (SUBSET pending[j]) \ {{}} :
       /\ Cardinality(b) <= BatchSize
       /\ batch' = [batch EXCEPT ![j] = b]
       /\ pending' = [pending EXCEPT ![j] = @ \ b]
  /\ Goto(j, "sync")
  /\ UNCHANGED <<server, space, saved, key, completed, goal, crashes>>

\* Mutant of Progress: what is completed is everything but the pending files.
ProgressTooEarly(j) == completed[j] \cup batch[j] \cup pending[j]

Progress(j) == completed[j] \cup batch[j]

\* _sync_batch: the command is answered.
SyncBatch(j) ==
  /\ pc[j] = "sync"
  /\ Sync(batch[j], key[j].force)
  /\ completed' = [completed EXCEPT ![j] = Progress(j)]
  /\ Goto(j, "save")
  /\ UNCHANGED <<server, saved, key, pending, batch, goal, crashes>>

\* The command raises; part of it may have been executed.
SyncFails(j) ==
  /\ pc[j] = "sync"
  /\ \E S \in SUBSET batch[j] : Sync(S, key[j].force)
  /\ Goto(j, "failed")
  /\ UNCHANGED <<server, saved, job, crashes>>

\* _save_state replaces the file, or fails and is ignored.
Save(j) ==
  /\ pc[j] = "save"
  /\ saved' = [saved EXCEPT ![StateFile(key[j])] = completed[j]] \/ UNCHANGED saved
  /\ Goto(j, "ready")
  /\ UNCHANGED <<server, space, job, crashes>>

\* Mutant of Drained: the generator stops before its last batch.
DrainedTooEarly(j) == Cardinality(pending[j]) <= 1

Drained(j) == pending[j] = {}

\* The generator is exhausted: the state file is removed, if that succeeds.
Finish(j) ==
  /\ pc[j] = "ready" /\ Idle /\ Drained(j)
  /\ saved' = [saved EXCEPT ![StateFile(key[j])] = NoFile] \/ UNCHANGED saved
  /\ Goto(j, "done")
  /\ UNCHANGED <<server, space, job, crashes>>

\* stop() and cancel: the runner drops the job between two chunks.
Drop(j) ==
  /\ pc[j] \in {"queued", "ready"} /\ Idle
  /\ Goto(j, "dropped")
  /\ UNCHANGED <<server, space, saved, job, crashes>>

Step(j) ==
  \/ SubmitJob(j) \/ Enumerate(j) \/ EnumerateFails(j) \/ NextBatch(j)
  \/ SyncBatch(j) \/ SyncFails(j) \/ Save(j) \/ Finish(j) \/ Drop(j)

-----------------------------------------------------------------------------
(* The application.                                                        *)

\* The process dies; a sync that is under way may be executed in part.
Crash ==
  /\ crashes < MaxCrashes
  /\ crashes' = crashes + 1
  /\ \/ UNCHANGED space
     \/ \E j \in Jobs :
          pc[j] = "sync" /\ \E S \in SUBSET batch[j] : Sync(S, key[j].force)
  /\ pc' = [j \in Jobs |-> IF pc[j] \in Live THEN "dropped" ELSE pc[j]]
  /\ UNCHANGED <<server, saved, job>>

\* The picker of the next launch: the user removes the state of a job.
Discard(k) ==
  /\ saved[k] # NoFile /\ \A j \in Jobs : pc[j] \notin Live
  /\ saved' = [saved EXCEPT ![k] = NoFile]
  /\ UNCHANGED <<server, space, pc, job, crashes>>

Next ==
  \/ \E j \in Jobs : Step(j)
  \/ \E f \in Files : OtherSubmit(f)
  \/ \E k \in Keys : Discard(k)
  \/ Crash

Spec == Init /\ [][Next]_vars

-----------------------------------------------------------------------------
(* Properties.                                                             *)

\* What was saved can be relied on after a crash: a file is in the completed
\* set of a state file, or of a job, only if it was synced, and by a forced
\* sync only if its content was replaced.
CompletedWasSynced ==
  \A k \in Keys, f \in Files :
    \/ saved[k] # NoFile /\ f \in saved[k]
    \/ \E j \in Jobs : key[j] = k /\ f \in completed[j]
    => have[f] >= 1 /\ (k.force => local[f] >= 1)

\* A sync that ends as done has brought every file of its target to the
\* revision the depot had when it enumerated, however often the sync was
\* interrupted and resumed, and whatever other syncs of the same or of an
\* overlapping target were run in between; a forced one has also repaired
\* the local files.
UpToDate(j, f) ==
  /\ have[f] >= goal[j][f]
  /\ key[j].force => local[f] >= goal[j][f]

DoneIsUpToDate ==
  [][\A j \in Jobs : pc[j] # "done" /\ pc'[j] = "done" =>
       \A f \in Under[key[j].target] : UpToDate(j, f)]_vars

\* The same but for files that were submitted after an interrupted run had
\* confirmed them: of those it has brought the first revision at least.
DoneUnlessOutrun ==
  [][\A j \in Jobs : pc[j] # "done" /\ pc'[j] = "done" =>
       \A f \in Under[key[j].target] :
         \/ UpToDate(j, f)
         \/ head[f] > 1 /\ have[f] >= 1 /\ (key[j].force => local[f] >= 1)]_vars
==============================================================================
