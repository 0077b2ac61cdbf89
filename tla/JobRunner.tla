------------------------------ MODULE JobRunner ------------------------------
(***************************************************************************)
(* The job runner of p4v_tui/jobs.py: one worker thread that pulls items    *)
(* off a priority heap, jobs that are executed one chunk at a time and put  *)
(* themselves back on the heap after every chunk, and stop(), which may be  *)
(* called by several threads and waits for the worker with a time-out.      *)
(*                                                                         *)
(* A critical section under the runner's condition variable is one action;  *)
(* what a thread does between two of them interleaves with every other      *)
(* thread.  start() is the initial state: the application calls it once,    *)
(* when it is mounted.  What a chunk does is left to the modules of the     *)
(* jobs; here it returns or raises.                                         *)
(***************************************************************************)
EXTENDS Naturals

CONSTANTS
  Jobs,        \* chunked jobs that may be submitted
  Commands,    \* one-shot callables given to submit_command
  Chunks,      \* Chunks[j]: the number of chunks the generator of j yields
  Flaky,       \* the jobs whose chunks may raise
  Cancellable, \* the jobs whose owner may set Job.cancelled
  SubmitJobs,  \* the ResilientSubmitJobs: their progress callback calls the UI
  Stoppers,    \* the threads that call stop()
  UIThread,    \* the UI thread, which runs the callbacks marshalled to it
  None         \* no item

Items == Jobs \cup Commands

ASSUME JobRunnerAssumption ==
  /\ Jobs \cap Commands = {}
  /\ Chunks \in [Jobs -> Nat]
  /\ Flaky \subseteq Jobs
  /\ Cancellable \subseteq Jobs
  /\ SubmitJobs \subseteq Jobs
  /\ UIThread \in Stoppers
  /\ None \notin Items

PRIORITY_INTERACTIVE == 0
PRIORITY_CHUNKED == 10

Priority(i) == IF i \in Commands THEN PRIORITY_INTERACTIVE ELSE PRIORITY_CHUNKED

VARIABLES
  heap,      \* the queued entries [item, seq]
  seq,       \* the next sequence number
  shutdown,  \* the _shutdown flag
  worker,    \* where the worker thread is, see WorkerPC
  held,      \* the item the worker popped, None when it holds none
  active,    \* _active_jobs
  pc,        \* pc[j]: how far submit_job(j) has come, see SubmitPC
  done,      \* done[j]: done_chunks
  cancelled, \* the jobs whose cancelled attribute is set
  failed,    \* the jobs whose failed attribute is set
  log,       \* log[j]: the state of the job's entry in the command log
  ran,       \* the commands that were executed
  stopper,   \* stopper[s]: how far stop() called by s has come
  workerRef, \* _worker is not None
  reloaded,  \* the submit jobs whose completion reloaded the changelists
  jumps,     \* history: <<i, k>> when i was popped while k was queued
  late       \* history: how many chunks began after _shutdown was set

queue  == <<heap, seq>>
thread == <<worker, held>>
books  == <<active, log>>
jobs   == <<pc, done, cancelled, failed>>
stops  == <<shutdown, stopper, workerRef>>
hist   == <<jumps, late>>
vars   == <<queue, thread, books, jobs, stops, ran, reloaded, hist>>

Entries == [item: Items, seq: Nat]
WorkerPC == {"idle", "popped", "checked", "chunk", "resubmit", "finish", "exited"}
SubmitPC == {"new", "begun", "tracked", "queued"}
StopPC   == {"running", "flagged", "joining", "returned"}
LogState == {"none", "running", "done", "failed"}

TypeOK ==
  /\ heap \in SUBSET Entries
  /\ seq \in Nat
  /\ shutdown \in BOOLEAN
  /\ worker \in WorkerPC
  /\ held \in Items \cup {None}
  /\ active \in SUBSET Jobs
  /\ pc \in [Jobs -> SubmitPC]
  /\ done \in [Jobs -> Nat]
  /\ cancelled \in SUBSET Jobs
  /\ failed \in SUBSET Jobs
  /\ log \in [Jobs -> LogState]
  /\ ran \in SUBSET Commands
  /\ stopper \in [Stoppers -> StopPC]
  /\ workerRef \in BOOLEAN
  /\ reloaded \in SUBSET Jobs
  /\ jumps \in SUBSET (Items \X Items)
  /\ late \in Nat

Init ==
  /\ heap = {}
  /\ seq = 0
  /\ shutdown = FALSE
  /\ worker = "idle"
  /\ held = None
  /\ active = {}
  /\ pc = [j \in Jobs |-> "new"]
  /\ done = [j \in Jobs |-> 0]
  /\ cancelled = {}
  /\ failed = {}
  /\ log = [j \in Jobs |-> "none"]
  /\ ran = {}
  /\ stopper = [s \in Stoppers |-> "running"]
  /\ workerRef = TRUE
  /\ reloaded = {}
  /\ jumps = {}
  /\ late = 0

-----------------------------------------------------------------------------
(* The heap.                                                               *)

Queued(i) == \E e \in heap : e.item = i

\* Mutant of Before: no sequence number breaks the ties of a class.
BeforeWithoutTieBreak(e, f) == Priority(e.item) <= Priority(f.item)

\* The order of the heap's tuples: the priority, then the sequence number.
Before(e, f) ==
  \/ Priority(e.item) < Priority(f.item)
  \/ Priority(e.item) = Priority(f.item) /\ e.seq < f.seq

\* Mutant of Drained: the loop leaves whatever is queued.
DrainedOrNot == TRUE

Drained == heap = {}

\* heappush of the next sequence number.
Push(i) ==
  /\ heap' = heap \cup {[item |-> i, seq |-> seq]}
  /\ seq' = seq + 1

\* finished: cancelled, failed, or all the announced chunks are done.
Finished(j) == j \in cancelled \/ j \in failed \/ done[j] >= Chunks[j]

-----------------------------------------------------------------------------
(* submit_command and submit_job, called by any thread.                    *)

SubmitCommand(c) ==
  /\ c \notin ran /\ ~Queued(c) /\ held # c
  /\ Push(c)
  /\ UNCHANGED <<thread, books, jobs, stops, hist, ran, reloaded>>

\* job.chunks() and begin_job.
SubmitBegin(j) ==
  /\ pc[j] = "new"
  /\ pc' = [pc EXCEPT ![j] = "begun"]
  /\ log' = [log EXCEPT ![j] = "running"]
  /\ UNCHANGED <<queue, thread, stops, hist, active, done, cancelled, failed, ran, reloaded>>

\* Mutant of Tracking: the job is not entered in _active_jobs.
Untracked(j) == active

Tracking(j) == active \cup {j}

SubmitTrack(j) ==
  /\ pc[j] = "begun"
  /\ pc' = [pc EXCEPT ![j] = "tracked"]
  /\ active' = Tracking(j)
  /\ UNCHANGED <<queue, thread, stops, hist, done, cancelled, failed, log, ran, reloaded>>

SubmitPush(j) ==
  /\ pc[j] = "tracked"
  /\ pc' = [pc EXCEPT ![j] = "queued"]
  /\ Push(j)
  /\ UNCHANGED <<thread, books, stops, hist, done, cancelled, failed, ran, reloaded>>

\* The owner of a job sets its cancelled attribute; no lock is taken.
Cancel(j) ==
  /\ j \in Cancellable /\ pc[j] # "new" /\ j \notin cancelled
  /\ cancelled' = cancelled \cup {j}
  /\ UNCHANGED <<queue, thread, books, stops, hist, pc, done, failed, ran, reloaded>>

-----------------------------------------------------------------------------
(* The worker thread: _loop and run_next_chunk.                            *)

Pop ==
  /\ worker = "idle"
  /\ \E e \in heap :
       /\ \A f \in heap \ {e} : Before(e, f)
       /\ heap' = heap \ {e}
       /\ held' = e.item
       /\ jumps' = {p \in jumps : p[2] # e.item}
                     \cup {<<e.item, f.item>> : f \in heap \ {e}}
  /\ worker' = "popped"
  /\ UNCHANGED <<books, jobs, stops, seq, ran, reloaded, late>>

\* The loop returns once it is told to stop and the heap is drained.
Exit ==
  /\ worker = "idle" /\ shutdown /\ Drained
  /\ worker' = "exited"
  /\ UNCHANGED <<queue, books, jobs, stops, hist, held, ran, reloaded>>

RunCommand ==
  /\ worker = "popped" /\ held \in Commands
  /\ ran' = ran \cup {held}
  /\ held' = None
  /\ worker' = "idle"
  /\ UNCHANGED <<queue, books, jobs, stops, hist, reloaded>>

\* Mutant of EndJob: the failure does not reach the log.
EndJobAsDone(j, result) ==
  /\ active' = active \ {j}
  /\ log' = [log EXCEPT ![j] = "done"]

\* end_job_once: the job leaves _active_jobs and its log entry is closed.
EndJob(j, result) ==
  /\ active' = active \ {j}
  /\ log' = [log EXCEPT ![j] = IF @ = "running" THEN result ELSE @]

\* Mutant of MayRun: the shutdown flag is not looked at.
MayRunIgnoringShutdown(j) == j \notin cancelled

MayRun(j) == j \notin cancelled /\ ~shutdown

HasNext(j) == done[j] < Chunks[j]

\* A cancelled job, or any job after _shutdown: dropped without a callback.
DropJob ==
  /\ worker = "popped" /\ held \in Jobs
  /\ ~MayRun(held)
  /\ EndJob(held, "done")
  /\ held' = None
  /\ worker' = "idle"
  /\ UNCHANGED <<queue, jobs, stops, hist, ran, reloaded>>

\* The check at the head of run_next_chunk passes.  The flag and the attribute
\* are read without the lock: both may be set before the chunk is entered.
CheckJob ==
  /\ worker = "popped" /\ held \in Jobs
  /\ MayRun(held)
  /\ worker' = "checked"
  /\ UNCHANGED <<queue, books, jobs, stops, hist, held, ran, reloaded>>

\* next(chunks_iter) yields a chunk and the worker enters it.
BeginChunk ==
  /\ worker = "checked" /\ HasNext(held)
  /\ worker' = "chunk"
  /\ late' = IF shutdown THEN late + 1 ELSE late
  /\ UNCHANGED <<queue, books, jobs, stops, held, ran, reloaded, jumps>>

\* StopIteration: the job is done; the callback is next.
Exhausted ==
  /\ worker = "checked" /\ ~HasNext(held)
  /\ EndJob(held, "done")
  /\ worker' = "finish"
  /\ UNCHANGED <<queue, jobs, stops, hist, held, ran, reloaded>>

ChunkDone ==
  /\ worker = "chunk"
  /\ done' = [done EXCEPT ![held] = @ + 1]
  /\ worker' = "resubmit"
  /\ UNCHANGED <<queue, books, stops, hist, held, pc, cancelled, failed, ran, reloaded>>

ChunkRaises ==
  /\ worker = "chunk" /\ held \in Flaky
  /\ failed' = failed \cup {held}
  /\ EndJob(held, "failed")
  /\ worker' = "finish"
  /\ UNCHANGED <<queue, stops, hist, held, pc, done, cancelled, ran, reloaded>>

\* _notify: the callback of the application reloads the changelists when a
\* submit job has finished without failing.  The reload is marshalled to the
\* UI thread, and the worker waits for it.
Reloads(j) == j \in SubmitJobs /\ Finished(j) /\ j \notin failed

\* Mutant of UIServes: after its stop() returned the UI never answers.
UIServesOnlyWhileRunning == stopper[UIThread] = "running"

UIServes == stopper[UIThread] \notin {"flagged", "joining"}

Notify(j) ==
  /\ Reloads(j) => UIServes
  /\ reloaded' = IF Reloads(j) THEN reloaded \cup {j} ELSE reloaded

\* After a chunk: the callback, then submit_command of the same closure.
Resubmit ==
  /\ worker = "resubmit"
  /\ Notify(held)
  /\ Push(held)
  /\ held' = None
  /\ worker' = "idle"
  /\ UNCHANGED <<books, jobs, stops, hist, ran>>

\* After StopIteration or an exception: the callback only.
Finish ==
  /\ worker = "finish"
  /\ Notify(held)
  /\ held' = None
  /\ worker' = "idle"
  /\ UNCHANGED <<queue, books, jobs, stops, hist, ran>>

Worker ==
  \/ Pop \/ Exit \/ RunCommand \/ DropJob \/ CheckJob \/ BeginChunk
  \/ Exhausted \/ ChunkDone \/ ChunkRaises \/ Resubmit \/ Finish

-----------------------------------------------------------------------------
(* stop(), called by the thread that quits and by the UI thread.           *)

StopFlag(s) ==
  /\ stopper[s] = "running"
  /\ stopper' = [stopper EXCEPT ![s] = "flagged"]
  /\ shutdown' = TRUE
  /\ cancelled' = cancelled \cup active
  /\ UNCHANGED <<queue, thread, books, hist, pc, done, failed, ran, workerRef, reloaded>>

\* _worker is read after the lock was released.
StopCheck(s) ==
  /\ stopper[s] = "flagged"
  /\ stopper' = [stopper EXCEPT ![s] = IF workerRef THEN "joining" ELSE "returned"]
  /\ UNCHANGED <<queue, thread, books, jobs, hist, shutdown, ran, workerRef, reloaded>>

StopReturn(s) ==
  /\ stopper' = [stopper EXCEPT ![s] = "returned"]
  /\ workerRef' = FALSE
  /\ UNCHANGED <<queue, thread, books, jobs, hist, shutdown, ran, reloaded>>

Joined(s)      == stopper[s] = "joining" /\ worker = "exited" /\ StopReturn(s)
JoinTimeout(s) == stopper[s] = "joining" /\ worker # "exited" /\ StopReturn(s)

Stop(s) == StopFlag(s) \/ StopCheck(s) \/ Joined(s) \/ JoinTimeout(s)

-----------------------------------------------------------------------------
\* Everything has ended: the process is about to exit.
Ended ==
  /\ worker = "exited"
  /\ \A s \in Stoppers : stopper[s] = "returned"
  /\ UNCHANGED vars

Submit(j) == SubmitBegin(j) \/ SubmitTrack(j) \/ SubmitPush(j)

Next ==
  \/ \E c \in Commands : SubmitCommand(c)
  \/ \E j \in Jobs : Submit(j) \/ Cancel(j)
  \/ Worker
  \/ \E s \in Stoppers : Stop(s)
  \/ Ended

Spec == Init /\ [][Next]_vars

\* The worker thread runs, a submit_job that was entered returns, and so does
\* a stop() that was entered: its join has a time-out.  Nobody has to submit,
\* to cancel or to quit.
Fairness ==
  /\ WF_vars(Worker)
  /\ \A j \in Jobs : WF_vars(SubmitTrack(j) \/ SubmitPush(j))
  /\ \A s \in Stoppers : WF_vars(StopCheck(s) \/ Joined(s) \/ JoinTimeout(s))

FairSpec == Spec /\ Fairness

-----------------------------------------------------------------------------
(* Properties.                                                             *)

\* A job is in one place at a time: it has one entry on the heap, or the
\* worker holds it, and never both.  run_next_chunk puts itself back only when
\* it is about to return, so no generator is advanced by two chunks at once and
\* a chunk never runs twice.
SingleFlight ==
  /\ \A e, f \in heap : e.item = f.item => e = f
  /\ \A e \in heap : e.item # held

\* stop() reaches everything that could still run: a job that is on the heap,
\* or that the worker is about to run or is running, is in _active_jobs, so
\* the loop of stop() cancels it.
StopReachesQueued ==
  \A j \in Jobs :
    \/ Queued(j)
    \/ held = j /\ worker \in {"popped", "checked", "chunk", "resubmit"}
    => j \in active

\* The Command Monitor tells the truth about a job: its entry is running
\* exactly as long as the job is being submitted or is active, "failed" only
\* when a chunk raised, and "done" only when every chunk was executed or the
\* job was cancelled by its owner or by stop().
LogIsTruthful ==
  \A j \in Jobs :
    /\ j \in active => log[j] = "running"
    /\ log[j] = "running" => j \in active \/ pc[j] = "begun"
    /\ log[j] = "failed" <=> j \in failed
    /\ log[j] = "done" => done[j] = Chunks[j] \/ j \in cancelled \/ shutdown

\* Once stop() has set the flag at most one more chunk begins: the one whose
\* check had already passed.  Everything queued is dropped at its next pull.
AtMostOneLateChunk == late <= 1

\* Pulling item i while k is queued.
Overtakes(i, k) == held # i /\ held' = i /\ Queued(k) /\ k # i

\* A keypress dispatched during a long job is served before the job's next
\* chunk, and jobs share the worker: an item is never overtaken by one of lower
\* priority and at most once by the same item of its own priority.
BoundedOvertaking ==
  [][\A i, k \in Items :
       Overtakes(i, k) =>
         \/ Priority(i) < Priority(k)
         \/ Priority(i) = Priority(k) /\ <<i, k>> \notin jumps]_vars

\* Every job that reaches the heap while the worker is alive ends, whatever
\* else is queued, whether or not chunks raise, and also when stop() is called
\* meanwhile.
QueuedJobsEnd ==
  \A j \in Jobs : (Queued(j) /\ worker # "exited") ~> (j \notin active)

\* After stop() the worker terminates, although it may be waiting for the UI
\* thread while the UI thread waits for the worker.
WorkerExits == shutdown ~> (worker = "exited")

\* A submit that went through shows up: the changelists are reloaded.
SubmitsReload ==
  \A j \in SubmitJobs : (done[j] > 0) ~> (j \in reloaded)

-----------------------------------------------------------------------------
\* The runner as a sequential executor: the turn of a job begins when its
\* check passes and ends with its chunk.
Promise == INSTANCE ChunkedExecution WITH
  open      <- active,
  closed    <- {j \in Jobs : log[j] \in {"done", "failed"}},
  turn      <- IF worker \in {"checked", "chunk"} THEN held ELSE None,
  executing <- worker = "chunk",
  progress  <- done,
  stopping  <- shutdown

\* The threads, the heap and the flags of the runner implement that executor:
\* one chunk at a time, never a chunk of a job that was not accepted or that
\* had ended, no turn for a job seen cancelled, no job closed for any other
\* reason than those three.
ImplementsChunkedExecution == Promise!Spec
==============================================================================
