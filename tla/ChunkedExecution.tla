-------------------------- MODULE ChunkedExecution --------------------------
(***************************************************************************)
(* What the job runner promises, without threads, heap or locks: accepted    *)
(* jobs are given turns, a turn executes at most one chunk, and only a job   *)
(* that is open and that nobody has asked to end is given one.  A job closes *)
(* when its chunks are exhausted, when one of them raises, or because it was *)
(* cancelled or the runner was stopped.                                      *)
(***************************************************************************)
EXTENDS Naturals

CONSTANTS Jobs, Chunks, None

VARIABLES
  open,      \* the jobs accepted and not closed
  closed,    \* the jobs that have ended
  turn,      \* the job whose turn it is, or None
  executing, \* a chunk of that job is being executed
  progress,  \* progress[j]: the chunks of j executed so far
  cancelled, \* the jobs asked to end
  stopping   \* the runner was asked to stop

avars == <<open, closed, turn, executing, progress, cancelled, stopping>>

Init ==
  /\ open = {} /\ closed = {} /\ cancelled = {}
  /\ turn = None
  /\ executing = FALSE
  /\ progress = [j \in Jobs |-> 0]
  /\ stopping = FALSE

Accept(j) ==
  /\ j \notin open \cup closed
  /\ open' = open \cup {j}
  /\ UNCHANGED <<closed, turn, executing, progress, cancelled, stopping>>

Cancel(j) ==
  /\ cancelled' = cancelled \cup {j}
  /\ UNCHANGED <<open, closed, turn, executing, progress, stopping>>

StopAll ==
  /\ stopping' = TRUE
  /\ cancelled' = cancelled \cup open
  /\ UNCHANGED <<open, closed, turn, executing, progress>>

Grant(j) ==
  /\ turn = None
  /\ j \in open \ cancelled /\ ~stopping
  /\ turn' = j
  /\ UNCHANGED <<open, closed, executing, progress, cancelled, stopping>>

Begin(j) ==
  /\ turn = j /\ ~executing /\ progress[j] < Chunks[j]
  /\ executing' = TRUE
  /\ UNCHANGED <<open, closed, turn, progress, cancelled, stopping>>

\* The chunk returns and the turn is over.
Complete(j) ==
  /\ turn = j /\ executing
  /\ progress' = [progress EXCEPT ![j] = @ + 1]
  /\ executing' = FALSE /\ turn' = None
  /\ UNCHANGED <<open, closed, cancelled, stopping>>

Close(j) == open' = open \ {j} /\ closed' = closed \cup {j}

Raise(j) ==
  /\ turn = j /\ executing
  /\ Close(j)
  /\ executing' = FALSE /\ turn' = None
  /\ UNCHANGED <<progress, cancelled, stopping>>

\* The job is given a turn and has no chunk left.
Exhaust(j) ==
  /\ turn = j /\ ~executing /\ progress[j] >= Chunks[j]
  /\ Close(j)
  /\ turn' = None
  /\ UNCHANGED <<executing, progress, cancelled, stopping>>

\* A job that was asked to end is closed between two turns.
Drop(j) ==
  /\ turn = None /\ j \in open
  /\ j \in cancelled \/ stopping
  /\ Close(j)
  /\ UNCHANGED <<turn, executing, progress, cancelled, stopping>>

Next ==
  \/ StopAll
  \/ \E j \in Jobs :
       \/ Accept(j) \/ Cancel(j) \/ Grant(j) \/ Begin(j)
       \/ Complete(j) \/ Raise(j) \/ Exhaust(j) \/ Drop(j)

Spec == Init /\ [][Next]_avars
==============================================================================
