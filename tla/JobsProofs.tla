------------------------------ MODULE JobsProofs ------------------------------
(***************************************************************************)
(* Proofs about the job runner, the submit job and the merges.              *)
(*                                                                         *)
(* JobRunner, for every set of jobs, commands and stopping threads.  Its      *)
(* safety properties are not inductive one by one; IInv adds where the        *)
(* worker's item may be (HeldInv), how far submit_job has come for a job that *)
(* is somewhere (PlaceInv), the bound on its progress (ProgressInv) and when a *)
(* late chunk may begin (LateInv).  The worker is never stuck                  *)
(* (WorkerNeverStuck), and after stop() its steps run out (ToExit).          *)
(*                                                                         *)
(* ResilientSubmit, for every number of attempts and outages.  The properties *)
(* depend on what the answer of an attempt says about the changelist           *)
(* (AnswerInv) and on the attempts that are left (AttemptInv).                *)
(*                                                                         *)
(* Merges, for every set of files, of three-way merges and of workers.  That   *)
(* what is put together again from a text with markers is the merge the user    *)
(* chose is an induction over the chunks (RoundTrip): over the lines of a chunk *)
(* for the parser, over the chunks for the whole text.  Induction is had from   *)
(* the order of the natural numbers, which has no infinite descent.  MergesInv  *)
(* then says how far each merge by hand is, and what it knows by then (Stage).  *)
(***************************************************************************)
EXTENDS MCJobs, WellFoundedInduction, SequenceTheorems, FiniteSetTheorems, TLAPS

HeldInv ==
  /\ held = None <=> worker \in {"idle", "exited"}
  /\ worker \in {"checked", "chunk", "resubmit", "finish"} => held \in Jobs

PlaceInv ==
  \A j \in Jobs :
    /\ Queued(j) \/ held = j => pc[j] = "queued"
    /\ j \in active => pc[j] \in {"tracked", "queued"}
    /\ pc[j] = "tracked" => j \in active
    /\ pc[j] = "begun" => log[j] = "running"
    /\ pc[j] = "new" => log[j] = "none"
    /\ j \in failed => pc[j] = "queued"

ProgressInv ==
  /\ \A j \in Jobs : done[j] <= Chunks[j]
  /\ worker = "chunk" => done[held] < Chunks[held]

LateInv ==
  /\ late > 0 => shutdown
  /\ worker = "checked" => late = 0
  /\ late <= 1

IInv == TypeOK /\ SingleFlight /\ StopReachesQueued /\ LogIsTruthful
          /\ HeldInv /\ PlaceInv /\ ProgressInv /\ LateInv

USE DEF queue, thread, books, jobs, stops, hist

-----------------------------------------------------------------------------
(* Every action preserves the invariant: one lemma per action, one step per *)
(* conjunct that the action can disturb, the others together in the last.   *)

LEMMA SubmitCommandStep ==
  ASSUME NEW c \in Commands, IInv, SubmitCommand(c)
  PROVE  IInv'
<1>1. TypeOK'
  BY DEF IInv, SubmitCommand, Push, TypeOK, Entries, Items
<1>2. SingleFlight'
  BY DEF IInv, SubmitCommand, Push, SingleFlight, Queued
<1>3. StopReachesQueued'
  BY JobRunnerAssumption DEF IInv, SubmitCommand, Push, Queued, StopReachesQueued
<1>4. PlaceInv'
  BY JobRunnerAssumption DEF IInv, SubmitCommand, Push, Queued, PlaceInv
<1>5. LogIsTruthful' /\ HeldInv' /\ ProgressInv' /\ LateInv'
  BY DEF IInv, SubmitCommand, LogIsTruthful, HeldInv, ProgressInv, LateInv
<1> QED
  BY <1>1, <1>2, <1>3, <1>4, <1>5 DEF IInv

LEMMA SubmitBeginStep ==
  ASSUME NEW j \in Jobs, IInv, SubmitBegin(j)
  PROVE  IInv'
<1>1. TypeOK'
  BY DEF IInv, SubmitBegin, TypeOK, SubmitPC, LogState
<1>2. LogIsTruthful'
  BY DEF IInv, SubmitBegin, TypeOK, LogIsTruthful, PlaceInv
<1>3. PlaceInv'
  BY DEF IInv, SubmitBegin, TypeOK, Queued, PlaceInv
<1>4. SingleFlight' /\ StopReachesQueued' /\ HeldInv' /\ ProgressInv' /\ LateInv'
  BY DEF IInv, SubmitBegin, SingleFlight, StopReachesQueued, HeldInv, ProgressInv, LateInv, Queued
<1> QED
  BY <1>1, <1>2, <1>3, <1>4 DEF IInv

LEMMA SubmitTrackStep ==
  ASSUME NEW j \in Jobs, IInv, SubmitTrack(j)
  PROVE  IInv'
<1>1. TypeOK'
  BY DEF IInv, SubmitTrack, Tracking, TypeOK, SubmitPC
<1>2. StopReachesQueued'
  BY DEF IInv, SubmitTrack, Tracking, StopReachesQueued, Queued
<1>3. LogIsTruthful'
  BY DEF IInv, SubmitTrack, Tracking, LogIsTruthful, PlaceInv
<1>4. PlaceInv'
  BY DEF IInv, SubmitTrack, Tracking, TypeOK, Queued, PlaceInv
<1>5. SingleFlight' /\ HeldInv' /\ ProgressInv' /\ LateInv'
  BY DEF IInv, SubmitTrack, SingleFlight, HeldInv, ProgressInv, LateInv
<1> QED
  BY <1>1, <1>2, <1>3, <1>4, <1>5 DEF IInv

LEMMA SubmitPushStep ==
  ASSUME NEW j \in Jobs, IInv, SubmitPush(j)
  PROVE  IInv'
<1>1. TypeOK'
  BY DEF IInv, SubmitPush, Push, TypeOK, Entries, Items, SubmitPC
<1>2. SingleFlight'
  BY DEF IInv, SubmitPush, Push, SingleFlight, Queued, PlaceInv
<1>3. StopReachesQueued'
  BY DEF IInv, SubmitPush, Push, Queued, StopReachesQueued, PlaceInv
<1>4. PlaceInv'
  BY DEF IInv, SubmitPush, Push, TypeOK, Queued, PlaceInv
<1>5. LogIsTruthful' /\ HeldInv' /\ ProgressInv' /\ LateInv'
  BY DEF IInv, SubmitPush, LogIsTruthful, HeldInv, ProgressInv, LateInv
<1> QED
  BY <1>1, <1>2, <1>3, <1>4, <1>5 DEF IInv

LEMMA CancelStep ==
  ASSUME NEW j \in Jobs, IInv, Cancel(j)
  PROVE  IInv'
<1>1. TypeOK' /\ SingleFlight' /\ StopReachesQueued' /\ LogIsTruthful' /\ HeldInv' /\ PlaceInv' /\ ProgressInv' /\ LateInv'
  BY DEF IInv, Cancel, TypeOK, SingleFlight, StopReachesQueued, LogIsTruthful, HeldInv, PlaceInv, ProgressInv, LateInv, Queued
<1> QED
  BY <1>1 DEF IInv

LEMMA PopStep ==
  ASSUME IInv, Pop
  PROVE  IInv'
<1>1. TypeOK'
  BY DEF IInv, Pop, TypeOK, Entries, WorkerPC
<1>2. HeldInv'
  BY JobRunnerAssumption DEF IInv, Pop, TypeOK, Entries, HeldInv
<1>3. SingleFlight' /\ StopReachesQueued' /\ LogIsTruthful' /\ PlaceInv' /\ ProgressInv' /\ LateInv'
  BY DEF IInv, Pop, SingleFlight, StopReachesQueued, LogIsTruthful, PlaceInv, ProgressInv, LateInv, Queued
<1> QED
  BY <1>1, <1>2, <1>3 DEF IInv

LEMMA ExitStep ==
  ASSUME IInv, Exit
  PROVE  IInv'
<1>1. TypeOK'
  BY DEF IInv, Exit, TypeOK, WorkerPC
<1>2. SingleFlight' /\ StopReachesQueued' /\ LogIsTruthful' /\ HeldInv' /\ PlaceInv' /\ ProgressInv' /\ LateInv'
  BY DEF IInv, Exit, SingleFlight, StopReachesQueued, LogIsTruthful, HeldInv, PlaceInv, ProgressInv, LateInv, Queued
<1> QED
  BY <1>1, <1>2 DEF IInv

LEMMA RunCommandStep ==
  ASSUME IInv, RunCommand
  PROVE  IInv'
<1>1. TypeOK'
  BY DEF IInv, RunCommand, TypeOK, WorkerPC
<1>2. SingleFlight'
  BY JobRunnerAssumption DEF IInv, RunCommand, TypeOK, Entries, SingleFlight
<1>3. PlaceInv'
  BY JobRunnerAssumption DEF IInv, RunCommand, Items, Queued, PlaceInv
<1>4. StopReachesQueued' /\ LogIsTruthful' /\ HeldInv' /\ ProgressInv' /\ LateInv'
  BY DEF IInv, RunCommand, StopReachesQueued, LogIsTruthful, HeldInv, ProgressInv, LateInv, Queued
<1> QED
  BY <1>1, <1>2, <1>3, <1>4 DEF IInv

LEMMA DropJobStep ==
  ASSUME IInv, DropJob
  PROVE  IInv'
<1>1. TypeOK'
  BY DEF IInv, DropJob, EndJob, TypeOK, WorkerPC, LogState
<1>2. SingleFlight'
  BY JobRunnerAssumption DEF IInv, DropJob, TypeOK, Entries, SingleFlight
<1>3. StopReachesQueued'
  BY DEF IInv, DropJob, EndJob, SingleFlight, Queued, StopReachesQueued
<1>4. LogIsTruthful'
  BY DEF IInv, DropJob, EndJob, MayRun, TypeOK, LogIsTruthful
<1>5. PlaceInv'
  BY JobRunnerAssumption DEF IInv, DropJob, EndJob, Items, Queued, PlaceInv
<1>6. HeldInv' /\ ProgressInv' /\ LateInv'
  BY DEF IInv, DropJob, HeldInv, ProgressInv, LateInv
<1> QED
  BY <1>1, <1>2, <1>3, <1>4, <1>5, <1>6 DEF IInv

LEMMA CheckJobStep ==
  ASSUME IInv, CheckJob
  PROVE  IInv'
<1>1. TypeOK'
  BY DEF IInv, CheckJob, TypeOK, WorkerPC
<1>2. LateInv'
  BY DEF IInv, CheckJob, MayRun, TypeOK, LateInv
<1>3. SingleFlight' /\ StopReachesQueued' /\ LogIsTruthful' /\ HeldInv' /\ PlaceInv' /\ ProgressInv'
  BY DEF IInv, CheckJob, SingleFlight, StopReachesQueued, LogIsTruthful, HeldInv, PlaceInv, ProgressInv, Queued
<1> QED
  BY <1>1, <1>2, <1>3 DEF IInv

LEMMA BeginChunkStep ==
  ASSUME IInv, BeginChunk
  PROVE  IInv'
<1>1. TypeOK'
  BY DEF IInv, BeginChunk, TypeOK, WorkerPC
<1>2. ProgressInv'
  BY DEF IInv, BeginChunk, HasNext, ProgressInv
<1>3. SingleFlight' /\ StopReachesQueued' /\ LogIsTruthful' /\ HeldInv' /\ PlaceInv' /\ LateInv'
  BY DEF IInv, BeginChunk, SingleFlight, StopReachesQueued, LogIsTruthful, HeldInv, PlaceInv, LateInv, Queued
<1> QED
  BY <1>1, <1>2, <1>3 DEF IInv

LEMMA ExhaustedStep ==
  ASSUME IInv, Exhausted
  PROVE  IInv'
<1>1. TypeOK'
  BY DEF IInv, Exhausted, EndJob, TypeOK, WorkerPC, LogState
<1>2. StopReachesQueued'
  BY DEF IInv, Exhausted, EndJob, SingleFlight, Queued, StopReachesQueued
<1>3. LogIsTruthful'
  <2>1. held \in Jobs /\ done[held] = Chunks[held]
    BY JobRunnerAssumption DEF IInv, Exhausted, HasNext, TypeOK, HeldInv, ProgressInv
  <2> QED
    BY <2>1 DEF IInv, Exhausted, EndJob, TypeOK, LogIsTruthful
<1>4. PlaceInv'
  BY DEF IInv, Exhausted, EndJob, PlaceInv, Queued
<1>5. SingleFlight' /\ HeldInv' /\ ProgressInv' /\ LateInv'
  BY DEF IInv, Exhausted, SingleFlight, HeldInv, ProgressInv, LateInv
<1> QED
  BY <1>1, <1>2, <1>3, <1>4, <1>5 DEF IInv

LEMMA ChunkDoneStep ==
  ASSUME IInv, ChunkDone
  PROVE  IInv'
<1>1. TypeOK'
  BY DEF IInv, ChunkDone, TypeOK, WorkerPC, HeldInv
<1>2. LogIsTruthful'
  BY DEF IInv, ChunkDone, StopReachesQueued, LogIsTruthful
<1>3. ProgressInv'
  <2>1. held \in Jobs /\ done[held] < Chunks[held] /\ done[held] \in Nat /\ Chunks[held] \in Nat
    BY JobRunnerAssumption DEF IInv, ChunkDone, TypeOK, HeldInv, ProgressInv
  <2>2. ASSUME NEW j \in Jobs PROVE done'[j] <= Chunks[j]
    BY <2>1 DEF IInv, ChunkDone, TypeOK, ProgressInv
  <2> QED
    BY <2>2 DEF ChunkDone, ProgressInv
<1>4. SingleFlight' /\ StopReachesQueued' /\ HeldInv' /\ PlaceInv' /\ LateInv'
  BY DEF IInv, ChunkDone, SingleFlight, StopReachesQueued, HeldInv, PlaceInv, LateInv, Queued
<1> QED
  BY <1>1, <1>2, <1>3, <1>4 DEF IInv

LEMMA ChunkRaisesStep ==
  ASSUME IInv, ChunkRaises
  PROVE  IInv'
<1>1. TypeOK'
  BY JobRunnerAssumption DEF IInv, ChunkRaises, EndJob, TypeOK, WorkerPC, LogState
<1>2. StopReachesQueued'
  BY DEF IInv, ChunkRaises, EndJob, SingleFlight, Queued, StopReachesQueued
<1>3. LogIsTruthful'
  BY DEF IInv, ChunkRaises, EndJob, TypeOK, StopReachesQueued, LogIsTruthful
<1>4. PlaceInv'
  BY DEF IInv, ChunkRaises, EndJob, PlaceInv, Queued
<1>5. SingleFlight' /\ HeldInv' /\ ProgressInv' /\ LateInv'
  BY DEF IInv, ChunkRaises, SingleFlight, HeldInv, ProgressInv, LateInv
<1> QED
  BY <1>1, <1>2, <1>3, <1>4, <1>5 DEF IInv

LEMMA ResubmitStep ==
  ASSUME IInv, Resubmit
  PROVE  IInv'
<1>1. TypeOK'
  BY DEF IInv, Resubmit, Push, Notify, TypeOK, Entries, WorkerPC, HeldInv
<1>2. SingleFlight'
  BY JobRunnerAssumption DEF IInv, Resubmit, Push, TypeOK, Entries, SingleFlight, HeldInv
<1>3. StopReachesQueued'
  BY DEF IInv, Resubmit, Push, StopReachesQueued, Queued
<1>4. PlaceInv'
  BY JobRunnerAssumption DEF IInv, Resubmit, Push, Items, Queued, PlaceInv
<1>5. LogIsTruthful' /\ HeldInv' /\ ProgressInv' /\ LateInv'
  BY DEF IInv, Resubmit, LogIsTruthful, HeldInv, ProgressInv, LateInv
<1> QED
  BY <1>1, <1>2, <1>3, <1>4, <1>5 DEF IInv

LEMMA FinishStep ==
  ASSUME IInv, Finish
  PROVE  IInv'
<1>1. TypeOK'
  BY JobRunnerAssumption DEF IInv, Finish, Notify, Reloads, TypeOK, WorkerPC
<1>2. SingleFlight'
  BY JobRunnerAssumption DEF IInv, Finish, TypeOK, Entries, SingleFlight
<1>3. PlaceInv'
  BY JobRunnerAssumption DEF IInv, Finish, Items, Queued, PlaceInv
<1>4. StopReachesQueued' /\ LogIsTruthful' /\ HeldInv' /\ ProgressInv' /\ LateInv'
  BY DEF IInv, Finish, StopReachesQueued, LogIsTruthful, HeldInv, ProgressInv, LateInv, Queued
<1> QED
  BY <1>1, <1>2, <1>3, <1>4 DEF IInv

LEMMA StopFlagStep ==
  ASSUME NEW s \in Stoppers, IInv, StopFlag(s)
  PROVE  IInv'
<1>1. TypeOK'
  BY DEF IInv, StopFlag, TypeOK, StopPC
<1>2. SingleFlight' /\ StopReachesQueued' /\ LogIsTruthful' /\ HeldInv' /\ PlaceInv' /\ ProgressInv' /\ LateInv'
  BY DEF IInv, StopFlag, SingleFlight, StopReachesQueued, LogIsTruthful, HeldInv, PlaceInv, ProgressInv, LateInv, Queued
<1> QED
  BY <1>1, <1>2 DEF IInv

LEMMA StopCheckStep ==
  ASSUME NEW s \in Stoppers, IInv, StopCheck(s)
  PROVE  IInv'
<1>1. TypeOK'
  BY DEF IInv, StopCheck, TypeOK, StopPC
<1>2. SingleFlight' /\ StopReachesQueued' /\ LogIsTruthful' /\ HeldInv' /\ PlaceInv' /\ ProgressInv' /\ LateInv'
  BY DEF IInv, StopCheck, SingleFlight, StopReachesQueued, LogIsTruthful, HeldInv, PlaceInv, ProgressInv, LateInv, Queued
<1> QED
  BY <1>1, <1>2 DEF IInv

LEMMA StopReturnStep ==
  ASSUME NEW s \in Stoppers, IInv, StopReturn(s)
  PROVE  IInv'
<1>1. TypeOK'
  BY DEF IInv, StopReturn, TypeOK, StopPC
<1>2. SingleFlight' /\ StopReachesQueued' /\ LogIsTruthful' /\ HeldInv' /\ PlaceInv' /\ ProgressInv' /\ LateInv'
  BY DEF IInv, StopReturn, SingleFlight, StopReachesQueued, LogIsTruthful, HeldInv, PlaceInv, ProgressInv, LateInv, Queued
<1> QED
  BY <1>1, <1>2 DEF IInv

-----------------------------------------------------------------------------
(* The invariant.                                                          *)

\* Nothing is queued, held or active when the application is mounted.
LEMMA InitInv == ASSUME Init PROVE IInv
<1>1. TypeOK
  BY DEF Init, TypeOK, Entries, WorkerPC, SubmitPC, StopPC, LogState
<1>2. SingleFlight /\ StopReachesQueued /\ LogIsTruthful
  BY DEF Init, SingleFlight, StopReachesQueued, LogIsTruthful, Queued
<1>3. HeldInv /\ PlaceInv
  BY JobRunnerAssumption DEF Init, HeldInv, PlaceInv, Queued, Items
<1>4. ProgressInv /\ LateInv
  BY JobRunnerAssumption DEF Init, ProgressInv, LateInv
<1> QED
  BY <1>1, <1>2, <1>3, <1>4 DEF IInv

\* Every step of the runner preserves it.
LEMMA NextInv == ASSUME IInv, [Next]_vars PROVE IInv'
<1>1. ASSUME NEW c \in Commands, SubmitCommand(c) PROVE IInv'
  BY <1>1, SubmitCommandStep
<1>2. ASSUME NEW j \in Jobs, Submit(j) PROVE IInv'
  BY <1>2, SubmitBeginStep, SubmitTrackStep, SubmitPushStep DEF Submit
<1>3. ASSUME NEW j \in Jobs, Cancel(j) PROVE IInv'
  BY <1>3, CancelStep
<1>4. CASE Worker
  BY <1>4, PopStep, ExitStep, RunCommandStep, DropJobStep, CheckJobStep,
     BeginChunkStep, ExhaustedStep, ChunkDoneStep, ChunkRaisesStep,
     ResubmitStep, FinishStep DEF Worker
<1>5. ASSUME NEW s \in Stoppers, Stop(s) PROVE IInv'
  BY <1>5, StopFlagStep, StopCheckStep, StopReturnStep DEF Stop, Joined, JoinTimeout
<1>6. ASSUME UNCHANGED vars PROVE IInv'
  BY <1>6 DEF vars, IInv, TypeOK, SingleFlight, StopReachesQueued, Queued,
     LogIsTruthful, HeldInv, PlaceInv, ProgressInv, LateInv
<1> QED
  BY <1>1, <1>2, <1>3, <1>4, <1>5, <1>6 DEF Next, Ended

LEMMA Invariance == Spec => []IInv
BY InitInv, NextInv, PTL DEF Spec

-----------------------------------------------------------------------------
(* The theorems.                                                           *)

\* The state of the runner is always well-typed.
THEOREM TypeCorrect == Spec => []TypeOK
BY Invariance, PTL DEF IInv

\* A job is never queued twice, nor queued while it runs: two chunks of one
\* generator never overlap.
THEOREM NeverTwice == Spec => []SingleFlight
BY Invariance, PTL DEF IInv

\* Whatever could still run is known to stop(), however a submit_job, a chunk
\* and stop() interleave.
THEOREM StopReaches == Spec => []StopReachesQueued
BY Invariance, PTL DEF IInv

\* The log entry of a job agrees with what became of it.
THEOREM LogTruthful == Spec => []LogIsTruthful
BY Invariance, PTL DEF IInv

\* At most the chunk whose check had passed begins after stop().
THEOREM OneLateChunk == Spec => []AtMostOneLateChunk
<1>1. IInv => AtMostOneLateChunk
  BY DEF IInv, LateInv, AtMostOneLateChunk
<1> QED
  BY <1>1, Invariance, PTL

\* The number of chunks executed never exceeds what the generator yields, and
\* a job that failed or ended makes no more progress.
EndedJobsStandStill ==
  [][\A j \in Jobs :
       done'[j] # done[j] => done'[j] <= Chunks[j] /\ j \in active]_vars

\* Progress is made only by a job that is active, and never past its end.
THEOREM StandStill == Spec => EndedJobsStandStill
<1>1. ASSUME IInv, [Next]_vars, NEW j \in Jobs, done'[j] # done[j]
      PROVE  done'[j] <= Chunks[j] /\ j \in active
  <2>1. ChunkDone
    BY <1>1 DEF Next, Submit, SubmitCommand, SubmitBegin, SubmitTrack, SubmitPush,
       Cancel, Worker, Pop, Exit, RunCommand, DropJob, CheckJob, BeginChunk,
       Exhausted, ChunkRaises, Resubmit, Finish, Stop, StopFlag, StopCheck,
       Joined, JoinTimeout, StopReturn, Ended, vars
  <2>2. held = j
    BY <1>1, <2>1 DEF ChunkDone, IInv, TypeOK
  <2>3. j \in active
    BY <2>1, <2>2, <1>1 DEF ChunkDone, IInv, StopReachesQueued
  <2>4. IInv'
    BY <1>1, NextInv
  <2> QED
    BY <2>3, <2>4 DEF IInv, ProgressInv
<1> DEFINE Still == \A j \in Jobs : done'[j] # done[j] => done'[j] <= Chunks[j] /\ j \in active
<1>2. IInv /\ [Next]_vars => [Still]_vars
  BY <1>1
<1> QED
  BY <1>2, Invariance, PTL DEF Spec, EndedJobsStandStill

-----------------------------------------------------------------------------
(* Induction over the natural numbers.                                     *)

\* The order of the natural numbers has no infinite descent.
LEMMA Descent == IsWellFoundedOn({ss \in Nat \X Nat : ss[1] < ss[2]}, Nat)
BY NatLessThanWellFounded DEF OpToRel

\* Every set of natural numbers that is not empty has a least element.
LEMMA Least ==
  ASSUME NEW Holds \in SUBSET Nat, Holds # {}
  PROVE  \E m \in Holds : \A n \in Holds : m <= n
<1> DEFINE R == {ss \in Nat \X Nat : ss[1] < ss[2]}
<1>1. PICK m \in Holds : \A n \in Holds : <<n, m>> \notin R
  <2> HIDE DEF R
  <2>1. IsWellFoundedOn(R, Nat)
    BY Descent DEF R
  <2> QED BY <2>1, WFMin
<1>2. ASSUME NEW n \in Holds PROVE ~(n < m)
  BY <1>1
<1> QED
  BY <1>2

\* Induction: what holds of 0, and of n + 1 if of n, holds of every n.
LEMMA Induction ==
  ASSUME NEW Holds, 0 \in Holds, \A n \in Nat : n \in Holds => n + 1 \in Holds
  PROVE  \A n \in Nat : n \in Holds
<1>1. SUFFICES ASSUME Nat \ Holds # {} PROVE FALSE
  OBVIOUS
<1>2. PICK m \in Nat \ Holds : \A n \in Nat \ Holds : m <= n
  BY <1>1, Least
<1> QED
  BY <1>2

-----------------------------------------------------------------------------
(* The order of the heap.                                                  *)

\* Sequence numbers grow, and an item that was pulled before one that is still
\* queued has come back behind it.
OrderInv ==
  /\ \A e \in heap : e.seq < seq
  /\ \A p \in jumps :
       \A e, f \in heap : e.item = p[1] /\ f.item = p[2] => f.seq < e.seq
  /\ \A p \in jumps : Queued(p[2])

LEMMA PushOrder ==
  ASSUME IInv, OrderInv, NEW i \in Items, ~Queued(i), Push(i), jumps' = jumps
  PROVE  OrderInv'
<1> DEFINE new == [item |-> i, seq |-> seq]
<1>1. heap' = heap \cup {new} /\ seq' = seq + 1
  BY DEF Push
<1>2. seq \in Nat /\ \A e \in heap : e.seq \in Nat
  BY DEF IInv, TypeOK, Entries
<1>3. \A e \in heap' : e.seq < seq'
  BY <1>1, <1>2 DEF OrderInv
<1>4. \A p \in jumps' : p[2] # i
  BY DEF OrderInv
<1>5. ASSUME NEW p \in jumps', NEW e \in heap', NEW f \in heap', e.item = p[1], f.item = p[2]
      PROVE  f.seq < e.seq
  <2>1. f \in heap
    BY <1>1, <1>4, <1>5
  <2>2. CASE e \in heap
    BY <1>5, <2>1, <2>2 DEF OrderInv
  <2>3. CASE e = new
    BY <2>1, <2>3 DEF OrderInv
  <2> QED
    BY <1>1, <2>2, <2>3
<1>6. \A p \in jumps' : Queued(p[2])'
  BY <1>1 DEF OrderInv, Queued
<1> QED
  BY <1>3, <1>5, <1>6 DEF OrderInv

LEMMA PopOrder ==
  ASSUME IInv, OrderInv, Pop
  PROVE  OrderInv'
<1>1. PICK e \in heap :
        /\ heap' = heap \ {e}
        /\ jumps' = {p \in jumps : p[2] # e.item}
                       \cup {<<e.item, f.item>> : f \in heap \ {e}}
  BY DEF Pop
<1>2. seq' = seq
  BY DEF Pop
<1>3. \A g \in heap' : g.seq < seq'
  BY <1>1, <1>2 DEF OrderInv
<1>4. \A f \in heap' : f.item # e.item
  BY <1>1 DEF IInv, SingleFlight
<1>5. ASSUME NEW p \in jumps', NEW g \in heap', NEW f \in heap', g.item = p[1], f.item = p[2]
      PROVE  f.seq < g.seq
  BY <1>1, <1>4, <1>5 DEF OrderInv
<1>6. ASSUME NEW p \in jumps' PROVE Queued(p[2])'
  BY <1>1, <1>6 DEF OrderInv, Queued
<1> QED
  BY <1>3, <1>5, <1>6 DEF OrderInv

LEMMA NextOrder == ASSUME IInv, OrderInv, [Next]_vars PROVE OrderInv'
<1>1. ASSUME NEW c \in Commands, SubmitCommand(c) PROVE OrderInv'
  BY <1>1, PushOrder DEF SubmitCommand, Items
<1>2. ASSUME NEW j \in Jobs, SubmitPush(j) PROVE OrderInv'
  <2>1. ~Queued(j)
    BY <1>2 DEF SubmitPush, IInv, PlaceInv
  <2> QED
    BY <1>2, <2>1, PushOrder DEF SubmitPush, Items
<1>3. ASSUME Resubmit PROVE OrderInv'
  <2>1. PICK j \in Jobs : held = j
    BY <1>3 DEF Resubmit, IInv, HeldInv
  <2>2. ~Queued(j)
    BY <2>1 DEF IInv, SingleFlight, Queued
  <2>3. Push(j) /\ jumps' = jumps
    BY <1>3, <2>1 DEF Resubmit
  <2> QED
    BY <2>2, <2>3, PushOrder DEF Items
<1>4. ASSUME heap' = heap, seq' = seq, jumps' = jumps PROVE OrderInv'
  BY <1>4 DEF OrderInv, Queued
<1> QED
  BY <1>1, <1>2, <1>3, <1>4, PopOrder
     DEF Next, Submit, SubmitBegin, SubmitTrack, Cancel, Worker, Exit, RunCommand,
     DropJob, CheckJob, BeginChunk, Exhausted, ChunkDone, ChunkRaises, Finish,
     Stop, StopFlag, StopCheck, Joined, JoinTimeout, StopReturn, Ended, vars

\* Jobs share the worker: whatever is submitted, whatever a job's number of
\* chunks, an item waits for at most one pull of every other item of its class.
THEOREM FairShare == Spec => BoundedOvertaking
<1>1. Init => OrderInv
  BY DEF Init, OrderInv, Queued
<1>2. ASSUME IInv, OrderInv, [Next]_vars, NEW i \in Items, NEW k \in Items, Overtakes(i, k)
      PROVE  \/ Priority(i) < Priority(k)
             \/ Priority(i) = Priority(k) /\ <<i, k>> \notin jumps
  <2>1. Pop
    BY <1>2, JobRunnerAssumption DEF Overtakes, Items, Next, Submit, SubmitCommand,
       SubmitBegin, SubmitTrack, SubmitPush, Cancel, Worker, Exit, RunCommand,
       DropJob, CheckJob, BeginChunk, Exhausted, ChunkDone, ChunkRaises, Resubmit,
       Finish, Stop, StopFlag, StopCheck, Joined, JoinTimeout, StopReturn, Ended, vars
  <2>2. PICK e \in heap : e.item = i /\ \A f \in heap \ {e} : Before(e, f)
    BY <1>2, <2>1 DEF Pop, Overtakes
  <2>3. PICK f \in heap : f.item = k /\ f # e
    BY <1>2, <2>2 DEF Overtakes, Queued
  <2>4. Before(e, f)
    BY <2>2, <2>3
  <2>5. e.seq \in Nat /\ f.seq \in Nat
    BY <1>2 DEF IInv, TypeOK, Entries
  <2>6. <<i, k>> \in jumps => f.seq < e.seq
    BY <1>2, <2>2, <2>3 DEF OrderInv
  <2> QED
    BY <2>2, <2>3, <2>4, <2>5, <2>6 DEF Before
<1> DEFINE Bounded ==
      \A i, k \in Items :
        Overtakes(i, k) =>
          \/ Priority(i) < Priority(k)
          \/ Priority(i) = Priority(k) /\ <<i, k>> \notin jumps
<1>3. IInv /\ OrderInv /\ [Next]_vars => [Bounded]_vars
  BY <1>2
<1>4. IInv /\ OrderInv /\ [Next]_vars => OrderInv'
  BY NextOrder
<1> QED
  BY <1>1, <1>3, <1>4, Invariance, PTL DEF Spec, BoundedOvertaking

-----------------------------------------------------------------------------
(* The worker is never stuck: the safety half of its liveness.               *)

\* The guard of the worker's next step, and of the next step of a stop().
WorkerCanMove ==
  \/ worker = "idle" /\ \E e \in heap : \A f \in heap \ {e} : Before(e, f)
  \/ worker = "idle" /\ shutdown /\ Drained
  \/ worker \in {"popped", "checked", "chunk"}
  \/ worker \in {"resubmit", "finish"} /\ (Reloads(held) => UIServes)

StopCanMove(s) == stopper[s] \in {"flagged", "joining"}

WorkerNeverStuck ==
  worker # "exited" /\ (heap # {} \/ shutdown \/ worker # "idle") =>
    \/ WorkerCanMove
    \/ worker \in {"resubmit", "finish"} /\ StopCanMove(UIThread)

\* No two entries have the same sequence number.
SeqInv == \A e, f \in heap : e.seq = f.seq => e = f

LEMMA PushSeq ==
  ASSUME IInv, OrderInv, SeqInv, NEW i \in Items, Push(i)
  PROVE  SeqInv'
<1>1. heap' = heap \cup {[item |-> i, seq |-> seq]}
  BY DEF Push
<1>2. seq \in Nat /\ \A e \in heap : e.seq \in Nat /\ e.seq < seq
  BY DEF IInv, TypeOK, Entries, OrderInv
<1> QED
  BY <1>1, <1>2 DEF SeqInv

LEMMA NextSeq == ASSUME IInv, OrderInv, SeqInv, [Next]_vars PROVE SeqInv'
<1>1. ASSUME NEW c \in Commands, SubmitCommand(c) PROVE SeqInv'
  BY <1>1, PushSeq DEF SubmitCommand, Items
<1>2. ASSUME NEW j \in Jobs, SubmitPush(j) PROVE SeqInv'
  BY <1>2, PushSeq DEF SubmitPush, Items
<1>3. ASSUME Resubmit PROVE SeqInv'
  BY <1>3, PushSeq DEF Resubmit, IInv, HeldInv, Items
<1>4. ASSUME heap' \subseteq heap PROVE SeqInv'
  BY <1>4 DEF SeqInv
<1>5. CASE Pop
  BY <1>4, <1>5 DEF Pop
<1> QED
  BY <1>1, <1>2, <1>3, <1>4, <1>5
     DEF Next, Submit, SubmitBegin, SubmitTrack, Cancel, Worker, Exit, RunCommand,
     DropJob, CheckJob, BeginChunk, Exhausted, ChunkDone, ChunkRaises, Finish,
     Stop, StopFlag, StopCheck, Joined, JoinTimeout, StopReturn, Ended, vars

\* Of entries of one class the one with the least sequence number is before the others.
LEMMA FirstOfClass ==
  ASSUME IInv, SeqInv, NEW C \in SUBSET heap, C # {},
         \A e, f \in C : Priority(e.item) = Priority(f.item)
  PROVE  \E e \in C : \A f \in C \ {e} : Before(e, f)
<1> DEFINE numbers == {e.seq : e \in C}
<1>1. numbers \in SUBSET Nat /\ numbers # {}
  BY DEF IInv, TypeOK, Entries
<1>2. PICK n \in numbers : \A k \in numbers : n <= k
  BY <1>1, Least
<1>3. PICK e \in C : e.seq = n
  BY <1>2
<1>4. ASSUME NEW f \in C \ {e} PROVE Before(e, f)
  <2>1. e.seq <= f.seq /\ e.seq # f.seq /\ e.seq \in Nat /\ f.seq \in Nat
    BY <1>1, <1>2, <1>3 DEF SeqInv
  <2> QED
    BY <2>1 DEF Before
<1> QED
  BY <1>4

\* A heap that is not empty has a first entry, so that the worker can pull it.
LEMMA HeapHasFirst ==
  ASSUME IInv, SeqInv, heap # {}
  PROVE  \E e \in heap : \A f \in heap \ {e} : Before(e, f)
<1> DEFINE C == {e \in heap : e.item \in Commands}
<1>1. \A e \in heap : Priority(e.item) = IF e \in C THEN 0 ELSE 10
  BY DEF Priority, PRIORITY_INTERACTIVE, PRIORITY_CHUNKED
<1>2. CASE C # {}
  <2>1. PICK e \in C : \A f \in C \ {e} : Before(e, f)
    BY <1>1, <1>2, FirstOfClass
  <2>2. \A f \in heap \ C : Before(e, f)
    BY <1>1 DEF Before
  <2> QED
    BY <2>1, <2>2
<1>3. CASE C = {}
  BY <1>1, <1>3, FirstOfClass
<1> QED
  BY <1>2, <1>3

\* As long as anything is queued, held or to be stopped, the worker can go on, or it waits
\* for the UI thread to reload the changelists while that is in stop(): and there the
\* UI thread can go on, since the join has a time-out.  (_loop, run_next_chunk, stop.)
THEOREM WorkerMoves == Spec => []WorkerNeverStuck
<1>1. Init => OrderInv /\ SeqInv
  BY DEF Init, OrderInv, SeqInv, Queued
<1>2. ASSUME IInv, SeqInv PROVE WorkerNeverStuck
  <2>1. CASE worker = "idle" /\ heap # {}
    BY <1>2, <2>1, HeapHasFirst DEF WorkerNeverStuck, WorkerCanMove
  <2>2. CASE worker = "idle" /\ heap = {}
    BY <2>2 DEF WorkerNeverStuck, WorkerCanMove, Drained
  <2>3. CASE worker \in {"popped", "checked", "chunk", "exited"}
    BY <2>3 DEF WorkerNeverStuck, WorkerCanMove
  <2>4. CASE worker \in {"resubmit", "finish"}
    BY <2>4 DEF WorkerNeverStuck, WorkerCanMove, StopCanMove, UIServes
  <2> QED
    BY <1>2, <2>1, <2>2, <2>3, <2>4 DEF IInv, TypeOK, WorkerPC
<1> QED
  BY <1>1, <1>2, NextOrder, NextSeq, Invariance, PTL DEF Spec

-----------------------------------------------------------------------------
(* After stop() the exit of the worker comes nearer.  What is left to do is   *)
(* counted by the items that are queued or may still be, and by the steps of   *)
(* the worker to its next pull.                                             *)

Waiting == {c \in Commands : c \notin ran /\ ~Queued(c) /\ held # c}
Coming  == {j \in Jobs : pc[j] # "queued"}

\* A pull takes an item off; a resubmission, which puts one back, is higher by what it adds.
Steps ==
  [l \in WorkerPC |->
     CASE l = "idle" -> 1 [] l = "finish" -> 2 [] l = "popped" -> 5
       [] l = "resubmit" -> 8 [] l = "chunk" -> 9 [] l = "checked" -> 10 [] OTHER -> 0]

ToExit == 6 * (Cardinality(heap) + Cardinality(Waiting) + Cardinality(Coming)) + Steps[worker]

ExitNearer ==
  [][shutdown =>
       /\ ToExit \in Nat
       /\ ToExit' <= ToExit
       /\ Worker => ToExit' < ToExit]_vars

\* The numbers that are added.
LEMMA Counted ==
  ASSUME IsFiniteSet(Jobs), IsFiniteSet(Commands), IsFiniteSet(heap)
  PROVE  /\ IsFiniteSet(Waiting) /\ IsFiniteSet(Coming)
         /\ Cardinality(heap) \in Nat /\ Cardinality(Waiting) \in Nat
         /\ Cardinality(Coming) \in Nat
<1>1. Waiting \in SUBSET Commands /\ Coming \in SUBSET Jobs
  BY DEF Waiting, Coming
<1> QED
  BY <1>1, FS_Subset, FS_CardinalityType

\* A push adds an entry, as the item was not queued.
LEMMA PushCounts ==
  ASSUME IsFiniteSet(heap), NEW i \in Items, ~Queued(i), Push(i)
  PROVE  /\ IsFiniteSet(heap') /\ Cardinality(heap') = Cardinality(heap) + 1
         /\ \A k \in Items : Queued(k)' <=> Queued(k) \/ k = i
<1> DEFINE e == [item |-> i, seq |-> seq]
<1>1. heap' = heap \cup {e} /\ e \notin heap
  BY DEF Push, Queued
<1>2. IsFiniteSet(heap') /\ Cardinality(heap') = Cardinality(heap) + 1
  <2> HIDE DEF e
  <2> QED BY <1>1, FS_AddElement
<1>3. \A k \in Items : Queued(k)' <=> Queued(k) \/ k = i
  BY <1>1 DEF Queued
<1> QED
  BY <1>2, <1>3

\* The worker takes nothing from what is waiting to be submitted, nor adds to it, and each
\* of its steps lowers what it has to do.
LEMMA WorkerNearer ==
  ASSUME IInv, shutdown, IsFiniteSet(heap), Worker,
         NEW h \in Nat, h = Cardinality(heap)
  PROVE  /\ IsFiniteSet(heap') /\ Waiting' = Waiting /\ Coming' = Coming
         /\ \E g \in Nat : Cardinality(heap') = g /\ 6 * g + Steps[worker'] < 6 * h + Steps[worker]
<1>1. /\ Steps["idle"] = 1 /\ Steps["finish"] = 2 /\ Steps["popped"] = 5 /\ Steps["resubmit"] = 8
      /\ Steps["chunk"] = 9 /\ Steps["checked"] = 10 /\ Steps["exited"] = 0
  BY DEF Steps, WorkerPC
<1>2. CASE Pop
  <2>1. PICK e \in heap : heap' = heap \ {e} /\ held' = e.item
    BY <1>2 DEF Pop
  <2>2. IsFiniteSet(heap') /\ Cardinality(heap') = h - 1
    BY <2>1, FS_RemoveElement
  <2>3. h - 1 \in Nat
    BY <2>2, FS_CardinalityType
  <2>4. /\ worker = "idle" /\ worker' = "popped" /\ held \notin Items /\ ran' = ran /\ pc' = pc
        /\ \A k \in Items : Queued(k) <=> Queued(k)' \/ held' = k
    BY <1>2, <2>1, JobRunnerAssumption DEF Pop, Queued, IInv, HeldInv
  <2>5. Waiting' = Waiting /\ Coming' = Coming
    BY <2>4 DEF Waiting, Coming, Items
  <2> QED
    BY <1>1, <2>2, <2>3, <2>4, <2>5
<1>3. CASE Resubmit
  <2>1. held \in Jobs /\ ~Queued(held) /\ Push(held) /\ held' = None /\ ran' = ran /\ pc' = pc
    BY <1>3 DEF Resubmit, IInv, HeldInv, SingleFlight, Queued
  <2>2. /\ IsFiniteSet(heap') /\ Cardinality(heap') = h + 1
        /\ \A k \in Items : Queued(k)' <=> Queued(k) \/ k = held
    BY <2>1, PushCounts DEF Items
  <2>3. Waiting' = Waiting /\ Coming' = Coming
    BY <2>1, <2>2, JobRunnerAssumption DEF Waiting, Coming, Items
  <2> QED
    BY <1>1, <1>3, <2>2, <2>3 DEF Resubmit
<1>4. CASE Exit \/ RunCommand \/ DropJob \/ CheckJob \/ BeginChunk \/ Exhausted \/ ChunkDone
           \/ ChunkRaises \/ Finish
  <2>1. heap' = heap /\ pc' = pc /\ \A k \in Items : Queued(k)' <=> Queued(k)
    BY <1>4 DEF Exit, RunCommand, DropJob, CheckJob, BeginChunk, Exhausted, ChunkDone, ChunkRaises,
       Finish, Queued
  <2>2. \/ held' = held /\ ran' = ran
        \/ held \in Commands /\ ran' = ran \cup {held} /\ held' = None
        \/ held \in Jobs /\ ran' = ran /\ held' = None
    BY <1>4 DEF Exit, RunCommand, DropJob, CheckJob, BeginChunk, Exhausted, ChunkDone, ChunkRaises,
       Finish, IInv, HeldInv
  <2>3. Waiting' = Waiting /\ Coming' = Coming
    BY <2>1, <2>2, JobRunnerAssumption DEF Waiting, Coming, Items
  <2>4. \/ worker = "idle" /\ worker' = "exited"
        \/ worker = "popped" /\ worker' = "idle"
        \/ worker = "checked" /\ worker' \in {"chunk", "finish"}
        \/ worker = "chunk" /\ worker' \in {"resubmit", "finish"}
        \/ worker = "finish" /\ worker' = "idle"
    BY <1>4 DEF Exit, RunCommand, DropJob, CheckJob, MayRun, BeginChunk, Exhausted, ChunkDone,
       ChunkRaises, Finish
  <2> QED
    BY <1>1, <2>1, <2>3, <2>4
<1> QED
  BY <1>2, <1>3, <1>4 DEF Worker

\* Only a submission lowers the number of those that may still come, by one each.
LEMMA SubmitCounts ==
  ASSUME IInv, IsFiniteSet(Jobs), IsFiniteSet(Commands), IsFiniteSet(heap),
         (\E c \in Commands : SubmitCommand(c)) \/ \E j \in Jobs : SubmitPush(j)
  PROVE  /\ IsFiniteSet(heap') /\ worker' = worker
         /\ Cardinality(heap') + Cardinality(Waiting') + Cardinality(Coming')
              = Cardinality(heap) + Cardinality(Waiting) + Cardinality(Coming)
<1>1. CASE \E c \in Commands : SubmitCommand(c)
  <2>1. PICK c \in Commands : SubmitCommand(c)
    BY <1>1
  <2>2. /\ c \notin ran /\ ~Queued(c) /\ held # c /\ Push(c)
        /\ held' = held /\ ran' = ran /\ pc' = pc /\ worker' = worker
    BY <2>1 DEF SubmitCommand
  <2>3. /\ IsFiniteSet(heap') /\ Cardinality(heap') = Cardinality(heap) + 1
        /\ \A k \in Items : Queued(k)' <=> Queued(k) \/ k = c
    BY <2>2, PushCounts DEF Items
  <2>4. c \in Waiting /\ Waiting' = Waiting \ {c} /\ Coming' = Coming
    BY <2>2, <2>3 DEF Waiting, Coming, Items
  <2>5. Cardinality(Waiting') = Cardinality(Waiting) - 1
    BY <2>4, Counted, FS_RemoveElement
  <2> QED
    BY <2>2, <2>3, <2>4, <2>5, Counted
<1>2. CASE \E j \in Jobs : SubmitPush(j)
  <2>1. PICK j \in Jobs : SubmitPush(j)
    BY <1>2
  <2>2. /\ pc[j] = "tracked" /\ pc' = [pc EXCEPT ![j] = "queued"] /\ Push(j)
        /\ held' = held /\ ran' = ran /\ worker' = worker /\ ~Queued(j)
    BY <2>1 DEF SubmitPush, IInv, PlaceInv
  <2>3. /\ IsFiniteSet(heap') /\ Cardinality(heap') = Cardinality(heap) + 1
        /\ \A k \in Items : Queued(k)' <=> Queued(k) \/ k = j
    BY <2>2, PushCounts DEF Items
  <2>4. j \in Coming /\ Coming' = Coming \ {j} /\ Waiting' = Waiting
    BY <2>2, <2>3, JobRunnerAssumption DEF Waiting, Coming, Items, IInv, TypeOK
  <2>5. Cardinality(Coming') = Cardinality(Coming) - 1
    BY <2>4, Counted, FS_RemoveElement
  <2> QED
    BY <2>2, <2>3, <2>4, <2>5, Counted
<1> QED
  BY <1>1, <1>2

LEMMA OthersCount ==
  ASSUME IInv,
         \/ \E j \in Jobs : SubmitBegin(j) \/ SubmitTrack(j) \/ Cancel(j)
         \/ \E s \in Stoppers : Stop(s)
         \/ UNCHANGED vars
  PROVE  heap' = heap /\ Waiting' = Waiting /\ Coming' = Coming /\ worker' = worker
<1>1. /\ heap' = heap /\ worker' = worker /\ held' = held /\ ran' = ran
      /\ \A j \in Jobs : pc'[j] # "queued" <=> pc[j] # "queued"
  BY DEF IInv, TypeOK, SubmitBegin, SubmitTrack, Cancel, Stop, StopFlag, StopCheck, Joined, JoinTimeout,
     StopReturn, vars
<1> QED
  BY <1>1 DEF Waiting, Coming, Queued

LEMMA NextNearer ==
  ASSUME IInv, [Next]_vars, IsFiniteSet(Jobs), IsFiniteSet(Commands), IsFiniteSet(heap)
  PROVE  shutdown => /\ ToExit \in Nat
                     /\ ToExit' <= ToExit
                     /\ Worker => ToExit' < ToExit
<1> SUFFICES ASSUME shutdown
             PROVE  ToExit \in Nat /\ ToExit' <= ToExit /\ (Worker => ToExit' < ToExit)
  OBVIOUS
<1>1. PICK h \in Nat, n \in Nat, k \in Nat :
        h = Cardinality(heap) /\ n = Cardinality(Waiting) /\ k = Cardinality(Coming)
  BY Counted
<1>2. Steps[worker] \in Nat
  BY DEF IInv, TypeOK, Steps, WorkerPC
<1>3. ToExit = 6 * (h + n + k) + Steps[worker] /\ ToExit \in Nat
  BY <1>1, <1>2 DEF ToExit
<1>4. ASSUME Worker PROVE ToExit' <= ToExit /\ ToExit' < ToExit
  <2>1. Steps[worker'] \in Nat
    BY <1>4, NextInv DEF IInv, TypeOK, Steps, WorkerPC
  <2>2. PICK g \in Nat : Cardinality(heap') = g /\ 6 * g + Steps[worker'] < 6 * h + Steps[worker]
    BY <1>1, <1>4, WorkerNearer
  <2>3. Waiting' = Waiting /\ Coming' = Coming
    BY <1>4, WorkerNearer, Counted
  <2>4. ToExit' = 6 * (g + n + k) + Steps[worker']
    BY <1>1, <2>2, <2>3 DEF ToExit, Steps
  <2> QED
    BY <1>2, <1>3, <2>1, <2>2, <2>4
<1>5. CASE (\E c \in Commands : SubmitCommand(c)) \/ \E j \in Jobs : SubmitPush(j)
  <2>1. ToExit' = ToExit
    BY <1>5, SubmitCounts DEF ToExit, Steps
  <2> QED
    BY <1>3, <1>4, <2>1
<1>6. CASE \/ \E j \in Jobs : SubmitBegin(j) \/ SubmitTrack(j) \/ Cancel(j)
           \/ \E s \in Stoppers : Stop(s)
           \/ UNCHANGED vars
  <2>1. ToExit' = ToExit
    BY <1>6, OthersCount DEF ToExit, Steps
  <2> QED
    BY <1>3, <1>4, <2>1
<1> QED
  BY <1>3, <1>4, <1>5, <1>6 DEF Next, Submit, Ended

\* Once stop() has been called the worker runs out of steps: each of them takes it nearer to
\* the exit, and whatever is submitted meanwhile was counted, as there are finitely many
\* jobs and commands.  (_loop and run_next_chunk after _shutdown.)
THEOREM ExitComesNearer ==
  ASSUME IsFiniteSet(Jobs), IsFiniteSet(Commands)
  PROVE  Spec => ExitNearer
<1>1. Init => IsFiniteSet(heap)
  BY FS_EmptySet DEF Init
<1>2. ASSUME IInv, IsFiniteSet(heap), [Next]_vars PROVE IsFiniteSet(heap)'
  <2>1. CASE Worker
    <3>1. CASE Pop
      BY <1>2, <3>1, FS_RemoveElement DEF Pop
    <3>2. CASE Resubmit
      BY <1>2, <3>2, FS_AddElement DEF Resubmit, Push
    <3>3. heap' = heap => IsFiniteSet(heap')
      BY <1>2
    <3> QED
      BY <2>1, <3>1, <3>2, <3>3 DEF Worker, Exit, RunCommand, DropJob, CheckJob, BeginChunk, Exhausted,
         ChunkDone, ChunkRaises, Finish
  <2>2. CASE (\E c \in Commands : SubmitCommand(c)) \/ \E j \in Jobs : SubmitPush(j)
    BY <1>2, <2>2, SubmitCounts
  <2>3. CASE \/ \E j \in Jobs : SubmitBegin(j) \/ SubmitTrack(j) \/ Cancel(j)
             \/ \E s \in Stoppers : Stop(s)
             \/ UNCHANGED vars
    BY <1>2, <2>3, OthersCount
  <2> QED
    BY <1>2, <2>1, <2>2, <2>3 DEF Next, Submit, Ended
<1>3. IInv /\ IsFiniteSet(heap) /\ [Next]_vars => IsFiniteSet(heap)'
  BY <1>2
<1>4. IInv /\ IsFiniteSet(heap) /\ [Next]_vars =>
        [shutdown => /\ ToExit \in Nat
                     /\ ToExit' <= ToExit
                     /\ Worker => ToExit' < ToExit]_vars
  BY NextNearer
<1> QED
  BY <1>1, <1>3, <1>4, Invariance, PTL DEF Spec, ExitNearer

-----------------------------------------------------------------------------
(* The runner implements ChunkedExecution.                                 *)

LEMMA PromiseInit == ASSUME Init PROVE Promise!Init
BY DEF Init, Promise!Init

\* Steps that the sequential executor does not see.
LEMMA PromiseStutter ==
  ASSUME IInv,
         \/ \E c \in Commands : SubmitCommand(c)
         \/ \E j \in Jobs : SubmitBegin(j) \/ SubmitPush(j)
         \/ Pop \/ Exit \/ RunCommand \/ Resubmit \/ Finish
         \/ \E s \in Stoppers : StopCheck(s) \/ StopReturn(s)
         \/ UNCHANGED vars
  PROVE  UNCHANGED Promise!avars
<1>1. CASE \E j \in Jobs : SubmitBegin(j)
  BY <1>1 DEF SubmitBegin, IInv, TypeOK, PlaceInv, Promise!avars
<1>2. CASE \/ \E c \in Commands : SubmitCommand(c)
           \/ \E j \in Jobs : SubmitPush(j)
           \/ \E s \in Stoppers : StopCheck(s) \/ StopReturn(s)
           \/ UNCHANGED vars
  BY <1>2 DEF SubmitCommand, SubmitPush, StopCheck, StopReturn, vars, Promise!avars
<1>3. CASE Pop \/ Exit \/ RunCommand \/ Resubmit \/ Finish
  BY <1>3 DEF Pop, Exit, RunCommand, Resubmit, Finish, Promise!avars
<1> QED
  BY <1>1, <1>2, <1>3

\* submit_job accepts, Job.cancelled and stop() cancel.
LEMMA PromiseRequests ==
  ASSUME IInv,
         \/ \E j \in Jobs : SubmitTrack(j) \/ Cancel(j)
         \/ \E s \in Stoppers : StopFlag(s)
  PROVE  Promise!Next
<1>1. ASSUME NEW j \in Jobs, SubmitTrack(j) PROVE Promise!Accept(j)
  BY <1>1 DEF SubmitTrack, Tracking, IInv, PlaceInv, Promise!Accept
<1>2. ASSUME NEW j \in Jobs, Cancel(j) PROVE Promise!Cancel(j)
  BY <1>2 DEF Cancel, Promise!Cancel
<1>3. ASSUME NEW s \in Stoppers, StopFlag(s) PROVE Promise!StopAll
  BY <1>3 DEF StopFlag, Promise!StopAll
<1> QED
  BY <1>1, <1>2, <1>3 DEF Promise!Next

\* A turn of the worker.
LEMMA PromiseTurns ==
  ASSUME IInv,
         \/ CheckJob \/ BeginChunk \/ ChunkDone
         \/ DropJob \/ Exhausted \/ ChunkRaises
  PROVE  Promise!Next
<1> DEFINE Over == {i \in Jobs : log[i] \in {"done", "failed"}}
<1>1. PICK j \in Jobs : held = j
  BY DEF IInv, HeldInv, CheckJob, BeginChunk, ChunkDone, DropJob, Exhausted, ChunkRaises
<1>2. j \in active /\ log[j] = "running" /\ j # None
  BY <1>1, JobRunnerAssumption DEF IInv, StopReachesQueued, LogIsTruthful, CheckJob,
     BeginChunk, ChunkDone, DropJob, Exhausted, ChunkRaises, Items
<1>3. ASSUME NEW r \in {"done", "failed"}, EndJob(j, r)
      PROVE  Over' = Over \cup {j}
  BY <1>1, <1>2, <1>3 DEF EndJob, IInv, TypeOK
<1>4. ASSUME CheckJob PROVE Promise!Grant(j)
  BY <1>1, <1>2, <1>4 DEF CheckJob, MayRun, Promise!Grant
<1>5. ASSUME BeginChunk PROVE Promise!Begin(j)
  BY <1>1, <1>5 DEF BeginChunk, HasNext, Promise!Begin
<1>6. ASSUME ChunkDone PROVE Promise!Complete(j)
  BY <1>1, <1>6 DEF ChunkDone, Promise!Complete
<1>7. ASSUME DropJob PROVE Promise!Drop(j)
  BY <1>1, <1>2, <1>3, <1>7 DEF DropJob, EndJob, MayRun, Promise!Drop, Promise!Close
<1>8. ASSUME Exhausted PROVE Promise!Exhaust(j)
  <2>1. done[j] >= Chunks[j]
    BY <1>1, <1>8, JobRunnerAssumption DEF Exhausted, HasNext, IInv, TypeOK
  <2> QED
    BY <1>1, <1>3, <1>8, <2>1 DEF Exhausted, EndJob, Promise!Exhaust, Promise!Close
<1>9. ASSUME ChunkRaises PROVE Promise!Raise(j)
  BY <1>1, <1>3, <1>9 DEF ChunkRaises, EndJob, Promise!Raise, Promise!Close
<1> QED
  BY <1>4, <1>5, <1>6, <1>7, <1>8, <1>9 DEF Promise!Next

\* Every behaviour of the runner is one of the sequential executor: a chunk
\* is executed only in its job's turn, a turn is given only to a job that is
\* accepted and not asked to end, and a job closes for no other reason than
\* those the executor names.
THEOREM Implements == Spec => ImplementsChunkedExecution
<1>1. ASSUME IInv, [Next]_vars PROVE [Promise!Next]_(Promise!avars)
  BY <1>1, PromiseStutter, PromiseRequests, PromiseTurns
     DEF Next, Submit, Worker, Stop, Joined, JoinTimeout, Ended
<1> QED
  BY <1>1, PromiseInit, Invariance, PTL DEF Spec, ImplementsChunkedExecution, Promise!Spec

-----------------------------------------------------------------------------
(* The submit job.                                                         *)

\* A commit of this job is final, is the only cause of the answer that says
\* so, and is never followed by an error about the files of the changelist.
AnswerInv ==
  /\ committed => change = "submitted"
  /\ step = "answered" => answer # "none"
  /\ answer = "committed" => committed
  /\ committed => answer \notin {"nofile", "rejected"}

AttemptInv == step \in {"submit", "sent", "answered"} => attempt < MaxAttempts

SubmitInv == S!TypeOK /\ AnswerInv /\ AttemptInv /\ S!LostAckIsSuccess

USE DEF S!SubmitAssumption, S!job, S!hist, S!SubmitPC, S!Answers

\* Nothing has been sent.
LEMMA SubmitInit == ASSUME S!Init PROVE SubmitInv
<1>1. attempt \in 0..MaxAttempts /\ outages \in 0..MaxOutages /\ attempt < MaxAttempts
  BY SubmitAssumption DEF S!Init
<1> QED
  BY <1>1 DEF S!Init, SubmitInv, S!TypeOK, AnswerInv, AttemptInv, S!LostAckIsSuccess

\* What a lost connection leaves behind.
LEMMA Lost ==
  ASSUME SubmitInv, S!Lose, step \in {"submit", "sent", "answered"}
  PROVE  /\ step' \in {"submit", "failed"} /\ answer' = "none"
         /\ attempt' \in 0..MaxAttempts
         /\ step' = "submit" => attempt' < MaxAttempts
         /\ step' = "failed" => attempt' = MaxAttempts
BY SubmitAssumption DEF SubmitInv, S!TypeOK, AttemptInv, S!Lose, S!Counted, S!Exhausted

\* One step per action of the chunk, of the server and of the other sessions.
LEMMA SubmitNext == ASSUME SubmitInv, [S!Next]_(S!vars) PROVE SubmitInv'
<1>1. CASE S!Send
  BY <1>1 DEF SubmitInv, S!Send, S!TypeOK, AnswerInv, AttemptInv, S!LostAckIsSuccess
<1>2. CASE S!ConnectFails
  BY <1>2, Lost DEF SubmitInv, S!ConnectFails, S!TypeOK, AnswerInv, AttemptInv, S!LostAckIsSuccess
<1>3. CASE S!Commit
  BY <1>3 DEF SubmitInv, S!Commit, S!TypeOK, AnswerInv, AttemptInv, S!LostAckIsSuccess
<1>4. CASE S!Refuse
  BY <1>4 DEF SubmitInv, S!Refuse, S!TypeOK, AnswerInv, AttemptInv, S!LostAckIsSuccess
<1>5. CASE S!Receive
  <2>1. attempt' \in 0..MaxAttempts
    BY <1>5, SubmitAssumption DEF SubmitInv, S!TypeOK, AttemptInv, S!Receive
  <2>2. step' = "failed" => ~committed
    BY <1>5 DEF SubmitInv, S!TypeOK, AnswerInv, S!Receive, S!LooksAlready
  <2>3. S!TypeOK'
    BY <1>5, <2>1 DEF SubmitInv, S!TypeOK, S!Receive
  <2> QED
    BY <1>5, <2>2, <2>3 DEF SubmitInv, S!Receive, AnswerInv, AttemptInv, S!LostAckIsSuccess
<1>6. CASE S!Verify
  BY <1>6 DEF SubmitInv, S!Verify, S!StillPending, S!TypeOK, AnswerInv, AttemptInv, S!LostAckIsSuccess
<1>7. CASE S!VerifyFails
  BY <1>7 DEF SubmitInv, S!VerifyFails, S!TypeOK, AnswerInv, AttemptInv, S!LostAckIsSuccess
<1>8. CASE S!ServerDown
  <2>0. outages \in 0..MaxOutages /\ outages < MaxOutages /\ outages' = outages + 1
    BY <1>8 DEF SubmitInv, S!ServerDown, S!TypeOK
  <2>1. outages' \in 0..MaxOutages
    BY <2>0, SubmitAssumption
  <2>2. CASE step \in {"sent", "answered"}
    BY <1>8, <2>1, <2>2, Lost
    DEF SubmitInv, S!ServerDown, S!TypeOK, AnswerInv, AttemptInv, S!LostAckIsSuccess
  <2>3. CASE step \notin {"sent", "answered"}
    BY <1>8, <2>1, <2>3 DEF SubmitInv, S!ServerDown, S!TypeOK, AnswerInv, AttemptInv, S!LostAckIsSuccess
  <2> QED
    BY <2>2, <2>3
<1>9. CASE S!ServerUp
  BY <1>9 DEF SubmitInv, S!ServerUp, S!TypeOK, AnswerInv, AttemptInv, S!LostAckIsSuccess
<1>10. CASE S!OtherSession
  BY <1>10 DEF SubmitInv, S!OtherSession, S!TypeOK, AnswerInv, AttemptInv, S!LostAckIsSuccess
<1>11. CASE UNCHANGED S!vars
  BY <1>11 DEF S!vars, SubmitInv, S!TypeOK, AnswerInv, AttemptInv, S!LostAckIsSuccess
<1> QED
  BY <1>1, <1>2, <1>3, <1>4, <1>5, <1>6, <1>7, <1>8, <1>9, <1>10, <1>11 DEF S!Next, S!Chunk

LEMMA SubmitInvariance == S!Spec => []SubmitInv
BY SubmitInit, SubmitNext, PTL DEF S!Spec

\* The state is well-typed: no more than MaxAttempts attempts are made.
THEOREM SubmitTypeCorrect == S!Spec => []S!TypeOK
BY SubmitInvariance, PTL DEF SubmitInv

\* A commit whose acknowledgement was lost is reported as a failure only when
\* the attempts are used up, whatever the server and others do meanwhile.
THEOREM LostAck == S!Spec => []LostAckIsSuccess
BY SubmitInvariance, PTL DEF SubmitInv, LostAckIsSuccess

\* A changelist that is reported as submitted is not pending, if that could be
\* verified.
THEOREM DoneNotPending == S!Spec => S!DoneIsNotPending
<1> DEFINE A == step # "done" /\ step' = "done" /\ ~blind' => change # "pending"
<1>1. ASSUME SubmitInv, [S!Next]_(S!vars) PROVE [A]_(S!vars)
  <2> SUFFICES ASSUME step # "done", step' = "done", ~blind' PROVE change # "pending"
    OBVIOUS
  <2>1. S!Receive \/ S!Verify \/ S!VerifyFails
    BY <1>1 DEF SubmitInv, S!TypeOK, S!Next, S!Chunk, S!Send, S!ConnectFails, S!Lose, S!Commit, S!Refuse, S!ServerDown,
       S!ServerUp, S!OtherSession, S!Ended, S!vars
  <2> QED
    BY <1>1, <2>1 DEF SubmitInv, AnswerInv, S!Receive, S!Verify, S!VerifyFails, S!StillPending
<1>2. SubmitInv /\ [S!Next]_(S!vars) => [A]_(S!vars)
  BY <1>1
<1> QED
  BY <1>2, SubmitInvariance, PTL DEF S!Spec, S!DoneIsNotPending

HIDE DEF queue, thread, books, jobs, stops, hist
HIDE DEF S!SubmitAssumption, S!job, S!hist, S!SubmitPC, S!Answers

-----------------------------------------------------------------------------
(* The folds of the community modules, as steps from one element to the next.*)

\* The recursion of FlattenSeq is well-founded.
LEMMA FlattenExists ==
  ASSUME NEW s
  PROVE  \A n \in Nat : \E f : f = [i \in 1..n |-> IF i = 1 THEN s[i] ELSE f[i-1] \o s[i]]
<1> DEFINE Is(f, n) == f = [i \in 1..n |-> IF i = 1 THEN s[i] ELSE f[i-1] \o s[i]]
           Holds == {n \in Nat : \E f : Is(f, n)}
<1>1. 0 \in Holds
  <2>1. Is(<<>>, 0)
    OBVIOUS
  <2> QED BY <2>1
<1>2. ASSUME NEW n \in Nat, n \in Holds PROVE n + 1 \in Holds
  <2>1. PICK f : Is(f, n)
    BY <1>2
  <2> DEFINE g == [i \in 1..n + 1 |-> IF i = 1 THEN s[i] ELSE f[i-1] \o s[i]]
  <2>0. \A i \in 1..n : f[i] = IF i = 1 THEN s[i] ELSE f[i-1] \o s[i]
    <3> HIDE DEF g, Holds
    <3> QED BY <2>1
  <2>1a. g = [i \in 1..n + 1 |-> IF i = 1 THEN s[i] ELSE f[i-1] \o s[i]]
    OBVIOUS
  <2>2. \A i \in 1..n : g[i] = f[i]
    BY <2>0
  <2> HIDE DEF g
  <2>3. \A i \in 1..n + 1 : i # 1 => g[i-1] = f[i-1]
    BY <2>2
  <2>4. g = [i \in 1..n + 1 |-> IF i = 1 THEN s[i] ELSE g[i-1] \o s[i]]
    BY <2>1a, <2>3
  <2>5. Is(g, n + 1)
    BY <2>4
  <2> HIDE DEF Is
  <2> QED
    BY <2>5
<1>3. \A n \in Nat : n \in Holds
  <2> HIDE DEF Holds
  <2> QED BY <1>1, <1>2, Induction
<1> QED
  BY <1>3

\* What FlattenSeq computes, one sequence after the other.
LEMMA FlattenSteps ==
  ASSUME NEW Elem, NEW s \in Seq(Seq(Elem)), s # <<>>
  PROVE  \E g \in [0..Len(s) -> Seq(Elem)] :
           /\ g[0] = <<>> /\ g[Len(s)] = M!FlattenSeq(s)
           /\ \A i \in 1..Len(s) : g[i] = g[i-1] \o s[i]
<1> DEFINE n == Len(s)
           f == CHOOSE f : f = [i \in 1..n |-> IF i = 1 THEN s[i] ELSE f[i-1] \o s[i]]
           g == [i \in 0..n |-> IF i = 0 THEN <<>> ELSE f[i]]
<1>1. n \in Nat /\ n # 0
  OBVIOUS
<1>2. f = [i \in 1..n |-> IF i = 1 THEN s[i] ELSE f[i-1] \o s[i]]
  BY <1>1, FlattenExists
<1>3. M!FlattenSeq(s) = f[n]
  BY <1>1, Zenon DEF M!FlattenSeq
<1> HIDE DEF f
<1>4. \A i \in 1..n : f[i] = IF i = 1 THEN s[i] ELSE f[i-1] \o s[i]
  BY <1>2
<1>5. \A i \in 1..n : s[i] \in Seq(Elem) /\ s[i] = <<>> \o s[i]
  BY ConcatEmptySeq, ElementOfSeq
<1>6a. g[0] = <<>>
  OBVIOUS
<1>6. \A i \in 1..n : g[i] = f[i]
  OBVIOUS
<1> HIDE DEF g
<1>7. ASSUME NEW i \in 1..n PROVE g[i] = g[i-1] \o s[i]
  <2>1. CASE i = 1
    <3>1. g[1] = f[1] /\ f[1] = s[1] /\ g[1 - 1] = <<>>
      BY <2>1, <1>4, <1>6, <1>6a
    <3> QED BY <3>1, <2>1, <1>5
  <2>2. CASE i # 1
    <3>1. i \in 1..n /\ i - 1 \in 1..n
      BY <2>2, <1>1
    <3> QED BY ONLY <3>1, <2>2, <1>4, <1>6
  <2> QED BY <2>1, <2>2
<1> DEFINE Holds == {i \in Nat : i <= n => g[i] \in Seq(Elem)}
<1>8. \A i \in Nat : i \in Holds
  <2>1. 0 \in Holds
    BY ONLY EmptySeq, <1>6a
  <2>2. ASSUME NEW i \in Nat, i \in Holds PROVE i + 1 \in Holds
    <3> SUFFICES ASSUME i + 1 <= n PROVE g[i+1] \in Seq(Elem)
      OBVIOUS
    <3>1. g[i] \in Seq(Elem) /\ s[i+1] \in Seq(Elem) /\ g[i+1] = g[i] \o s[i+1]
      <4>1. i + 1 \in 1..n /\ i <= n /\ (i + 1) - 1 = i
        BY <1>1
      <4> QED BY <4>1, <1>5, <1>7, <2>2
    <3> QED BY <3>1
  <2> HIDE DEF Holds
  <2> QED BY <2>1, <2>2, Induction
<1>9. g \in [0..n -> Seq(Elem)]
  <2>1. \A i \in 0..n : g[i] \in Seq(Elem)
    BY <1>1, <1>8
  <2> QED BY <2>1 DEF g
<1>10. g[n] = M!FlattenSeq(s)
  BY <1>1, <1>3, <1>6
<1> HIDE DEF n
<1>11. g[0] = <<>> /\ g[n] = M!FlattenSeq(s) /\ \A i \in 1..n : g[i] = g[i-1] \o s[i]
  BY ONLY <1>6a, <1>7, <1>10
<1> QED
  BY ONLY <1>9, <1>11 DEF n

\* g[i] is the first i sequences of s, one after the other.
Flattened(g, s, Elem) ==
  /\ g \in [0..Len(s) -> Seq(Elem)] /\ g[0] = <<>> /\ g[Len(s)] = M!FlattenSeq(s)
  /\ \A i \in 1..Len(s) : g[i] = g[i-1] \o s[i]

\* The same, for lemmas that need not see how it is done.
LEMMA Flattening ==
  ASSUME NEW Elem, NEW s, s \in Seq(Seq(Elem)), s # <<>>
  PROVE  \E g : Flattened(g, s, Elem)
<1>1. PICK g \in [0..Len(s) -> Seq(Elem)] :
           /\ g[0] = <<>> /\ g[Len(s)] = M!FlattenSeq(s)
           /\ \A i \in 1..Len(s) : g[i] = g[i-1] \o s[i]
  BY FlattenSteps
<1>2. Flattened(g, s, Elem)
  BY ONLY <1>1 DEF Flattened
<1> QED
  BY <1>2

\* The step of the parser, or of Reconstruct, so that both folds are one.
StepOf(parse, c, x, y) == IF parse = "parse" THEN M!Next3(x, y) ELSE M!Add(c, x, y)

\* it is the recursive function of a fold over the first n elements of t.
IsFold(it, parse, c, b, t, n) ==
  it = [ss \in SUBSET (1..n) |->
    IF ss = {} THEN b ELSE StepOf(parse, c, it[ss \ {M!Max(ss)}], t[M!Max(ss)])]

\* it goes through the first n elements of t in their order.
Follows(it, parse, c, b, t, n) ==
  /\ it[1..0] = b
  /\ \A i \in 1..n : it[1..i] = StepOf(parse, c, it[1..i - 1], t[i])

\* The greatest number of a set of positions.
LEMMA MaxIs ==
  ASSUME NEW n \in Nat, NEW ss \in SUBSET (1..n), ss # {}
  PROVE  M!Max(ss) \in ss /\ \A y \in ss : y <= M!Max(ss)
<1> DEFINE U == {u \in Nat : \A y \in ss : y <= u}
<1>1. n \in U
  OBVIOUS
<1>2. PICK u \in U : \A v \in U : u <= v
  <2>1. U \in SUBSET Nat /\ U # {}
    BY <1>1
  <2> HIDE DEF U
  <2> QED BY <2>1, Least
<1>3. u \in ss
  <2> SUFFICES ASSUME u \notin ss PROVE FALSE
    OBVIOUS
  <2>1. u # 0
    <3>1. u \in Nat /\ \A y \in ss : y <= u
      OBVIOUS
    <3>2. PICK y \in ss : y \in 1..n
      OBVIOUS
    <3> QED BY ONLY <3>1, <3>2
  <2>2. u - 1 \in U
    BY <2>1
  <2> QED BY <2>2, <1>2
<1>4. \E x \in ss : \A y \in ss : x >= y
  BY <1>3
<1> QED
  BY <1>4 DEF M!Max

\* The recursion of a fold is well-founded.
LEMMA FoldExists ==
  ASSUME NEW parse, NEW c, NEW b, NEW t
  PROVE  \A n \in Nat : \E it : IsFold(it, parse, c, b, t, n)
<1> DEFINE E(it, ss) == IF ss = {} THEN b ELSE StepOf(parse, c, it[ss \ {M!Max(ss)}], t[M!Max(ss)])
           Is(it, n) == it = [ss \in SUBSET (1..n) |-> E(it, ss)]
           Holds == {n \in Nat : \E it : Is(it, n)}
<1>1. 0 \in Holds
  <2> DEFINE it == [ss \in SUBSET (1..0) |-> b]
  <2>1. \A ss \in SUBSET (1..0) : ss = {}
    OBVIOUS
  <2>2. it = [ss \in SUBSET (1..0) |-> E(it, ss)]
    BY <2>1
  <2> HIDE DEF it, E
  <2> QED BY <2>2
<1>2. ASSUME NEW n \in Nat, n \in Holds PROVE n + 1 \in Holds
  <2>1. PICK f : f = [ss \in SUBSET (1..n) |-> E(f, ss)]
    BY <1>2
  <2> DEFINE g == [ss \in SUBSET (1..n + 1) |-> E(f, ss)]
  <2>2. \A ss \in SUBSET (1..n) : f[ss] = E(f, ss)
    <3> HIDE DEF g, E
    <3> QED BY <2>1
  <2>3. \A ss \in SUBSET (1..n + 1) : g[ss] = E(f, ss)
    <3> HIDE DEF E
    <3> QED OBVIOUS
  <2>4. \A ss \in SUBSET (1..n) : ss \in SUBSET (1..n + 1) /\ g[ss] = f[ss]
    <3> HIDE DEF E, g
    <3> QED BY <2>2, <2>3
  <2>5. ASSUME NEW ss \in SUBSET (1..n + 1) PROVE E(f, ss) = E(g, ss)
    <3> HIDE DEF g
    <3>1. CASE ss = {}
      BY <3>1
    <3>2. CASE ss # {}
      <4>0. n + 1 \in Nat /\ ss \in SUBSET (1..n + 1)
        BY ONLY n \in Nat, ss \in SUBSET (1..n + 1)
      <4>1. M!Max(ss) \in ss /\ \A y \in ss : y <= M!Max(ss)
        BY ONLY <4>0, <3>2, MaxIs
      <4>2. \A y \in ss \ {M!Max(ss)} : y \in 1..n
        <5> SUFFICES ASSUME NEW y \in ss, y # M!Max(ss) PROVE y \in 1..n
          OBVIOUS
        <5>1. y \in 1..n + 1 /\ M!Max(ss) \in 1..n + 1 /\ y <= M!Max(ss)
          BY ONLY <4>1, ss \in SUBSET (1..n + 1), y \in ss
        <5> QED BY ONLY <5>1, y # M!Max(ss), n \in Nat
      <4> QED BY <4>2, <2>4
    <3> QED BY <3>1, <3>2
  <2>6. g = [ss \in SUBSET (1..n + 1) |-> E(g, ss)]
    <3>1. g = [ss \in SUBSET (1..n + 1) |-> E(f, ss)]
      OBVIOUS
    <3> HIDE DEF E, g
    <3> QED BY <3>1, <2>5
  <2> HIDE DEF g, E
  <2> QED BY <2>6
<1>3. \A n \in Nat : n \in Holds
  <2> HIDE DEF Holds
  <2> QED BY <1>1, <1>2, Induction
<1> QED
  BY <1>3 DEF IsFold

\* A fold goes through a sequence in its order.
LEMMA FoldSteps ==
  ASSUME NEW parse, NEW c, NEW b, NEW t, NEW n \in Nat, NEW it,
         IsFold(it, parse, c, b, t, n)
  PROVE  Follows(it, parse, c, b, t, n)
<1>1. \A ss \in SUBSET (1..n) :
        it[ss] = IF ss = {} THEN b ELSE StepOf(parse, c, it[ss \ {M!Max(ss)}], t[M!Max(ss)])
  BY DEF IsFold
<1>2. it[1..0] = b
  BY ONLY <1>1, n \in Nat
<1>3. ASSUME NEW i \in 1..n PROVE it[1..i] = StepOf(parse, c, it[1..i - 1], t[i])
  <2>1. 1..i \in SUBSET (1..n) /\ 1..i # {} /\ i \in 1..i
    BY ONLY n \in Nat, i \in 1..n
  <2>2. M!Max(1..i) = i
    <3>1. M!Max(1..i) \in 1..i /\ \A y \in 1..i : y <= M!Max(1..i)
      BY ONLY <2>1, n \in Nat, MaxIs
    <3> QED BY ONLY <3>1, n \in Nat, i \in 1..n
  <2>3. (1..i) \ {i} = 1..i - 1
    BY ONLY n \in Nat, i \in 1..n
  <2> QED BY ONLY <1>1, <2>1, <2>2, <2>3
<1> QED
  BY ONLY <1>2, <1>3 DEF Follows

\* The parser goes from line to line: p[i] is what it holds after i lines.
LEMMA ParseSteps ==
  ASSUME NEW t, NEW n \in Nat, DOMAIN t = 1..n
  PROVE  \E p : /\ p[0] = M!Start /\ p[n] = M!FoldLeft(M!Next3, M!Start, t)
                /\ \A i \in 1..n : p[i] = M!Next3(p[i-1], t[i])
<1> DEFINE Is(it) == it = [ss \in SUBSET DOMAIN t |->
             IF ss = {} THEN M!Start ELSE M!Next3(it[ss \ {M!Max(ss)}], t[M!Max(ss)])]
           it == CHOOSE it : Is(it)
           p == [i \in 0..n |-> it[1..i]]
<1>1. M!FoldLeft(M!Next3, M!Start, t) = it[DOMAIN t]
  BY Zenon DEF M!FoldLeft, M!MapThenFoldSet
<1>2. \E h : Is(h)
  <2>1. PICK h : IsFold(h, "parse", 0, M!Start, t, n)
    BY ONLY FoldExists, n \in Nat
  <2>2. Is(h)
    BY ONLY <2>1, DOMAIN t = 1..n DEF StepOf, IsFold
  <2> HIDE DEF Is
  <2> QED BY <2>2
<1>3. Is(it)
  <2> HIDE DEF Is
  <2> QED BY <1>2
<1> HIDE DEF it
<1>4. IsFold(it, "parse", 0, M!Start, t, n)
  BY ONLY <1>3, DOMAIN t = 1..n DEF StepOf, IsFold
<1>5. Follows(it, "parse", 0, M!Start, t, n)
  BY ONLY <1>4, FoldSteps, n \in Nat
<1>6. p[0] = M!Start /\ p[n] = it[1..n] /\ \A i \in 1..n : p[i] = M!Next3(p[i-1], t[i])
  BY <1>5 DEF Follows, StepOf
<1> HIDE DEF p
<1> QED
  BY <1>1, <1>6

\* What Reconstruct begins with, and what it has after the segments segs.
Begin == [out |-> <<>>, n |-> 1]
Rebuilt(c, segs) == M!FoldLeft(LAMBDA r, seg : M!Add(c, r, seg), Begin, segs)

\* Reconstruct goes from segment to segment.
LEMMA RebuildSteps ==
  ASSUME NEW c, NEW t, NEW n \in Nat, DOMAIN t = 1..n
  PROVE  \E p : /\ p[0] = Begin /\ p[n] = Rebuilt(c, t)
                /\ \A i \in 1..n : p[i] = M!Add(c, p[i-1], t[i])
<1> DEFINE Is(it) == it = [ss \in SUBSET DOMAIN t |->
             IF ss = {} THEN Begin ELSE M!Add(c, it[ss \ {M!Max(ss)}], t[M!Max(ss)])]
           it == CHOOSE it : Is(it)
           p == [i \in 0..n |-> it[1..i]]
<1>1. Rebuilt(c, t) = it[DOMAIN t]
  BY Zenon DEF Rebuilt, M!FoldLeft, M!MapThenFoldSet
<1>2. \E h : Is(h)
  <2>1. PICK h : IsFold(h, "rebuild", c, Begin, t, n)
    BY ONLY FoldExists, n \in Nat
  <2>2. Is(h)
    BY ONLY <2>1, DOMAIN t = 1..n DEF StepOf, IsFold
  <2> HIDE DEF Is
  <2> QED BY <2>2
<1>3. Is(it)
  <2> HIDE DEF Is
  <2> QED BY <1>2
<1> HIDE DEF it
<1>4. IsFold(it, "rebuild", c, Begin, t, n)
  BY ONLY <1>3, DOMAIN t = 1..n DEF StepOf, IsFold
<1>5. Follows(it, "rebuild", c, Begin, t, n)
  BY ONLY <1>4, FoldSteps, n \in Nat
<1>6. p[0] = Begin /\ p[n] = it[1..n] /\ \A i \in 1..n : p[i] = M!Add(c, p[i-1], t[i])
  BY <1>5 DEF Follows, StepOf
<1> HIDE DEF p
<1> QED
  BY <1>1, <1>6

\* One more segment is one more step of Reconstruct.
LEMMA RebuiltAppend ==
  ASSUME NEW c, NEW Elem, NEW segs \in Seq(Elem), NEW x \in Elem
  PROVE  Rebuilt(c, Append(segs, x)) = M!Add(c, Rebuilt(c, segs), x)
<1> DEFINE n == Len(segs)
           more == Append(segs, x)
<1>1. /\ n \in Nat /\ DOMAIN segs = 1..n /\ DOMAIN more = 1..n + 1
      /\ more[n + 1] = x /\ \A i \in 1..n : more[i] = segs[i]
  BY AppendProperties, LenProperties
<1> HIDE DEF n, more
<1>2. PICK p : /\ p[0] = Begin /\ p[n] = Rebuilt(c, segs)
               /\ \A i \in 1..n : p[i] = M!Add(c, p[i-1], segs[i])
  BY ONLY <1>1, RebuildSteps
<1>3. PICK q : /\ q[0] = Begin /\ q[n + 1] = Rebuilt(c, more)
               /\ \A i \in 1..n + 1 : q[i] = M!Add(c, q[i-1], more[i])
  <2>1. n + 1 \in Nat
    BY <1>1
  <2> QED BY ONLY <2>1, <1>1, RebuildSteps
<1> DEFINE Holds == {i \in Nat : i <= n => p[i] = q[i]}
<1>4. \A i \in Nat : i \in Holds
  <2>1. 0 \in Holds
    BY ONLY <1>2, <1>3
  <2>2. ASSUME NEW i \in Nat, i \in Holds PROVE i + 1 \in Holds
    <3> SUFFICES ASSUME i + 1 <= n PROVE p[i+1] = q[i+1]
      OBVIOUS
    <3>1. i + 1 \in 1..n /\ i + 1 \in 1..n + 1 /\ (i + 1) - 1 = i /\ p[i] = q[i]
      BY ONLY <1>1, <2>2, i \in Nat, i + 1 <= n
    <3> QED BY ONLY <1>1, <1>2, <1>3, <3>1
  <2> HIDE DEF Holds
  <2> QED BY ONLY <2>1, <2>2, Induction
<1>5. n + 1 \in 1..n + 1 /\ (n + 1) - 1 = n /\ p[n] = q[n]
  BY ONLY <1>1, <1>4
<1>6. Rebuilt(c, more) = M!Add(c, Rebuilt(c, segs), x)
  BY ONLY <1>1, <1>2, <1>3, <1>5
<1> QED
  BY ONLY <1>6 DEF more

\* Without a segment nothing is put together.
LEMMA RebuiltEmpty == ASSUME NEW c PROVE Rebuilt(c, <<>>) = Begin
<1>1. DOMAIN <<>> = 1..0 /\ 0 \in Nat
  OBVIOUS
<1> QED
  BY ONLY <1>1, RebuildSteps

-----------------------------------------------------------------------------
(* The parser reads lines without a marker, and the lines of a conflict.   *)

\* A line without a marker, and a chunk of the three-way merge.
Plain == [mark : {""}, word : STRING]
Chunk == [base : Seq(Plain), theirs : Seq(Plain), yours : Seq(Plain)]

\* The segments the parser makes, and what it holds between two lines.
Common == [kind : {"common"}, lines : Seq(Plain)]
Hunk == [kind : {"conflict"}, base : Seq(Plain), theirs : Seq(Plain), yours : Seq(Plain)]
Segment == Common \cup Hunk
Labels == {"", "ORIGINAL", "THEIRS", "YOURS"}
Section == [label : Labels, lines : Seq(Plain)]
State == [segs : Seq(Segment), inside : BOOLEAN, sections : Seq(Section), label : Labels, buf : Seq(Plain)]

\* The parser p reads the lines l from position a on.
Reads(p, a, l) == \A j \in 1..Len(l) : p[a + j] = M!Next3(p[a + j - 1], l[j])

\* A line without a marker goes into the buffer.
LEMMA PlainStep ==
  ASSUME NEW p \in State, NEW l \in Plain
  PROVE  M!Next3(p, l) = [p EXCEPT !.buf = Append(p.buf, l)]
BY DEF M!Next3, State, Plain

\* The parser q after the lines l without a marker.
Took(q, l) == [q EXCEPT !.buf = q.buf \o l]

\* Lines without a marker all go into the buffer, by induction over their number.
LEMMA PlainRun ==
  ASSUME NEW p, NEW a \in Nat, NEW l, l \in Seq(Plain), p[a] \in State, Reads(p, a, l)
  PROVE  p[a + Len(l)] = Took(p[a], l)
<1> DEFINE Now(d) == [p[a] EXCEPT !.buf = p[a].buf \o SubSeq(l, 1, d)]
           Holds == {d \in Nat : d <= Len(l) => p[a + d] = Now(d)}
<1>0. p[a].buf \in Seq(Plain) /\ Len(l) \in Nat
  BY DEF State
<1>1. 0 \in Holds
  <2>1. SubSeq(l, 1, 0) = <<>> /\ p[a].buf \o <<>> = p[a].buf
    BY <1>0
  <2>2. [p[a] EXCEPT !.buf = p[a].buf] = p[a] /\ a + 0 = a
    BY ONLY p[a] \in State, a \in Nat DEF State
  <2>3. p[a + 0] = Now(0)
    BY ONLY <2>1, <2>2
  <2> HIDE DEF Now
  <2> QED BY <2>3
<1>2. ASSUME NEW d \in Nat, d \in Holds PROVE d + 1 \in Holds
  <2> SUFFICES ASSUME d + 1 <= Len(l) PROVE p[a + (d + 1)] = Now(d + 1)
    OBVIOUS
  <2>1. p[a + d] = Now(d)
    BY <1>2, <1>0
  <2> DEFINE b == SubSeq(l, 1, d)
  <2>2. b \in Seq(Plain) /\ l[d + 1] \in Plain
    BY <1>0
  <2>3. Now(d) \in State /\ Now(d).buf = p[a].buf \o b
    <3>1. p[a].buf \o b \in Seq(Plain)
      BY <1>0, <2>2
    <3> HIDE DEF b
    <3> QED BY <3>1 DEF State, b
  <2>4. p[a + (d + 1)] = M!Next3(p[a + d], l[d + 1])
    <3>1. d + 1 \in 1..Len(l) /\ a + (d + 1) - 1 = a + d
      BY <1>0
    <3> QED BY ONLY <3>1, Reads(p, a, l) DEF Reads
  <2>5. p[a + (d + 1)] = [Now(d) EXCEPT !.buf = Append(Now(d).buf, l[d + 1])]
    <3> HIDE DEF Now
    <3> QED BY ONLY <2>1, <2>2, <2>3, <2>4, PlainStep
  <2>6. Append(p[a].buf \o b, l[d + 1]) = p[a].buf \o SubSeq(l, 1, d + 1)
    <3>1. SubSeq(l, 1, d + 1) = Append(b, l[d + 1])
      BY <1>0
    <3> HIDE DEF b
    <3>2. Append(p[a].buf \o b, l[d + 1]) = p[a].buf \o Append(b, l[d + 1])
      <4>1. ASSUME NEW B, NEW x, B \in Seq(Plain), x \in Plain
            PROVE  Append(B \o b, x) = B \o Append(b, x)
        BY ONLY <2>2, <4>1
      <4> QED BY ONLY <4>1, <1>0, <2>2
    <3> QED BY <3>1, <3>2
  <2> QED BY ONLY <2>3, <2>5, <2>6 DEF State
<1>3. Len(l) \in Holds
  <2> HIDE DEF Holds
  <2> QED BY <1>0, <1>1, <1>2, Induction
<1>4. SubSeq(l, 1, Len(l)) = l
  BY <1>0
<1>5. p[a + Len(l)] = Now(Len(l))
  <2> HIDE DEF Now
  <2> QED BY <1>0, <1>3
<1> QED
  BY ONLY <1>4, <1>5 DEF Took

\* A section of a conflict, and the parser within a conflict.
Sec(w, b) == [label |-> w, lines |-> b]

\* The parser in a conflict, in the section w with the lines b.
Within(g, s, w, b) == [segs |-> g, inside |-> TRUE, sections |-> s, label |-> w, buf |-> b]

\* The line that opens a conflict.
LEMMA OpenStep ==
  ASSUME NEW p \in State, ~p.inside, NEW w
  PROVE  M!Next3(p, M!Mark(">>>>", w)) = Within(M!Flushed(p), <<>>, w, <<>>)
BY DEF M!Next3, M!Mark, Within

\* The line between two sections of a conflict.
LEMMA SepStep ==
  ASSUME NEW g, NEW s, NEW w, NEW b, NEW v
  PROVE  M!Next3(Within(g, s, w, b), M!Mark("==", v))
           = Within(g, Append(s, Sec(w, b)), v, <<>>)
BY DEF M!Next3, M!Mark, Within, M!Sections, Sec

\* The parser after a conflict with the sections ss.
Closes(g, ss) == [M!Start EXCEPT !.segs = Append(g, M!MakeConflict(ss))]

\* The line that closes a conflict.
LEMMA CloseStep ==
  ASSUME NEW g, NEW s, NEW w, NEW b, NEW v
  PROVE  M!Next3(Within(g, s, w, b), M!Mark("<<<<", v)) = Closes(g, Append(s, Sec(w, b)))
BY DEF M!Next3, M!Mark, Within, M!Sections, M!Conflict, Sec, Closes

\* The lines the server writes.
AnyLine == Plain \cup {M!Mark(">>>>", "ORIGINAL"), M!Mark("==", "THEIRS"), M!Mark("==", "YOURS"),
                    M!Mark("<<<<", "")}

\* Reading two texts that are joined is reading one and then the other.
LEMMA ReadsCat ==
  ASSUME NEW p, NEW a \in Nat, NEW s, NEW t, s \in Seq(AnyLine), t \in Seq(AnyLine),
         Reads(p, a, s \o t)
  PROVE  /\ Reads(p, a, s) /\ Reads(p, a + Len(s), t)
         /\ a + Len(s) \in Nat /\ a + Len(s \o t) = (a + Len(s)) + Len(t)
         /\ s \o t \in Seq(AnyLine)
<1>1. /\ s \o t \in Seq(AnyLine) /\ Len(s) \in Nat /\ Len(t) \in Nat
      /\ Len(s \o t) = Len(s) + Len(t)
      /\ \A i \in 1..Len(s) + Len(t) : (s \o t)[i] = IF i <= Len(s) THEN s[i] ELSE t[i - Len(s)]
  BY ConcatProperties
<1>2. Reads(p, a, s)
  BY ONLY <1>1, a \in Nat, Reads(p, a, s \o t) DEF Reads
<1>3. Reads(p, a + Len(s), t)
  <2> SUFFICES ASSUME NEW j \in 1..Len(t)
               PROVE  p[a + Len(s) + j] = M!Next3(p[a + Len(s) + j - 1], t[j])
    BY DEF Reads
  <2> DEFINE i == Len(s) + j
  <2>1. i \in 1..Len(s) + Len(t) /\ ~(i <= Len(s)) /\ i - Len(s) = j
    BY ONLY <1>1, j \in 1..Len(t)
  <2>2. a + i = a + Len(s) + j /\ a + i - 1 = a + Len(s) + j - 1
    BY ONLY <1>1, a \in Nat, j \in 1..Len(t)
  <2>3. p[a + i] = M!Next3(p[a + i - 1], (s \o t)[i])
    <3> HIDE DEF i
    <3> QED BY ONLY <1>1, <2>1, Reads(p, a, s \o t) DEF Reads
  <2>4. (s \o t)[i] = t[j]
    <3> HIDE DEF i
    <3> QED BY ONLY <1>1, <2>1
  <2> HIDE DEF i
  <2> QED BY ONLY <2>2, <2>3, <2>4
<1> QED
  BY <1>1, <1>2, <1>3

\* Reading a single line is one step.
LEMMA ReadsOne ==
  ASSUME NEW p, NEW a \in Nat, NEW x, Reads(p, a, <<x>>)
  PROVE  p[a + 1] = M!Next3(p[a], x)
BY DEF Reads

\* What the server writes for a conflict, and what the parser makes of it.
MarkedPart(k) ==
  <<M!Mark(">>>>", "ORIGINAL")>> \o k.base \o <<M!Mark("==", "THEIRS")>> \o k.theirs
     \o <<M!Mark("==", "YOURS")>> \o k.yours \o <<M!Mark("<<<<", "")>>

\* The segment of a conflict.
HunkOf(k) == [kind |-> "conflict", base |-> k.base, theirs |-> k.theirs, yours |-> k.yours]

\* The type of a section.
LEMMA SectionType == \A w \in Labels, b \in Seq(Plain) : Sec(w, b) \in Section
BY DEF Sec, Section

\* The three sections that -af writes.
ThreeSections(b, t, y) ==
  Append(Append(Append(<<>>, Sec("ORIGINAL", b)), Sec("THEIRS", t)), Sec("YOURS", y))

\* A sequence with one element more, and what that is.
Extended(q, e) == Append(q, e)
Extends(Elem, q, e, r) ==
  /\ r \in Seq(Elem)
  /\ Len(r) = Len(q) + 1
  /\ r[Len(q) + 1] = e
  /\ \A i \in 1..Len(q) : r[i] = q[i]

\* What appending does to the length, to what was there and to the end.
LEMMA ExtendedFacts ==
  ASSUME NEW Elem, NEW q, q \in Seq(Elem), NEW e, e \in Elem
  PROVE  Extends(Elem, q, e, Extended(q, e))
<1>1. Append(q, e) \in Seq(Elem)
  BY ONLY q \in Seq(Elem), e \in Elem
<1>2. Len(Append(q, e)) = Len(q) + 1
  BY ONLY q \in Seq(Elem), e \in Elem
<1>3. Append(q, e)[Len(q) + 1] = e
  BY ONLY q \in Seq(Elem), e \in Elem
<1>4. \A i \in 1..Len(q) : Append(q, e)[i] = q[i]
  BY ONLY q \in Seq(Elem), e \in Elem
<1> QED
  BY ONLY <1>1, <1>2, <1>3, <1>4 DEF Extended, Extends

\* The sequence of these three.
Triple(q, x, z, w) == DOMAIN q = {1, 2, 3} /\ q[1] = x /\ q[2] = z /\ q[3] = w

\* A sequence of three is made of what was appended, in that order.
LEMMA ThreeExtended ==
  ASSUME NEW Elem, NEW x, NEW z, NEW w, x \in Elem, z \in Elem, w \in Elem
  PROVE  Triple(Extended(Extended(Extended(<<>>, x), z), w), x, z, w)
<1>0. PICK q0 : q0 = <<>>
  OBVIOUS
<1>1. q0 \in Seq(Elem) /\ Len(q0) = 0
  BY ONLY <1>0
<1>2. PICK q1 : q1 = Extended(q0, x)
  OBVIOUS
<1>3. q1 \in Seq(Elem) /\ Len(q1) = 1 /\ q1[1] = x
  <2>1. Extends(Elem, q0, x, q1)
    BY ONLY <1>1, <1>2, ExtendedFacts, x \in Elem, Zenon
  <2> QED
    BY ONLY <1>1, <2>1 DEF Extends
<1>4. PICK q2 : q2 = Extended(q1, z)
  OBVIOUS
<1>5. q2 \in Seq(Elem) /\ Len(q2) = 2 /\ q2[1] = x /\ q2[2] = z
  <2>1. Extends(Elem, q1, z, q2)
    BY ONLY <1>3, <1>4, ExtendedFacts, z \in Elem, Zenon
  <2> QED
    BY ONLY <1>3, <2>1 DEF Extends
<1>6. PICK q3 : q3 = Extended(q2, w)
  OBVIOUS
<1>7. q3 \in Seq(Elem) /\ Len(q3) = 3 /\ q3[1] = x /\ q3[2] = z /\ q3[3] = w
  <2>1. Extends(Elem, q2, w, q3)
    BY ONLY <1>5, <1>6, ExtendedFacts, w \in Elem, Zenon
  <2> QED
    BY ONLY <1>5, <2>1 DEF Extends
<1>8. DOMAIN q3 = {1, 2, 3}
  BY ONLY <1>7
<1>9. q3 = Extended(Extended(Extended(<<>>, x), z), w)
  BY ONLY <1>0, <1>2, <1>4, <1>6, Zenon
<1>10. Triple(q3, x, z, w)
  BY ONLY <1>7, <1>8 DEF Triple
<1> QED
  BY ONLY <1>9, <1>10, Zenon

\* Of the three sections the conflict is made, side by side.
LEMMA MakeHunk ==
  ASSUME NEW b, NEW t, NEW y, b \in Seq(Plain), t \in Seq(Plain), y \in Seq(Plain)
  PROVE  M!MakeConflict(ThreeSections(b, t, y))
           = [kind |-> "conflict", base |-> b, theirs |-> t, yours |-> y]
<1> DEFINE ss == ThreeSections(b, t, y)
           Named(l) == {i \in DOMAIN ss : ss[i].label = l}
<1>1. DOMAIN ss = {1, 2, 3} /\ ss[1] = Sec("ORIGINAL", b) /\ ss[2] = Sec("THEIRS", t) /\ ss[3] = Sec("YOURS", y)
  <2>1. PICK u, v, w : u = Sec("ORIGINAL", b) /\ v = Sec("THEIRS", t) /\ w = Sec("YOURS", y)
    OBVIOUS
  <2>2. u \in Section /\ v \in Section /\ w \in Section
    BY <2>1, SectionType DEF Labels
  <2>3. Triple(Extended(Extended(Extended(<<>>, u), v), w), u, v, w)
    BY ONLY <2>2, ThreeExtended, Zenon
  <2>4. ss = Extended(Extended(Extended(<<>>, u), v), w)
    BY ONLY <2>1 DEF ThreeSections, Extended
  <2>5. Triple(ss, u, v, w)
    BY ONLY <2>3, <2>4, Zenon
  <2> HIDE DEF ss
  <2> QED BY ONLY <2>1, <2>5 DEF Triple
<1> HIDE DEF ss
<1>2. /\ ss[1].lines = b /\ ss[2].lines = t /\ ss[3].lines = y
      /\ ss[1].label = "ORIGINAL" /\ ss[2].label = "THEIRS" /\ ss[3].label = "YOURS"
  BY ONLY <1>1 DEF Sec
<1>3. Named("ORIGINAL") = {1} /\ Named("THEIRS") = {2} /\ Named("YOURS") = {3}
  BY ONLY <1>1, <1>2
<1>4. \A i \in {1, 2, 3} : M!Max({i}) = i
  BY DEF M!Max
<1>5. M!MakeConflict(ss) = [kind |-> "conflict", base |-> b, theirs |-> t, yours |-> y]
  BY ONLY <1>1, <1>2, <1>3, <1>4 DEF M!MakeConflict
<1> QED
  BY ONLY <1>5 DEF ss

\* The type of the parser in a conflict.
LEMMA WithinType ==
  ASSUME NEW g, NEW s, NEW w, g \in Seq(Segment), s \in Seq(Section), w \in Labels
  PROVE  Within(g, s, w, <<>>) \in State
<1>1. <<>> \in Seq(Plain)
  OBVIOUS
<1> QED
  BY <1>1 DEF State, Within

\* The lines of a section are collected.
LEMMA WithinRun ==
  ASSUME NEW p, NEW a \in Nat, NEW l, l \in Seq(Plain), NEW g, NEW s, NEW w,
         Within(g, s, w, <<>>) \in State,
         p[a] = Within(g, s, w, <<>>), Reads(p, a, l)
  PROVE  p[a + Len(l)] = Within(g, s, w, l)
<1>1. p[a + Len(l)] = Took(p[a], l)
  BY PlainRun
<1>2. <<>> \o l = l
  BY ONLY l \in Seq(Plain)
<1>3. Took(Within(g, s, w, <<>>), l) = Within(g, s, w, l)
  <2>1. Within(g, s, w, <<>>).buf = <<>>
    BY DEF Within
  <2>2. Took(Within(g, s, w, <<>>), l) = [Within(g, s, w, <<>>) EXCEPT !.buf = l]
    BY ONLY <1>2, <2>1 DEF Took
  <2> QED BY ONLY <2>2 DEF Within
<1> QED
  BY ONLY <1>1, <1>3, p[a] = Within(g, s, w, <<>>)

\* Texts are sequences of lines the server writes.
LEMMA LineTypes ==
  /\ \A x \in AnyLine : <<x>> \in Seq(AnyLine)
  /\ \A l \in Seq(Plain) : l \in Seq(AnyLine)
<1>1. Plain \subseteq AnyLine
  BY DEF AnyLine
<1>2. \A x \in AnyLine : <<x>> \in Seq(AnyLine)
  OBVIOUS
<1> QED
  BY <1>1, <1>2, SeqMonotonic

\* The lines of the buffer become a common segment.
LEMMA FlushedType ==
  ASSUME NEW p, p \in State
  PROVE  M!Flushed(p) \in Seq(Segment)
<1>1. p.segs \in Seq(Segment) /\ p.buf \in Seq(Plain)
  BY DEF State
<1>2. [kind |-> "common", lines |-> p.buf] \in Segment
  BY <1>1 DEF Segment, Common
<1> QED
  BY <1>1, <1>2 DEF M!Flushed

\* The parser q after the conflict of the chunk k.
HunkRead(q, k) == [M!Start EXCEPT !.segs = Append(M!Flushed(q), HunkOf(k))]

\* The lines of a conflict, read to their end, become one segment.
LEMMA HunkRun ==
  ASSUME NEW p, NEW a \in Nat, NEW k, k \in Chunk, p[a] \in State, ~p[a].inside,
         Reads(p, a, MarkedPart(k))
  PROVE  p[a + Len(MarkedPart(k))] = HunkRead(p[a], k)
<1> DEFINE O == <<M!Mark(">>>>", "ORIGINAL")>>
           T1 == <<M!Mark("==", "THEIRS")>>
           Y1 == <<M!Mark("==", "YOURS")>>
           C == <<M!Mark("<<<<", "")>>
           b == k.base
           t == k.theirs
           y == k.yours
           g == M!Flushed(p[a])
           one == Sec("ORIGINAL", b)
           two == Sec("THEIRS", t)
           three == Sec("YOURS", y)
           s1 == Append(<<>>, one)
           s2 == Append(s1, two)
           s3 == Append(s2, three)
<1>1. O \in Seq(AnyLine) /\ T1 \in Seq(AnyLine) /\ Y1 \in Seq(AnyLine) /\ C \in Seq(AnyLine)
  BY LineTypes DEF AnyLine
<1>2. b \in Seq(Plain) /\ t \in Seq(Plain) /\ y \in Seq(Plain)
  BY DEF Chunk
<1>3. b \in Seq(AnyLine) /\ t \in Seq(AnyLine) /\ y \in Seq(AnyLine)
  BY <1>2, LineTypes
<1>4. Len(O) = 1 /\ Len(T1) = 1 /\ Len(Y1) = 1 /\ Len(C) = 1
  OBVIOUS
<1>5. g \in Seq(Segment)
  BY FlushedType
<1>o. M!Next3(p[a], M!Mark(">>>>", "ORIGINAL")) = Within(g, <<>>, "ORIGINAL", <<>>)
  BY OpenStep
<1>m. M!MakeConflict(s3) = HunkOf(k)
  BY <1>2, MakeHunk DEF HunkOf, ThreeSections
<1>t. one \in Section /\ two \in Section /\ three \in Section
  BY <1>2, SectionType DEF Labels
<1> DEFINE L2 == O \o b
           L3 == L2 \o T1
           L4 == L3 \o t
           L5 == L4 \o Y1
           L6 == L5 \o y
           L7 == L6 \o C
<1>6. MarkedPart(k) = L7
  BY DEF MarkedPart
<1> HIDE DEF O, T1, Y1, C, b, t, y, g, one, two, three, s1, s2, s3
<1>s. <<>> \in Seq(Section) /\ s1 \in Seq(Section) /\ s2 \in Seq(Section)
  BY ONLY <1>t DEF s1, s2
<1>w. /\ Within(g, <<>>, "ORIGINAL", <<>>) \in State
      /\ Within(g, s1, "THEIRS", <<>>) \in State
      /\ Within(g, s2, "YOURS", <<>>) \in State
  BY ONLY <1>5, <1>s, WithinType DEF Labels
<1>u. M!Next3(Within(g, <<>>, "ORIGINAL", b), M!Mark("==", "THEIRS")) = Within(g, s1, "THEIRS", <<>>)
  <2> DEFINE nil == <<>>
  <2> HIDE DEF nil
  <2>1. M!Next3(Within(g, nil, "ORIGINAL", b), M!Mark("==", "THEIRS"))
          = Within(g, Append(nil, Sec("ORIGINAL", b)), "THEIRS", <<>>)
    BY ONLY SepStep
  <2> QED BY ONLY <2>1 DEF nil, one, s1
<1>v. M!Next3(Within(g, s1, "THEIRS", t), M!Mark("==", "YOURS")) = Within(g, s2, "YOURS", <<>>)
  <2>1. M!Next3(Within(g, s1, "THEIRS", t), M!Mark("==", "YOURS"))
          = Within(g, Append(s1, Sec("THEIRS", t)), "YOURS", <<>>)
    BY ONLY SepStep
  <2> QED BY ONLY <2>1 DEF two, s2
<1>c. M!Next3(Within(g, s2, "YOURS", y), M!Mark("<<<<", ""))
        = [M!Start EXCEPT !.segs = Append(g, HunkOf(k))]
  <2>1. M!Next3(Within(g, s2, "YOURS", y), M!Mark("<<<<", ""))
          = [M!Start EXCEPT !.segs = Append(g, M!MakeConflict(s3))]
    <3> DEFINE blank == ""
    <3> HIDE DEF blank
    <3>1. M!Next3(Within(g, s2, "YOURS", y), M!Mark("<<<<", blank))
            = Closes(g, Append(s2, Sec("YOURS", y)))
      BY ONLY CloseStep
    <3> QED BY ONLY <3>1 DEF three, s3, Closes, blank
  <2> QED BY ONLY <2>1, <1>m
<1>8. L2 \in Seq(AnyLine)
  BY ONLY <1>1, <1>3
<1> HIDE DEF L2
<1>9. L3 \in Seq(AnyLine)
  BY ONLY <1>1, <1>8
<1> HIDE DEF L3
<1>10. L4 \in Seq(AnyLine)
  BY ONLY <1>3, <1>9
<1> HIDE DEF L4
<1>11. L5 \in Seq(AnyLine)
  BY ONLY <1>1, <1>10
<1> HIDE DEF L5
<1>12. L6 \in Seq(AnyLine)
  BY ONLY <1>3, <1>11
<1> HIDE DEF L6
<1>13. Reads(p, a, L7)
  BY ONLY <1>6, Reads(p, a, MarkedPart(k))
<1>14. Reads(p, a, L6) /\ Reads(p, a + Len(L6), C) /\ a + Len(L6) \in Nat
         /\ a + Len(L7) = (a + Len(L6)) + Len(C)
  BY ONLY <1>1, <1>12, <1>13, a \in Nat, ReadsCat
<1>15. Reads(p, a, L5) /\ Reads(p, a + Len(L5), y) /\ a + Len(L5) \in Nat
         /\ a + Len(L6) = (a + Len(L5)) + Len(y)
  BY ONLY <1>3, <1>11, <1>14, a \in Nat, ReadsCat DEF L6
<1>16. Reads(p, a, L4) /\ Reads(p, a + Len(L4), Y1) /\ a + Len(L4) \in Nat
         /\ a + Len(L5) = (a + Len(L4)) + Len(Y1)
  BY ONLY <1>1, <1>10, <1>15, a \in Nat, ReadsCat DEF L5
<1>17. Reads(p, a, L3) /\ Reads(p, a + Len(L3), t) /\ a + Len(L3) \in Nat
         /\ a + Len(L4) = (a + Len(L3)) + Len(t)
  BY ONLY <1>3, <1>9, <1>16, a \in Nat, ReadsCat DEF L4
<1>18. Reads(p, a, L2) /\ Reads(p, a + Len(L2), T1) /\ a + Len(L2) \in Nat
         /\ a + Len(L3) = (a + Len(L2)) + Len(T1)
  BY ONLY <1>1, <1>8, <1>17, a \in Nat, ReadsCat DEF L3
<1>19. Reads(p, a, O) /\ Reads(p, a + Len(O), b) /\ a + Len(O) \in Nat
         /\ a + Len(L2) = (a + Len(O)) + Len(b)
  BY ONLY <1>1, <1>3, <1>18, a \in Nat, ReadsCat DEF L2
<1>20. p[a + Len(O)] = Within(g, <<>>, "ORIGINAL", <<>>)
  <2>1. p[a + 1] = M!Next3(p[a], M!Mark(">>>>", "ORIGINAL"))
    BY ONLY <1>19, a \in Nat, ReadsOne DEF O
  <2> QED BY ONLY <2>1, <1>o, <1>4
<1>21. p[a + Len(L2)] = Within(g, <<>>, "ORIGINAL", b)
  BY ONLY <1>2, <1>w, <1>19, <1>20, WithinRun
<1>22. p[a + Len(L3)] = Within(g, s1, "THEIRS", <<>>)
  <2>1. p[(a + Len(L2)) + 1] = M!Next3(p[a + Len(L2)], M!Mark("==", "THEIRS"))
    BY ONLY <1>18, ReadsOne DEF T1
  <2> QED BY ONLY <2>1, <1>4, <1>18, <1>21, <1>u
<1>23. p[a + Len(L4)] = Within(g, s1, "THEIRS", t)
  BY ONLY <1>2, <1>w, <1>17, <1>22, WithinRun
<1>24. p[a + Len(L5)] = Within(g, s2, "YOURS", <<>>)
  <2>1. p[(a + Len(L4)) + 1] = M!Next3(p[a + Len(L4)], M!Mark("==", "YOURS"))
    BY ONLY <1>16, ReadsOne DEF Y1
  <2> QED BY ONLY <2>1, <1>4, <1>16, <1>23, <1>v
<1>25. p[a + Len(L6)] = Within(g, s2, "YOURS", y)
  BY ONLY <1>2, <1>w, <1>15, <1>24, WithinRun
<1>26. p[a + Len(L7)] = [M!Start EXCEPT !.segs = Append(g, HunkOf(k))]
  <2>1. p[(a + Len(L6)) + 1] = M!Next3(p[a + Len(L6)], M!Mark("<<<<", ""))
    BY ONLY <1>14, ReadsOne DEF C
  <2> QED BY ONLY <2>1, <1>4, <1>14, <1>25, <1>c
<1> QED
  BY ONLY <1>6, <1>26 DEF g, HunkRead

-----------------------------------------------------------------------------
(* Chunk by chunk: what is put together again from what was parsed.        *)

\* The Cardinality that Merge3 has is that of the theorems.
LEMMA SameCardinality == ASSUME NEW X PROVE M!Cardinality(X) = Cardinality(X)
BY Zenon DEF M!Cardinality, Cardinality, M!IsFiniteSet, IsFiniteSet

\* Conflicts counts the conflicts one by one.
LEMMA ConflictsStep ==
  ASSUME NEW k
  PROVE  /\ M!Conflicts(k, 0) = 0
         /\ \A i \in Nat : /\ M!Conflicts(k, i) \in Nat
                           /\ M!Conflicts(k, i + 1) = IF M!Conflicting(k[i + 1]) THEN M!Conflicts(k, i) + 1
                                                      ELSE M!Conflicts(k, i)
<1> DEFINE X(i) == {j \in 1..i : M!Conflicting(k[j])}
<1>1. \A i : M!Conflicts(k, i) = Cardinality(X(i))
  BY SameCardinality DEF M!Conflicts
<1>2. X(0) = {}
  OBVIOUS
<1>3. \A i \in Nat : IsFiniteSet(X(i))
  <2> TAKE i \in Nat
  <2>1. IsFiniteSet(1..i) /\ X(i) \subseteq 1..i
    BY FS_Interval
  <2> QED BY <2>1, FS_Subset
<1>4. ASSUME NEW i \in Nat PROVE X(i + 1) = IF M!Conflicting(k[i + 1]) THEN X(i) \cup {i + 1} ELSE X(i)
  OBVIOUS
<1>5. \A i \in Nat : i + 1 \notin X(i)
  OBVIOUS
<1> HIDE DEF X
<1>6. M!Conflicts(k, 0) = 0
  BY <1>1, <1>2, FS_EmptySet
<1>7. ASSUME NEW i \in Nat
      PROVE  /\ M!Conflicts(k, i) \in Nat
             /\ M!Conflicts(k, i + 1) = IF M!Conflicting(k[i + 1]) THEN M!Conflicts(k, i) + 1
                                        ELSE M!Conflicts(k, i)
  <2>1. M!Conflicts(k, i) = Cardinality(X(i)) /\ M!Conflicts(k, i + 1) = Cardinality(X(i + 1))
    BY <1>1
  <2>2. IsFiniteSet(X(i)) /\ i + 1 \notin X(i)
    BY <1>3, <1>5
  <2>3. Cardinality(X(i)) \in Nat /\ Cardinality(X(i) \cup {i + 1}) = Cardinality(X(i)) + 1
    BY ONLY <2>2, FS_CardinalityType, FS_AddElement
  <2> QED BY ONLY <2>1, <2>3, <1>4
<1> QED
  BY <1>6, <1>7

\* One more segment is one more hunk if it is a conflict.
LEMMA HunksStep ==
  ASSUME NEW segs, segs \in Seq(Segment), NEW x \in Segment
  PROVE  /\ M!Cardinality(M!Hunks(segs)) \in Nat
         /\ M!Cardinality(M!Hunks(Append(segs, x)))
              = IF M!IsConflict(x) THEN M!Cardinality(M!Hunks(segs)) + 1 ELSE M!Cardinality(M!Hunks(segs))
<1> DEFINE n == Len(segs)
           more == Append(segs, x)
<1>1. /\ n \in Nat /\ DOMAIN segs = 1..n /\ DOMAIN more = 1..n + 1
      /\ more[n + 1] = x /\ \A i \in 1..n : more[i] = segs[i]
  BY AppendProperties, LenProperties
<1> HIDE DEF n, more
<1>2. M!Hunks(more) = IF M!IsConflict(x) THEN M!Hunks(segs) \cup {n + 1} ELSE M!Hunks(segs)
  BY ONLY <1>1 DEF M!Hunks
<1>3. n + 1 \notin M!Hunks(segs) /\ M!Hunks(segs) \subseteq 1..n
  BY ONLY <1>1 DEF M!Hunks
<1>4. IsFiniteSet(M!Hunks(segs))
  <2>1. IsFiniteSet(1..n)
    BY ONLY <1>1, FS_Interval
  <2> QED BY ONLY <2>1, <1>3, FS_Subset
<1>5. Cardinality(M!Hunks(segs)) \in Nat /\ Cardinality(M!Hunks(segs) \cup {n + 1}) = Cardinality(M!Hunks(segs)) + 1
  BY ONLY <1>3, <1>4, FS_CardinalityType, FS_AddElement
<1> QED
  BY ONLY <1>2, <1>5, SameCardinality DEF more

\* The choices of the editor, and the types of what is put together.
Choices == {"yours", "theirs", "base", "both"}
Result == [out : Seq(Plain), n : Nat]

\* What Reconstruct takes of a conflict is what the choice means.
LEMMA HunkLinesChosen ==
  ASSUME NEW k, k \in Chunk, NEW ch \in Choices
  PROVE  /\ M!HunkLines(HunkOf(k), ch) = M!Chosen3(k, ch)
         /\ M!Chosen3(k, ch) \in Seq(Plain)
<1>1. k.yours \in Seq(Plain) /\ k.theirs \in Seq(Plain) /\ k.base \in Seq(Plain)
  BY DEF Chunk
<1>2. k.yours \o k.theirs \in Seq(Plain)
  BY ONLY <1>1
<1>3. M!HunkLines(HunkOf(k), ch) = M!Chosen3(k, ch)
  BY DEF Choices, M!HunkLines, M!Chosen3, HunkOf
<1>4. M!Chosen3(k, ch) \in Seq(Plain)
  BY <1>1, <1>2 DEF Choices, M!Chosen3
<1> QED
  BY <1>3, <1>4

\* Flushing the buffer puts out its lines, and makes no hunk.
LEMMA FlushedRebuilt ==
  ASSUME NEW c, NEW q, q \in State, Rebuilt(c, q.segs) \in Result
  PROVE  /\ Rebuilt(c, M!Flushed(q)) = [out |-> Rebuilt(c, q.segs).out \o q.buf, n |-> Rebuilt(c, q.segs).n]
         /\ M!Cardinality(M!Hunks(M!Flushed(q))) = M!Cardinality(M!Hunks(q.segs))
<1>1. q.segs \in Seq(Segment) /\ q.buf \in Seq(Plain)
  BY DEF State
<1> DEFINE r == Rebuilt(c, q.segs)
           x == [kind |-> "common", lines |-> q.buf]
<1>2. r.out \in Seq(Plain) /\ r = [out |-> r.out, n |-> r.n]
  BY DEF Result
<1>3. CASE q.buf = <<>>
  <2>1. r.out \o <<>> = r.out
    BY <1>2
  <2> QED BY <1>2, <1>3, <2>1 DEF M!Flushed
<1>4. CASE q.buf # <<>>
  <2>1. x \in Segment /\ ~M!IsConflict(x) /\ x.lines = q.buf
    BY <1>1 DEF Segment, Common, M!IsConflict
  <2>2. M!Flushed(q) = Append(q.segs, x)
    BY <1>4 DEF M!Flushed
  <2> HIDE DEF x, r
  <2>3. Rebuilt(c, M!Flushed(q)) = M!Add(c, r, x)
    BY ONLY <1>1, <2>1, <2>2, RebuiltAppend DEF r
  <2>4. M!Add(c, r, x) = [out |-> r.out \o q.buf, n |-> r.n]
    <3>1. M!Add(c, r, x) = [r EXCEPT !.out = r.out \o q.buf]
      BY ONLY <2>1 DEF M!Add
    <3> QED BY ONLY <1>2, <3>1
  <2>5. M!Cardinality(M!Hunks(M!Flushed(q))) = M!Cardinality(M!Hunks(q.segs))
    BY ONLY <1>1, <2>1, <2>2, HunksStep
  <2> QED BY ONLY <2>3, <2>4, <2>5 DEF r
<1> QED
  BY <1>3, <1>4

\* Number of hunks.
HunkCount(segs) == M!Cardinality(M!Hunks(segs))

\* It is a number.
LEMMA HunkCountType == \A segs \in Seq(Segment) : HunkCount(segs) \in Nat
<1> SUFFICES ASSUME NEW segs, segs \in Seq(Segment) PROVE HunkCount(segs) \in Nat
  OBVIOUS
<1>1. [kind |-> "common", lines |-> <<>>] \in Segment
  <2>1. <<>> \in Seq(Plain)
    OBVIOUS
  <2> QED BY <2>1 DEF Segment, Common
<1> QED
  BY <1>1, HunksStep DEF HunkCount

\* From the parser q0 to q: l is put out, and h conflicts are read.
Passes(c, q0, q, h, l) ==
  LET r == Rebuilt(c, q0.segs) IN
  /\ q \in State /\ ~q.inside /\ Rebuilt(c, q.segs) \in Result
  /\ Rebuilt(c, q.segs).n = r.n + h
  /\ HunkCount(q.segs) = HunkCount(q0.segs) + h
  /\ Rebuilt(c, q.segs).out \o q.buf = (r.out \o q0.buf) \o l

\* The lines of a chunk that merges by itself are put out as they are.
LEMMA PlainChunk ==
  ASSUME NEW c, NEW p, NEW a \in Nat, NEW l, l \in Seq(Plain), p[a] \in State, ~p[a].inside,
         Rebuilt(c, p[a].segs) \in Result, Reads(p, a, l)
  PROVE  Passes(c, p[a], p[a + Len(l)], 0, l)
<1> DEFINE q == p[a + Len(l)]
           r == Rebuilt(c, p[a].segs)
<1>1. q = Took(p[a], l)
  BY PlainRun
<1>2. p[a].buf \in Seq(Plain) /\ r.out \in Seq(Plain)
  BY DEF State, Result
<1>3. p[a].buf \o l \in Seq(Plain)
  BY ONLY <1>2, l \in Seq(Plain)
<1>4. Took(p[a], l) \in State /\ Took(p[a], l).segs = p[a].segs /\ Took(p[a], l).inside = p[a].inside
        /\ Took(p[a], l).buf = p[a].buf \o l
  BY ONLY <1>3, p[a] \in State DEF Took, State
<1> HIDE DEF q, r
<1>5. r.out \o q.buf = (r.out \o p[a].buf) \o l
  <2>1. ASSUME NEW x, NEW y, x \in Seq(Plain), y \in Seq(Plain)
        PROVE  x \o (y \o l) = (x \o y) \o l
    BY ONLY <2>1, l \in Seq(Plain), ConcatAssociative
  <2>2. r.out \o (p[a].buf \o l) = (r.out \o p[a].buf) \o l
    BY ONLY <2>1, <1>2
  <2> QED BY ONLY <2>2, <1>1, <1>4
<1>6. q \in State /\ ~q.inside /\ q.segs = p[a].segs
  BY ONLY <1>1, <1>4, ~p[a].inside
<1>7. Rebuilt(c, q.segs) = r
  BY ONLY <1>6 DEF r
<1>8. r \in Result /\ r.n + 0 = r.n
  BY DEF r, Result
<1>9. HunkCount(p[a].segs) + 0 = HunkCount(q.segs)
  <2>1. HunkCount(p[a].segs) \in Nat
    BY HunkCountType DEF State
  <2> QED BY ONLY <2>1, <1>6
<1>10. Passes(c, p[a], q, 0, l)
  BY ONLY <1>5, <1>6, <1>7, <1>8, <1>9 DEF Passes, r
<1> QED
  BY ONLY <1>10 DEF q

\* Of the lines of a conflict, the side is put out that was chosen.
LEMMA HunkChunk ==
  ASSUME NEW c, NEW p, NEW a \in Nat, NEW x, x \in Chunk, p[a] \in State, ~p[a].inside,
         Rebuilt(c, p[a].segs) \in Result, Reads(p, a, MarkedPart(x)),
         Rebuilt(c, p[a].segs).n <= Len(c), c[Rebuilt(c, p[a].segs).n] \in Choices
  PROVE  Passes(c, p[a], p[a + Len(MarkedPart(x))], 1, M!Chosen3(x, c[Rebuilt(c, p[a].segs).n]))
<1> DEFINE q == p[a + Len(MarkedPart(x))]
           r == Rebuilt(c, p[a].segs)
           g == M!Flushed(p[a])
           h == HunkOf(x)
           ch == M!Chosen3(x, c[r.n])
           r1 == Rebuilt(c, g)
<1>1. q = [M!Start EXCEPT !.segs = Append(g, h)]
  <2>1. q = HunkRead(p[a], x)
    BY HunkRun
  <2> QED BY ONLY <2>1 DEF HunkRead
<1>2. g \in Seq(Segment)
  BY FlushedType
<1>3. h \in Segment /\ M!IsConflict(h)
  BY DEF Segment, Hunk, HunkOf, Chunk, M!IsConflict
<1>4. r1 = [out |-> r.out \o p[a].buf, n |-> r.n] /\ HunkCount(g) = HunkCount(p[a].segs)
  BY FlushedRebuilt DEF HunkCount
<1>5. p[a].buf \in Seq(Plain) /\ r.out \in Seq(Plain) /\ r.n \in Nat
  BY DEF State, Result
<1>6. r.out \o p[a].buf \in Seq(Plain)
  BY ONLY <1>5
<1>7. ch \in Seq(Plain) /\ M!HunkLines(h, c[r.n]) = ch
  BY HunkLinesChosen
<1>8. r.n <= Len(c)
  OBVIOUS
<1> HIDE DEF q, r, g, h, ch, r1
<1>9. Append(g, h) \in Seq(Segment) /\ <<>> \in Seq(Section) /\ <<>> \in Seq(Plain)
  BY ONLY <1>2, <1>3
<1>10. q \in State /\ ~q.inside /\ q.segs = Append(g, h) /\ q.buf = <<>>
  BY ONLY <1>1, <1>9 DEF M!Start, State, Labels
<1>11. Rebuilt(c, Append(g, h)) = M!Add(c, r1, h)
  BY ONLY <1>2, <1>3, RebuiltAppend DEF r1
<1>12. r1.out = r.out \o p[a].buf /\ r1.n = r.n
  BY ONLY <1>4
<1>13. M!Add(c, r1, h) = [out |-> (r.out \o p[a].buf) \o ch, n |-> r.n + 1]
  BY ONLY <1>3, <1>7, <1>8, <1>12 DEF M!Add
<1>14. HunkCount(Append(g, h)) = HunkCount(p[a].segs) + 1
  BY ONLY <1>2, <1>3, <1>4, HunksStep DEF HunkCount
<1>15. (r.out \o p[a].buf) \o ch \in Seq(Plain)
  BY ONLY <1>6, <1>7
<1>16. ((r.out \o p[a].buf) \o ch) \o <<>> = (r.out \o p[a].buf) \o ch
  BY ONLY <1>15
<1>17. Rebuilt(c, q.segs) = [out |-> (r.out \o p[a].buf) \o ch, n |-> r.n + 1]
  BY ONLY <1>10, <1>11, <1>13
<1>18. Rebuilt(c, q.segs) \in Result /\ Rebuilt(c, q.segs).n = r.n + 1
         /\ Rebuilt(c, q.segs).out = (r.out \o p[a].buf) \o ch
  <2>1. r.n + 1 \in Nat
    BY ONLY <1>5
  <2> DEFINE o == (r.out \o p[a].buf) \o ch
  <2> HIDE DEF o
  <2>2. o \in Seq(Plain) /\ Rebuilt(c, q.segs) = [out |-> o, n |-> r.n + 1]
    BY ONLY <1>15, <1>17 DEF o
  <2>3. Rebuilt(c, q.segs) \in Result /\ Rebuilt(c, q.segs).n = r.n + 1 /\ Rebuilt(c, q.segs).out = o
    BY ONLY <2>1, <2>2 DEF Result
  <2> QED BY ONLY <2>3 DEF o
<1>19. HunkCount(q.segs) = HunkCount(p[a].segs) + 1
  BY ONLY <1>10, <1>14
<1>20. Rebuilt(c, q.segs).out \o q.buf = (r.out \o p[a].buf) \o ch
  BY ONLY <1>10, <1>16, <1>18
<1>21. Passes(c, p[a], q, 1, ch)
  BY ONLY <1>10, <1>18, <1>19, <1>20 DEF Passes, r
<1> QED
  BY ONLY <1>21 DEF q, r, ch

\* What the parser holds after some chunks, with number of conflicts m and merged text out.
Parsed(c, q, m, out) ==
  /\ q \in State /\ ~q.inside /\ Rebuilt(c, q.segs) \in Result
  /\ HunkCount(q.segs) = m /\ Rebuilt(c, q.segs).n = m + 1
  /\ Rebuilt(c, q.segs).out \o q.buf = out

\* Parsed goes on over a chunk that merges by itself ...
LEMMA ParsedPlain ==
  ASSUME NEW c, NEW p, NEW a \in Nat, NEW l, l \in Seq(Plain), NEW m, NEW g,
         Parsed(c, p[a], m, g), Reads(p, a, l)
  PROVE  Parsed(c, p[a + Len(l)], m, g \o l)
<1> DEFINE q == p[a + Len(l)]
           r == Rebuilt(c, p[a].segs)
<1>1. /\ p[a] \in State /\ ~p[a].inside /\ r \in Result
      /\ HunkCount(p[a].segs) = m /\ r.n = m + 1 /\ r.out \o p[a].buf = g
  BY DEF Parsed
<1>2. Passes(c, p[a], q, 0, l)
  BY <1>1, PlainChunk
<1>n. m \in Nat
  BY <1>1, HunkCountType DEF State
<1> HIDE DEF q
<1>3. Parsed(c, q, m, g \o l)
  <2>1. m + 0 = m /\ (m + 1) + 0 = m + 1
    BY ONLY <1>n
  <2> QED BY ONLY <1>1, <1>2, <2>1 DEF Parsed, Passes
<1> QED
  BY ONLY <1>3 DEF q

\* ... and over a conflict.
LEMMA ParsedHunk ==
  ASSUME NEW c, NEW p, NEW a \in Nat, NEW x, x \in Chunk, NEW m \in Nat, NEW g,
         Parsed(c, p[a], m, g), Reads(p, a, MarkedPart(x)),
         m + 1 <= Len(c), c[m + 1] \in Choices
  PROVE  Parsed(c, p[a + Len(MarkedPart(x))], m + 1, g \o M!Chosen3(x, c[m + 1]))
<1> DEFINE q == p[a + Len(MarkedPart(x))]
           r == Rebuilt(c, p[a].segs)
<1>1. /\ p[a] \in State /\ ~p[a].inside /\ r \in Result
      /\ HunkCount(p[a].segs) = m /\ r.n = m + 1 /\ r.out \o p[a].buf = g
  BY DEF Parsed
<1>2. r.n <= Len(c) /\ c[r.n] \in Choices
  <2> HIDE DEF r
  <2> QED BY <1>1
<1>3. Passes(c, p[a], q, 1, M!Chosen3(x, c[r.n]))
  BY <1>1, <1>2, HunkChunk
<1> HIDE DEF q
<1>4. Parsed(c, q, m + 1, g \o M!Chosen3(x, c[m + 1]))
  BY ONLY <1>1, <1>3 DEF Parsed, Passes
<1> QED
  BY ONLY <1>4 DEF q

\* The text with the markers and the merged one, chunk by chunk.
MarkedParts(k) == [i \in DOMAIN k |-> IF M!Conflicting(k[i]) THEN MarkedPart(k[i]) ELSE M!Automatic(k[i])]
MergedParts(k, c) ==
  [i \in DOMAIN k |-> IF M!Conflicting(k[i]) THEN M!Chosen3(k[i], c[M!Conflicts(k, i)]) ELSE M!Automatic(k[i])]

\* Number of conflicts of a merge.
Total(k) == M!Conflicts(k, Len(k))

\* The text with markers is made of its chunks.
LEMMA MarkedIs == ASSUME NEW k PROVE M!Marked(k) = M!FlattenSeq(MarkedParts(k))
BY DEF M!Marked, M!Joined, MarkedParts, MarkedPart

\* So is the merged one.
LEMMA MergedIs == ASSUME NEW k, NEW c PROVE M!Merged(k, c) = M!FlattenSeq(MergedParts(k, c))
BY DEF M!Merged, M!Joined, MergedParts

\* A chunk that merges by itself has no marker.
LEMMA AutomaticType == ASSUME NEW x, x \in Chunk PROVE M!Automatic(x) \in Seq(Plain)
BY DEF Chunk, M!Automatic

\* The lines of a conflict are such as the server writes.
LEMMA MarkedPartType == ASSUME NEW x, x \in Chunk PROVE MarkedPart(x) \in Seq(AnyLine)
<1> DEFINE O == <<M!Mark(">>>>", "ORIGINAL")>>
           T1 == <<M!Mark("==", "THEIRS")>>
           Y1 == <<M!Mark("==", "YOURS")>>
           C == <<M!Mark("<<<<", "")>>
           b == x.base
           t == x.theirs
           y == x.yours
<1>1. O \in Seq(AnyLine) /\ T1 \in Seq(AnyLine) /\ Y1 \in Seq(AnyLine) /\ C \in Seq(AnyLine)
  BY LineTypes DEF AnyLine
<1>2. b \in Seq(Plain) /\ t \in Seq(Plain) /\ y \in Seq(Plain)
  BY DEF Chunk
<1>3. b \in Seq(AnyLine) /\ t \in Seq(AnyLine) /\ y \in Seq(AnyLine)
  BY <1>2, LineTypes
<1> HIDE DEF O, T1, Y1, C, b, t, y
<1>4. ASSUME NEW u, NEW v, u \in Seq(AnyLine), v \in Seq(AnyLine)
      PROVE  u \o v \in Seq(AnyLine)
  BY ONLY <1>4
<1>5. ((((((O \o b) \o T1) \o t) \o Y1) \o y) \o C) \in Seq(AnyLine)
  BY ONLY <1>1, <1>3, <1>4
<1> QED
  BY ONLY <1>5 DEF MarkedPart, O, T1, Y1, C, b, t, y

\* Every conflict has its number among those of the merge.
LEMMA ConflictNumber ==
  ASSUME NEW k, k \in Seq(Chunk)
  PROVE  /\ Total(k) \in Nat
         /\ \A i \in 1..Len(k) : M!Conflicting(k[i]) =>
              /\ M!Conflicts(k, i) = M!Conflicts(k, i - 1) + 1
              /\ M!Conflicts(k, i) \in 1..Total(k)
<1> DEFINE n == Len(k)
           N(i) == M!Conflicts(k, i)
<1>1. n \in Nat
  OBVIOUS
<1>2. \A i \in Nat : N(i) \in Nat /\ N(i + 1) = IF M!Conflicting(k[i + 1]) THEN N(i) + 1 ELSE N(i)
  BY ConflictsStep
<1> HIDE DEF N, n
<1> DEFINE Holds == {d \in Nat : \A i \in 0..n : i + d <= n => N(i) <= N(i + d)}
<1>3. \A d \in Nat : d \in Holds
  <2>1. 0 \in Holds
    BY ONLY <1>1, <1>2
  <2>2. ASSUME NEW d \in Nat, d \in Holds PROVE d + 1 \in Holds
    <3> SUFFICES ASSUME NEW i \in 0..n, i + (d + 1) <= n PROVE N(i) <= N(i + (d + 1))
      OBVIOUS
    <3>1. i \in Nat /\ i + d \in Nat /\ i + d <= n /\ i + (d + 1) = (i + d) + 1
      BY ONLY <1>1, d \in Nat, i \in 0..n, i + (d + 1) <= n
    <3>2. N(i) <= N(i + d)
      BY ONLY <2>2, <3>1, i \in 0..n
    <3>3. N(i) \in Nat /\ N(i + d) \in Nat /\ (N((i + d) + 1) = N(i + d) + 1 \/ N((i + d) + 1) = N(i + d))
      BY ONLY <1>2, <3>1
    <3> QED BY ONLY <3>1, <3>2, <3>3
  <2> HIDE DEF Holds
  <2> QED BY ONLY <2>1, <2>2, Induction
<1>4. ASSUME NEW i \in 1..n, M!Conflicting(k[i]) PROVE N(i) = N(i - 1) + 1 /\ N(i) \in 1..N(n)
  <2>1. i - 1 \in Nat /\ (i - 1) + 1 = i /\ i \in 0..n /\ n - i \in Nat /\ i + (n - i) = n /\ n \in Nat /\ i \in Nat
    BY ONLY <1>1, i \in 1..n
  <2>2. N(i) = N(i - 1) + 1 /\ N(i - 1) \in Nat /\ N(i) \in Nat /\ N(n) \in Nat
    BY ONLY <1>2, <1>4, <2>1
  <2>3. N(i) <= N(n)
    <3>1. n - i \in Holds
      BY ONLY <1>3, <2>1
    <3>2. i + (n - i) <= n => N(i) <= N(i + (n - i))
      BY ONLY <3>1, <2>1
    <3> QED BY ONLY <3>2, <2>1
  <2> QED BY ONLY <2>2, <2>3
<1> QED
  BY <1>1, <1>2, <1>4 DEF N, n, Total

\* The types of the chunks of both texts.
LEMMA PartTypes ==
  ASSUME NEW k, k \in Seq(Chunk), k # <<>>
  PROVE  /\ MarkedParts(k) \in Seq(Seq(AnyLine)) /\ MarkedParts(k) # <<>> /\ Len(MarkedParts(k)) = Len(k)
         /\ \A c \in [1..Total(k) -> Choices] :
              /\ MergedParts(k, c) \in Seq(Seq(Plain)) /\ MergedParts(k, c) # <<>>
              /\ Len(MergedParts(k, c)) = Len(k)
<1> DEFINE n == Len(k)
<1>1. n \in Nat /\ n # 0 /\ DOMAIN k = 1..n /\ \A i \in 1..n : k[i] \in Chunk
  OBVIOUS
<1>2. \A i \in 1..n : MarkedParts(k)[i] \in Seq(AnyLine)
  <2> TAKE i \in 1..n
  <2>1. MarkedPart(k[i]) \in Seq(AnyLine) /\ M!Automatic(k[i]) \in Seq(AnyLine)
    BY <1>1, MarkedPartType, AutomaticType, LineTypes
  <2> QED BY <1>1, <2>1 DEF MarkedParts
<1>3. MarkedParts(k) \in [1..n -> Seq(AnyLine)]
  BY <1>1, <1>2 DEF MarkedParts
<1>4. ASSUME NEW c \in [1..Total(k) -> Choices], NEW i \in 1..n
      PROVE  MergedParts(k, c)[i] \in Seq(Plain)
  <2>1. M!Automatic(k[i]) \in Seq(Plain)
    BY <1>1, AutomaticType
  <2>2. CASE M!Conflicting(k[i])
    <3>1. c[M!Conflicts(k, i)] \in Choices
      BY <2>2, ConflictNumber
    <3>2. M!Chosen3(k[i], c[M!Conflicts(k, i)]) \in Seq(Plain)
      BY <3>1, <1>1, HunkLinesChosen
    <3> QED BY <3>2, <2>2, <1>1 DEF MergedParts
  <2>3. CASE ~M!Conflicting(k[i])
    BY <2>1, <2>3, <1>1 DEF MergedParts
  <2> QED BY <2>2, <2>3
<1>5. ASSUME NEW c \in [1..Total(k) -> Choices]
      PROVE  MergedParts(k, c) \in [1..n -> Seq(Plain)]
  BY <1>1, <1>4 DEF MergedParts
<1>6. ASSUME NEW Elem, NEW f, f \in [1..n -> Elem] PROVE f \in Seq(Elem) /\ f # <<>> /\ Len(f) = n
  BY ONLY <1>1, <1>6
<1> HIDE DEF n
<1>7. MarkedParts(k) \in Seq(Seq(AnyLine)) /\ MarkedParts(k) # <<>> /\ Len(MarkedParts(k)) = n
  BY ONLY <1>3, <1>6
<1>8. ASSUME NEW c \in [1..Total(k) -> Choices]
      PROVE  MergedParts(k, c) \in Seq(Seq(Plain)) /\ MergedParts(k, c) # <<>> /\ Len(MergedParts(k, c)) = n
  BY ONLY <1>5, <1>6, c \in [1..Total(k) -> Choices]
<1> QED
  BY ONLY <1>7, <1>8 DEF n

\* What the parser begins with.
LEMMA StartIs ==
  ASSUME NEW c
  PROVE  /\ M!Start \in State /\ ~M!Start.inside /\ M!Start.segs = <<>> /\ M!Start.buf = <<>>
         /\ Rebuilt(c, <<>>) = Begin /\ Begin \in Result /\ Begin.n = 1 /\ Begin.out = <<>>
         /\ HunkCount(<<>>) = 0
<1>1. <<>> \in Seq(Segment) /\ <<>> \in Seq(Section) /\ <<>> \in Seq(Plain)
  OBVIOUS
<1>2. M!Start \in State /\ ~M!Start.inside /\ M!Start.segs = <<>> /\ M!Start.buf = <<>>
  BY <1>1 DEF M!Start, State, Labels
<1>3. Begin \in Result /\ Begin.n = 1 /\ Begin.out = <<>>
  BY <1>1 DEF Begin, Result
<1>4. M!Hunks(<<>>) = {}
  BY DEF M!Hunks
<1>5. HunkCount(<<>>) = 0
  BY ONLY <1>4, SameCardinality, FS_EmptySet DEF HunkCount
<1> QED
  BY <1>2, <1>3, <1>5, RebuiltEmpty

\* The parser over the whole text with markers, by induction over the chunks: what is put
\* out at the end is the merged text.
LEMMA ParsedMarked ==
  ASSUME NEW k, k \in Seq(Chunk), k # <<>>, NEW c \in [1..Total(k) -> Choices]
  PROVE  Parsed(c, M!FoldLeft(M!Next3, M!Start, M!Marked(k)), Total(k), M!Merged(k, c))
<1> DEFINE n == Len(k)
           mp == MarkedParts(k)
           gp == MergedParts(k, c)
<1>1. n \in Nat /\ n # 0 /\ DOMAIN k = 1..n /\ \A i \in 1..n : k[i] \in Chunk
  OBVIOUS
<1>2. /\ mp \in Seq(Seq(AnyLine)) /\ mp # <<>> /\ Len(mp) = n
      /\ gp \in Seq(Seq(Plain)) /\ gp # <<>> /\ Len(gp) = n
  BY PartTypes
<1>3. /\ \A i \in 1..n : mp[i] = IF M!Conflicting(k[i]) THEN MarkedPart(k[i]) ELSE M!Automatic(k[i])
      /\ \A i \in 1..n : gp[i] = IF M!Conflicting(k[i]) THEN M!Chosen3(k[i], c[M!Conflicts(k, i)])
                                 ELSE M!Automatic(k[i])
  BY <1>1 DEF MarkedParts, MergedParts
<1>4. M!Marked(k) = M!FlattenSeq(mp) /\ M!Merged(k, c) = M!FlattenSeq(gp)
  BY MarkedIs, MergedIs
<1>5. Total(k) = M!Conflicts(k, n)
  BY DEF Total
<1>c. DOMAIN c = 1..Total(k) /\ Len(c) = Total(k) /\ \A j \in 1..Total(k) : c[j] \in Choices
  BY ConflictNumber
<1> HIDE DEF n, mp, gp
<1>6f. PICK f : Flattened(f, mp, AnyLine)
  BY ONLY <1>2, Flattening
<1>6. /\ f \in [0..n -> Seq(AnyLine)]
      /\ f[0] = <<>> /\ f[n] = M!Marked(k) /\ \A i \in 1..n : f[i] = f[i-1] \o mp[i]
  BY ONLY <1>2, <1>4, <1>6f DEF Flattened
<1>7f. PICK g : Flattened(g, gp, Plain)
  BY ONLY <1>2, Flattening
<1>7. /\ g \in [0..n -> Seq(Plain)]
      /\ g[0] = <<>> /\ g[n] = M!Merged(k, c) /\ \A i \in 1..n : g[i] = g[i-1] \o gp[i]
  BY ONLY <1>2, <1>4, <1>7f DEF Flattened
<1>t. \A i \in 0..n : f[i] \in Seq(AnyLine) /\ Len(f[i]) \in Nat
  BY ONLY <1>6
<1>8. PICK p : /\ p[0] = M!Start /\ p[Len(f[n])] = M!FoldLeft(M!Next3, M!Start, f[n])
               /\ \A i \in 1..Len(f[n]) : p[i] = M!Next3(p[i-1], f[n][i])
  <2>1. f[n] \in Seq(AnyLine) /\ Len(f[n]) \in Nat /\ DOMAIN f[n] = 1..Len(f[n])
    BY ONLY <1>1, <1>t
  <2> QED BY ONLY <2>1, ParseSteps
<1>9. Reads(p, 0, f[n])
  <2>1. \A j \in 1..Len(f[n]) : 0 + j = j /\ 0 + j - 1 = j - 1
    BY ONLY <1>1, <1>t
  <2> QED BY ONLY <2>1, <1>8 DEF Reads
<1>10. \A i \in 1..n : f[i-1] \in Seq(AnyLine) /\ mp[i] \in Seq(AnyLine)
  <2>1. \A i \in 1..n : i - 1 \in 0..n
    BY ONLY <1>1
  <2>2. \A i \in 1..n : mp[i] \in Seq(AnyLine)
    BY ONLY <1>2
  <2> QED BY ONLY <2>1, <2>2, <1>t
<1>11. \A i \in 0..n : Reads(p, 0, f[i])
  <2> DEFINE Holds == {d \in Nat : d <= n => Reads(p, 0, f[n - d])}
  <2>1. 0 \in Holds
    <3>1. n - 0 = n
      BY ONLY <1>1
    <3> QED BY ONLY <3>1, <1>9
  <2>2. ASSUME NEW d \in Nat, d \in Holds PROVE d + 1 \in Holds
    <3> SUFFICES ASSUME d + 1 <= n PROVE Reads(p, 0, f[n - (d + 1)])
      OBVIOUS
    <3>1. n - d \in 1..n /\ n - (d + 1) = (n - d) - 1 /\ d <= n
      BY ONLY <1>1, d \in Nat, d + 1 <= n
    <3>2. Reads(p, 0, f[(n - d) - 1] \o mp[n - d])
      BY ONLY <2>2, <3>1, <1>6
    <3>3. Reads(p, 0, f[(n - d) - 1])
      BY ONLY <3>1, <3>2, <1>10, ReadsCat, 0 \in Nat
    <3> QED BY ONLY <3>1, <3>3
  <2>3. \A d \in Nat : d \in Holds
    <3> HIDE DEF Holds
    <3> QED BY ONLY <2>1, <2>2, Induction
  <2>4. ASSUME NEW i \in 0..n PROVE Reads(p, 0, f[i])
    <3>1. n - i \in Nat /\ n - i <= n /\ n - (n - i) = i
      BY ONLY <1>1, i \in 0..n
    <3>2. Reads(p, 0, f[n - (n - i)])
      BY ONLY <2>3, <3>1
    <3> QED BY ONLY <3>1, <3>2
  <2> QED BY ONLY <2>4
<1>12. ASSUME NEW i \in 1..n
       PROVE  /\ Reads(p, Len(f[i-1]), mp[i]) /\ Len(f[i-1]) \in Nat
              /\ Len(f[i]) = Len(f[i-1]) + Len(mp[i])
  <2>0. f[i] = f[i-1] \o mp[i]
    BY ONLY <1>6, i \in 1..n
  <2>1. i \in 0..n /\ Reads(p, 0, f[i-1] \o mp[i])
    <3>1. i \in 0..n
      BY ONLY <1>1, i \in 1..n
    <3>2. Reads(p, 0, f[i])
      BY ONLY <3>1, <1>11
    <3> QED BY ONLY <3>1, <3>2, <2>0
  <2>2. Reads(p, 0 + Len(f[i-1]), mp[i]) /\ 0 + Len(f[i-1] \o mp[i]) = (0 + Len(f[i-1])) + Len(mp[i])
    BY ONLY <2>1, <1>10, ReadsCat, 0 \in Nat
  <2>3. i - 1 \in 0..n
    BY ONLY <1>1, i \in 1..n
  <2>4. Len(f[i-1]) \in Nat /\ Len(f[i]) \in Nat /\ 0 + Len(f[i-1]) = Len(f[i-1])
    BY ONLY <2>1, <2>3, <1>t
  <2>5. Len(f[i]) = Len(f[i-1] \o mp[i]) /\ 0 + Len(f[i]) = Len(f[i])
    BY ONLY <2>0, <2>4
  <2> QED BY ONLY <2>2, <2>4, <2>5
<1> DEFINE J(i) == Parsed(c, p[Len(f[i])], M!Conflicts(k, i), g[i])
           Holds == {i \in Nat : i <= n => J(i)}
<1>13. 0 \in Holds
  <2>1. Len(f[0]) = 0
    BY ONLY <1>6
  <2>2. p[Len(f[0])] = M!Start
    BY ONLY <2>1, <1>8
  <2>3. M!Conflicts(k, 0) = 0
    BY ConflictsStep
  <2>4. <<>> \o <<>> = <<>> /\ 0 + 1 = 1
    OBVIOUS
  <2>5. J(0)
    BY ONLY <2>2, <2>3, <2>4, <1>7, StartIs DEF Parsed
  <2> HIDE DEF J
  <2> QED BY ONLY <2>5
<1>14. ASSUME NEW i \in Nat, i \in Holds PROVE i + 1 \in Holds
  <2> SUFFICES ASSUME i + 1 <= n PROVE J(i + 1)
    OBVIOUS
  <2> DEFINE a == Len(f[i])
             x == k[i + 1]
             m == M!Conflicts(k, i)
             b == Len(f[i + 1])
  <2>1. i + 1 \in 1..n /\ (i + 1) - 1 = i /\ i <= n
    BY ONLY <1>1, i \in Nat, i + 1 <= n
  <2>2. Parsed(c, p[a], m, g[i])
    <3> HIDE DEF J
    <3>1. J(i)
      BY ONLY <1>14, <2>1
    <3> QED BY ONLY <3>1 DEF J
  <2>3. x \in Chunk /\ a \in Nat /\ Reads(p, a, mp[i + 1]) /\ b = a + Len(mp[i + 1])
    BY ONLY <1>1, <1>12, <2>1
  <2>4. g[i + 1] = g[i] \o gp[i + 1]
    BY ONLY <1>7, <2>1
  <2>5. m \in Nat /\ M!Conflicts(k, i + 1) = IF M!Conflicting(x) THEN m + 1 ELSE m
    BY ONLY ConflictsStep, i \in Nat
  <2>6. mp[i + 1] = (IF M!Conflicting(x) THEN MarkedPart(x) ELSE M!Automatic(x))
        /\ gp[i + 1] = (IF M!Conflicting(x) THEN M!Chosen3(x, c[M!Conflicts(k, i + 1)]) ELSE M!Automatic(x))
    BY ONLY <1>3, <2>1
  <2> HIDE DEF a, x, m, b
  <2>7. CASE ~M!Conflicting(x)
    <3>1. M!Automatic(x) \in Seq(Plain)
      BY ONLY <2>3, AutomaticType
    <3>2. mp[i + 1] = M!Automatic(x) /\ gp[i + 1] = M!Automatic(x)
      BY ONLY <2>6, <2>7
    <3> DEFINE l == M!Automatic(x)
    <3> HIDE DEF l
    <3>4. Parsed(c, p[a + Len(l)], m, g[i] \o l)
      BY ONLY <2>2, <2>3, <3>1, <3>2, ParsedPlain DEF l
    <3>3. Parsed(c, p[b], m, g[i + 1])
      BY ONLY <2>3, <2>4, <3>2, <3>4 DEF l
    <3> QED BY ONLY <2>5, <2>7, <3>3 DEF b
  <2>8. CASE M!Conflicting(x)
    <3>1. m + 1 \in 1..Total(k)
      <4>1. M!Conflicts(k, i + 1) \in 1..Total(k)
        <5>1. \A j \in 1..n : M!Conflicting(k[j]) => M!Conflicts(k, j) \in 1..Total(k)
          BY ConflictNumber DEF n
        <5> HIDE DEF Holds, J
        <5> QED BY ONLY <5>1, <2>1, <2>8 DEF x
      <4> QED BY ONLY <4>1, <2>5, <2>8
    <3>2. m + 1 <= Len(c) /\ c[m + 1] \in Choices
      BY ONLY <3>1, <1>c
    <3>3. mp[i + 1] = MarkedPart(x) /\ gp[i + 1] = M!Chosen3(x, c[m + 1])
      BY ONLY <2>5, <2>6, <2>8
    <3>5. Parsed(c, p[a + Len(MarkedPart(x))], m + 1, g[i] \o M!Chosen3(x, c[m + 1]))
      BY ONLY <2>2, <2>3, <2>5, <3>2, <3>3, ParsedHunk
    <3>4. Parsed(c, p[b], m + 1, g[i + 1])
      BY ONLY <2>3, <2>4, <3>3, <3>5
    <3> QED BY ONLY <2>5, <2>8, <3>4 DEF b
  <2> QED BY ONLY <2>7, <2>8
<1>15. J(n)
  <2>1. \A i \in Nat : i \in Holds
    <3> HIDE DEF Holds
    <3> QED BY ONLY <1>13, <1>14, Induction
  <2> HIDE DEF J
  <2> QED BY ONLY <2>1, <1>1
<1> QED
  BY ONLY <1>5, <1>6, <1>7, <1>8, <1>15

-----------------------------------------------------------------------------
(* The round trip, and what the texts of the resolves hold.                *)

\* The type of FlattenSeq.
LEMMA FlattenType ==
  ASSUME NEW Elem, NEW s, s \in Seq(Seq(Elem)), s # <<>>
  PROVE  M!FlattenSeq(s) \in Seq(Elem)
<1>1. PICK g : Flattened(g, s, Elem)
  BY Flattening
<1>2. Len(s) \in 0..Len(s)
  OBVIOUS
<1> QED
  BY ONLY <1>1, <1>2 DEF Flattened

\* The merged text has no marker.
LEMMA MergedType ==
  ASSUME NEW k, k \in Seq(Chunk), k # <<>>, NEW c \in [1..Total(k) -> Choices]
  PROVE  M!Merged(k, c) \in Seq(Plain)
<1>1. MergedParts(k, c) \in Seq(Seq(Plain)) /\ MergedParts(k, c) # <<>>
  BY PartTypes
<1> QED
  BY ONLY <1>1, FlattenType, MergedIs

\* A text of lines without a marker has none.
LEMMA NoMarkers == \A t \in Seq(Plain) : ~M!HasMarkers(t)
<1>1. \A x \in Plain : x.mark = ""
  BY DEF Plain
<1>2. ASSUME NEW t, t \in Seq(Plain), NEW i \in DOMAIN t PROVE t[i].mark = ""
  <2>1. t[i] \in Plain
    BY <1>2, ElementOfSeq
  <2> QED BY <1>1, <2>1
<1> QED
  BY <1>2 DEF M!HasMarkers

\* The segments of the text that -af writes.
ParsedText(k) == M!Parse(M!Marked(k))

\* Putting the segments together gives the merged text, and there are as many hunks as
\* conflicts.
LEMMA ParsedIs ==
  ASSUME NEW k, k \in Seq(Chunk), k # <<>>, NEW c \in [1..Total(k) -> Choices]
  PROVE  /\ Rebuilt(c, ParsedText(k)).out = M!Merged(k, c)
         /\ HunkCount(ParsedText(k)) = Total(k)
<1> DEFINE q == M!FoldLeft(M!Next3, M!Start, M!Marked(k))
           out == M!Merged(k, c)
<1>1. Parsed(c, q, Total(k), out)
  BY ParsedMarked
<1>2. ParsedText(k) = M!Flushed(q)
  <2>1. ~q.inside
    BY ONLY <1>1 DEF Parsed
  <2> QED BY ONLY <2>1 DEF ParsedText, M!Parse
<1> HIDE DEF q, out
<1>3. /\ q \in State /\ Rebuilt(c, q.segs) \in Result
      /\ HunkCount(q.segs) = Total(k) /\ Rebuilt(c, q.segs).out \o q.buf = out
  BY ONLY <1>1 DEF Parsed
<1>4. /\ Rebuilt(c, M!Flushed(q)) = [out |-> Rebuilt(c, q.segs).out \o q.buf, n |-> Rebuilt(c, q.segs).n]
      /\ HunkCount(M!Flushed(q)) = HunkCount(q.segs)
  BY ONLY <1>3, FlushedRebuilt DEF HunkCount
<1>5. Rebuilt(c, M!Flushed(q)).out = out
  <2> DEFINE o == Rebuilt(c, q.segs).out \o q.buf
             r == Rebuilt(c, M!Flushed(q))
             m == Rebuilt(c, q.segs).n
  <2>1. r = [out |-> o, n |-> m] /\ o = out
    BY ONLY <1>3, <1>4
  <2> HIDE DEF o, r, m
  <2>2. r.out = out
    BY ONLY <2>1
  <2> QED BY ONLY <2>2 DEF r
<1> QED
  BY ONLY <1>2, <1>3, <1>4, <1>5 DEF out

\* The editor asks for one choice per conflict.
LEMMA EditorIs ==
  ASSUME NEW k, k \in Seq(Chunk), k # <<>>
  PROVE  M!EditorChoices(ParsedText(k)) = [1..Total(k) -> Choices]
<1> DEFINE c == [j \in 1..Total(k) |-> "yours"]
<1>1. c \in [1..Total(k) -> Choices]
  BY DEF Choices
<1> HIDE DEF c
<1>2. HunkCount(ParsedText(k)) = Total(k)
  BY <1>1, ParsedIs
<1> QED
  BY ONLY <1>2 DEF M!EditorChoices, HunkCount, Choices

\* Reconstruct is the fold the lemmas are about.
LEMMA ReconstructIs ==
  ASSUME NEW segs, NEW c
  PROVE  M!Reconstruct(segs, c) = Rebuilt(c, segs).out
BY Zenon DEF M!Reconstruct, Rebuilt, Begin

\* The round trip of a merge by hand (merge3.py, parse_conflict_markers and reconstruct): for
\* every three-way merge and every choice in the editor, what is put together from the
\* text with markers is the merge with these choices, and holds no marker.
THEOREM RoundTrip ==
  ASSUME NEW k, k \in Seq(Chunk), k # <<>>,
         NEW c, c \in M!EditorChoices(M!Parse(M!Marked(k)))
  PROVE  /\ M!Reconstruct(M!Parse(M!Marked(k)), c) = M!Merged(k, c)
         /\ ~M!HasMarkers(M!Merged(k, c))
<1>1. c \in [1..Total(k) -> Choices]
  BY EditorIs DEF ParsedText
<1>2. M!Reconstruct(M!Parse(M!Marked(k)), c) = M!Merged(k, c)
  BY ONLY <1>1, k \in Seq(Chunk), k # <<>>, ParsedIs, ReconstructIs DEF ParsedText
<1>3. M!Merged(k, c) \in Seq(Plain)
  BY <1>1, MergedType
<1> QED
  BY <1>2, <1>3, NoMarkers

\* A side has no marker.
LEMMA SideType ==
  ASSUME NEW k, k \in Seq(Chunk), k # <<>>, NEW side \in {"yours", "theirs"}
  PROVE  M!Side(k, side) \in Seq(Plain)
<1> DEFINE s == [i \in DOMAIN k |-> k[i][side]]
           n == Len(k)
<1>1. n \in Nat /\ n # 0 /\ DOMAIN k = 1..n /\ \A i \in 1..n : k[i] \in Chunk
  OBVIOUS
<1>2. \A x \in Chunk : x[side] \in Seq(Plain)
  BY DEF Chunk
<1>3. s \in [1..n -> Seq(Plain)]
  BY <1>1, <1>2
<1> HIDE DEF s, n
<1>4. s \in Seq(Seq(Plain)) /\ s # <<>>
  BY ONLY <1>1, <1>3
<1> QED
  BY ONLY <1>4, FlattenType DEF M!Side, s

\* Nor has a merge without conflict.
LEMMA CleanType ==
  ASSUME NEW k, k \in Seq(Chunk), k # <<>>, M!Clean(k)
  PROVE  M!Merged(k, <<>>) \in Seq(Plain)
<1> DEFINE s == MergedParts(k, <<>>)
           n == Len(k)
<1>1. n \in Nat /\ n # 0 /\ DOMAIN k = 1..n /\ \A i \in 1..n : k[i] \in Chunk
  OBVIOUS
<1>2. \A i \in 1..n : ~M!Conflicting(k[i])
  BY <1>1 DEF M!Clean
<1>3. s = [i \in 1..n |-> M!Automatic(k[i])]
  BY <1>1, <1>2 DEF MergedParts
<1>4. s \in [1..n -> Seq(Plain)]
  BY <1>1, <1>3, AutomaticType
<1> HIDE DEF s, n
<1>5. s \in Seq(Seq(Plain)) /\ s # <<>>
  BY ONLY <1>1, <1>4
<1> QED
  BY ONLY <1>5, FlattenType, MergedIs DEF s

\* What is assumed of the merges a file may need.
LEMMA CaseTypes == \A k \in Cases : k \in Seq(Chunk) /\ k # <<>>
BY MergesAssumption DEF M!MergesAssumption, M!Texts, Chunk, Plain

\* What the ways to resolve leave in a file.
LEMMA CaseTexts ==
  ASSUME NEW k \in Cases
  PROVE  /\ ~M!HasMarkers(M!Yours[k]) /\ ~M!HasMarkers(M!Theirs[k])
         /\ k \in M!Mergeable => ~M!HasMarkers(M!Auto[k])
         /\ M!Markers[k] = M!Marked(k)
<1>1. k \in Seq(Chunk) /\ k # <<>>
  BY CaseTypes
<1>2. M!Yours[k] = M!Side(k, "yours") /\ M!Theirs[k] = M!Side(k, "theirs")
  BY DEF M!Yours, M!Theirs
<1>3. M!Side(k, "yours") \in Seq(Plain) /\ M!Side(k, "theirs") \in Seq(Plain)
  BY <1>1, SideType
<1>4. ASSUME k \in M!Mergeable PROVE ~M!HasMarkers(M!Auto[k])
  <2>1. M!Clean(k)
    BY <1>4 DEF M!Mergeable
  <2>2. M!Auto[k] = M!Merged(k, <<>>)
    BY Zenon DEF M!Auto
  <2>3. M!Merged(k, <<>>) \in Seq(Plain)
    BY <1>1, <2>1, CleanType
  <2> QED BY ONLY <2>2, <2>3, NoMarkers
<1>5. M!Markers[k] = M!Marked(k)
  BY DEF M!Markers
<1>6. ~M!HasMarkers(M!Yours[k]) /\ ~M!HasMarkers(M!Theirs[k])
  BY ONLY <1>2, <1>3, NoMarkers
<1> QED
  BY ONLY <1>4, <1>5, <1>6

\* What Apply of the editor writes.
LEMMA ApplyTexts ==
  ASSUME NEW k \in Cases, NEW c, c \in M!EditorChoices(M!Parse(M!Markers[k]))
  PROVE  /\ M!Reconstruct(M!Parse(M!Markers[k]), c) = M!Merged(k, c)
         /\ ~M!HasMarkers(M!Merged(k, c))
<1>1. k \in Seq(Chunk) /\ k # <<>> /\ M!Markers[k] = M!Marked(k)
  BY CaseTypes, CaseTexts
<1>2. c \in M!EditorChoices(M!Parse(M!Marked(k)))
  BY ONLY <1>1, c \in M!EditorChoices(M!Parse(M!Markers[k]))
<1> QED
  BY ONLY <1>1, <1>2, RoundTrip

\* A file that is empty holds no marker.
LEMMA EmptyText == ~M!HasMarkers(<<>>)
BY DEF M!HasMarkers

-----------------------------------------------------------------------------
(* Merges: the inductive invariant.                                        *)


\* A merge by hand, by its fields.
Work(l, f, s, t, o, b, d) ==
  [pc |-> l, file |-> f, snapshot |-> s, segs |-> t, out |-> o, before |-> b, meant |-> d]

\* w has the fields of a merge by hand, and no others.
Shaped(w) == w = Work(w.pc, w.file, w.snapshot, w.segs, w.out, w.before, w.meant)

\* The shape of what is kept as functions and records.
ShapeInv ==
  /\ text = [f \in Files |-> text[f]] /\ told = [f \in Files |-> told[f]]
  /\ merger = [m \in Mergers |-> merger[m]] /\ \A m \in Mergers : Shaped(merger[m])
  /\ dialog = [pc |-> dialog.pc, scope |-> dialog.scope, force |-> dialog.force,
               submit |-> dialog.submit, rows |-> dialog.rows]

\* How far the merge w of the file f is, and what it knows by then.
Stage(w, f) ==
  /\ ~M!HasMarkers(w.before)
  /\ w.pc = "auto" => w.before = text[f]
  /\ w.pc = "check" => (f \in due => w.before = text[f])
  /\ w.pc \in {"snapshot", "force"} => f \in due /\ w.before = text[f]
  /\ w.pc = "force" => w.snapshot = w.before
  /\ w.pc \in {"read", "edit", "write"} => f \notin due /\ chunks[f] \in Cases
  /\ w.pc = "read" => text[f] = M!Markers[chunks[f]]
  /\ w.pc \in {"read", "edit"} => w.snapshot = w.before
  /\ w.pc = "edit" => w.segs = M!Parse(M!Markers[chunks[f]])
  /\ w.pc = "write" => w.out = w.meant /\ ~M!HasMarkers(w.out)

\* No more than one merge of f is under way.
Alone(f) == \A m, n \in Mergers : M!Under(m, f) /\ M!Under(n, f) => m = n

\* What the user was told of f stands, and no merge of f is under way.
ToldStands(f) ==
  told[f] # Nothing =>
    ~M!MergedNow(f) /\ chunks[f] # <<>> /\ text[f] = told[f] /\ f \notin due

\* Every merge of f is as far as its stage says.
Staged(f) == \A m \in Mergers : M!Under(m, f) => Stage(merger[m], f)

\* f holds markers only while a merge has put them there.
MarkedUnder(f) ==
  M!HasMarkers(text[f]) =>
    \E m \in Mergers : M!Under(m, f) /\ merger[m].pc \in {"read", "edit", "write"}

\* What is said of a file that is not disturbed.
FileInv(f) == Alone(f) /\ ToldStands(f) /\ Staged(f) /\ MarkedUnder(f)

\* It is said of all of them.
FilesInv == \A f \in Files \ disturbed : FileInv(f)

\* The inductive invariant of Merges.
MergesInv == M!TypeOK /\ ShapeInv /\ FilesInv


\* What the dialog, the submit and the commands of others do to a file.
Untouched(f) ==
  /\ f \notin disturbed /\ text'[f] = text[f] /\ told'[f] = told[f] /\ chunks'[f] = chunks[f]
  /\ f \in due' <=> f \in due

\* No merge of f is under way, and it holds what was checked in or resolved.
Renewed(f) == ~M!MergedNow(f) /\ told'[f] = Nothing /\ ~M!HasMarkers(text'[f])

\* A step that leaves every file alone or renews it preserves what is said of the files.
LEMMA ServerStep ==
  ASSUME FilesInv, merger' = merger,
         \A f \in Files \ disturbed' : Untouched(f) \/ Renewed(f)
  PROVE  FilesInv'
<1> SUFFICES ASSUME NEW f \in Files, f \notin disturbed' PROVE FileInv(f)'
  BY DEF FilesInv
<1>1. CASE Untouched(f)
  <2>1. FileInv(f)
    BY <1>1 DEF FilesInv, Untouched
  <2>2. Alone(f)' /\ ToldStands(f)' /\ MarkedUnder(f)'
    BY <1>1, <2>1 DEF Untouched, FileInv, Alone, ToldStands, MarkedUnder, M!Under, M!MergedNow
  <2>3. Staged(f)'
    BY <1>1, <2>1 DEF Untouched, FileInv, Staged, Stage, M!Under
  <2> QED BY <2>2, <2>3 DEF FileInv
<1>2. CASE Renewed(f)
  <2>1. \A m \in Mergers : ~M!Under(m, f)'
    BY <1>2 DEF Renewed, M!MergedNow, M!Under
  <2> QED BY <1>2, <2>1 DEF Renewed, FileInv, Alone, ToldStands, Staged, MarkedUnder
<1> QED
  BY <1>1, <1>2

\* What a step of the merge m of the file f comes to.
StepsTo(m, f, w) ==
  /\ merger' = [merger EXCEPT ![m] = w]
  /\ M!Under(m, f) \/ merger[m].pc = "idle"
  /\ w.pc = "idle" \/ w.file = f
  /\ disturbed \subseteq disturbed'
  /\ \A g \in Files \ {f} : /\ text'[g] = text[g] /\ told'[g] = told[g] /\ chunks'[g] = chunks[g]
                            /\ g \in due' <=> g \in due

\* ... to the file.
Leaves(m, f, w) ==
  /\ \A n \in Mergers : M!Under(n, f) => n = m
  /\ told'[f] # Nothing => w.pc = "idle" /\ chunks'[f] # <<>> /\ text'[f] = told'[f] /\ f \notin due'
  /\ w.pc # "idle" => Stage(merger[m], f)'
  /\ M!HasMarkers(text'[f]) => w.pc \in {"read", "edit", "write"}

\* So does a step of a merge that leaves its own file as Leaves says.
LEMMA MergeStep ==
  ASSUME MergesInv, NEW m \in Mergers, NEW f \in Files, NEW w, StepsTo(m, f, w),
         f \notin disturbed' => Leaves(m, f, w)
  PROVE  FilesInv'
<1>0. merger'[m] = w /\ \A n \in Mergers : n # m => merger'[n] = merger[n]
  BY DEF MergesInv, ShapeInv, StepsTo
<1> SUFFICES ASSUME NEW g \in Files, g \notin disturbed' PROVE FileInv(g)'
  BY DEF FilesInv
<1>1. CASE g # f
  <2>1. FileInv(g)
    BY DEF StepsTo, MergesInv, FilesInv
  <2>2. \A n \in Mergers : M!Under(n, g)' => M!Under(n, g) /\ n # m /\ merger'[n] = merger[n]
    BY <1>0, <1>1 DEF StepsTo, M!Under
  <2>3. \A n \in Mergers : M!Under(n, g) => n # m /\ M!Under(n, g)'
    BY <1>0, <1>1 DEF StepsTo, M!Under
  <2>4. Alone(g)' /\ ToldStands(g)'
    BY <1>1, <2>1, <2>2 DEF StepsTo, FileInv, Alone, ToldStands, M!MergedNow
  <2>5. MarkedUnder(g)'
    BY <1>0, <1>1, <2>1, <2>3 DEF StepsTo, FileInv, MarkedUnder
  <2>6. Staged(g)'
    BY <1>1, <2>1, <2>2 DEF StepsTo, FileInv, Staged, Stage
  <2> QED BY <2>4, <2>5, <2>6 DEF FileInv
<1>2. CASE g = f
  <2>1. Leaves(m, f, w)
    BY <1>2
  <2>2. \A n \in Mergers : M!Under(n, f)' => n = m
    BY <1>0, <2>1 DEF Leaves, M!Under
  <2>3. M!Under(m, f)' <=> w.pc # "idle"
    BY <1>0 DEF StepsTo, M!Under
  <2>4. Alone(f)'
    BY <2>2 DEF Alone
  <2>5. ToldStands(f)'
    BY <2>1, <2>2, <2>3 DEF Leaves, ToldStands, M!MergedNow
  <2>6. Staged(f)'
    BY <2>1, <2>2, <2>3 DEF Leaves, Staged
  <2>7. MarkedUnder(f)'
    BY <1>0, <2>1, <2>3 DEF Leaves, MarkedUnder
  <2> QED BY <1>2, <2>4, <2>5, <2>6, <2>7 DEF FileInv
<1> QED
  BY <1>1, <1>2

USE DEF M!resolves, M!merging

\* A step that changes no file.
LEMMA FilesSame ==
  ASSUME FilesInv, UNCHANGED <<chunks, due, text, merger, told, disturbed>>
  PROVE  FilesInv'
<1>1. \A f \in Files \ disturbed' : Untouched(f)
  BY DEF Untouched
<1> QED
  BY <1>1, ServerStep

-----------------------------------------------------------------------------
(* The dialog, the submit and the commands of others.                      *)

\* AskResolve, PromptResolve, ListUnresolved, RefreshDialog: only the dialog changes.
LEMMA DialogStep ==
  ASSUME MergesInv, M!AskResolve \/ M!PromptResolve \/ M!ListUnresolved \/ M!RefreshDialog
  PROVE  MergesInv'
<1>1. UNCHANGED <<opened, queued, chunks, due, text, merger, told, disturbed>>
  BY DEF M!AskResolve, M!PromptResolve, M!OpenDialog, M!ListUnresolved, M!RefreshDialog
<1>2. FilesInv'
  BY <1>1, FilesSame DEF MergesInv
<1>3. \/ \E S1, b1, b2 : dialog' = [M!Closed EXCEPT !.pc = "listing", !.scope = S1, !.force = b1, !.submit = b2]
      \/ \E rows \in SUBSET Files : dialog' = [dialog EXCEPT !.pc = "open", !.rows = rows]
      \/ dialog' = [dialog EXCEPT !.pc = "listing"]
  <2>1. CASE M!AskResolve \/ M!PromptResolve
    BY <2>1 DEF M!AskResolve, M!PromptResolve, M!OpenDialog
  <2>2. CASE M!ListUnresolved
    BY <2>2 DEF M!ListUnresolved, M!ToResolve, M!Scheduled, MergesInv, M!TypeOK
  <2>3. CASE M!RefreshDialog
    BY <2>3 DEF M!RefreshDialog
  <2> QED BY <2>1, <2>2, <2>3
<1>4. /\ dialog'.pc \in {"closed", "listing", "open"} /\ dialog'.rows \subseteq Files
      /\ dialog' = [pc |-> dialog'.pc, scope |-> dialog'.scope, force |-> dialog'.force,
                    submit |-> dialog'.submit, rows |-> dialog'.rows]
  BY <1>3 DEF MergesInv, M!TypeOK, ShapeInv, M!Closed
<1>5. asked' \in 0..MaxAsked
  <2>1. asked' = asked \/ (asked < MaxAsked /\ asked' = asked + 1)
    <3>1. \A files, force, sub : M!OpenDialog(files, force, sub) => asked < MaxAsked /\ asked' = asked + 1
      BY Zenon DEF M!OpenDialog
    <3>2. M!ListUnresolved \/ M!RefreshDialog => asked' = asked
      BY DEF M!ListUnresolved, M!RefreshDialog
    <3>3. M!AskResolve \/ M!PromptResolve => asked < MaxAsked /\ asked' = asked + 1
      BY ONLY <3>1, Zenon DEF M!AskResolve, M!PromptResolve
    <3> QED BY ONLY <3>2, <3>3, M!AskResolve \/ M!PromptResolve \/ M!ListUnresolved \/ M!RefreshDialog, Zenon
  <2>2. asked \in 0..MaxAsked /\ MaxAsked \in Nat
    BY MergesAssumption DEF MergesInv, M!TypeOK, M!MergesAssumption
  <2> QED BY ONLY <2>1, <2>2
<1>6. M!TypeOK' /\ ShapeInv'
  BY <1>1, <1>4, <1>5 DEF MergesInv, M!TypeOK, ShapeInv, M!Scheduled
<1> QED
  BY <1>2, <1>6 DEF MergesInv

\* RunChoices: only the batch changes.
LEMMA RunChoicesStep ==
  ASSUME MergesInv, M!RunChoices
  PROVE  MergesInv'
<1>1. UNCHANGED <<opened, queued, chunks, due, text, merger, told, disturbed, dialog, asked>>
  BY DEF M!RunChoices
<1>2. FilesInv'
  BY <1>1, FilesSame DEF MergesInv
<1> QED
  BY <1>1, <1>2 DEF MergesInv, M!TypeOK, ShapeInv, M!Scheduled

\* CloseDialog: the dialog goes, and a submit may be queued.
LEMMA CloseDialogStep ==
  ASSUME MergesInv, M!CloseDialog
  PROVE  MergesInv'
<1>1. UNCHANGED <<opened, chunks, due, text, merger, told, disturbed, asked>>
  BY DEF M!CloseDialog
<1>2. FilesInv'
  BY <1>1, FilesSame DEF MergesInv
<1>3. dialog' = M!Closed /\ queued' \in BOOLEAN
  BY DEF M!CloseDialog, MergesInv, M!TypeOK
<1> QED
  BY <1>1, <1>2, <1>3 DEF MergesInv, M!TypeOK, ShapeInv, M!Scheduled, M!Closed


\* Integrate: the file had no merge, so nothing stands of what was told.
LEMMA IntegrateStep ==
  ASSUME MergesInv, NEW f \in Files, M!Integrate(f)
  PROVE  MergesInv'
<1>1. PICK k \in Cases : chunks' = [chunks EXCEPT ![f] = k] /\ text' = [text EXCEPT ![f] = M!Yours[k]]
  BY DEF M!Integrate
<1>2. /\ chunks'[f] = k /\ text'[f] = M!Yours[k] /\ ~M!HasMarkers(text'[f])
      /\ \A g \in Files \ {f} : chunks'[g] = chunks[g] /\ text'[g] = text[g]
  BY <1>1, CaseTexts DEF MergesInv, M!TypeOK, ShapeInv
<1>3. FilesInv'
  <2>1. ASSUME NEW g \in Files, g # f, g \notin disturbed' PROVE Untouched(g)
    BY <1>2, <2>1 DEF M!Integrate, Untouched
  <2>2. ASSUME f \notin disturbed' PROVE Renewed(f)
    <3>1. f \notin disturbed /\ ~M!MergedNow(f)
      BY <2>2 DEF M!Integrate
    <3>2. chunks[f] = <<>>
      BY DEF M!Integrate, M!Scheduled
    <3>3. told[f] = Nothing
      BY <3>1, <3>2 DEF MergesInv, FilesInv, FileInv, ToldStands
    <3> QED BY <1>2, <3>1, <3>3 DEF M!Integrate, Renewed
  <2>3. merger' = merger
    BY DEF M!Integrate
  <2>4. \A g \in Files \ disturbed' : Untouched(g) \/ Renewed(g)
    BY <2>1, <2>2
  <2> QED BY <2>3, <2>4, ServerStep DEF MergesInv
<1>4. due' \subseteq opened' \cap M!Scheduled'
  <2>1. k # <<>>
    BY CaseTypes
  <2> QED BY <1>2, <2>1 DEF M!Integrate, MergesInv, M!TypeOK, M!Scheduled
<1>5. M!TypeOK'
  BY <1>1, <1>4, MergesAssumption DEF M!Integrate, MergesInv, M!TypeOK, M!MergesAssumption
<1>6. ShapeInv'
  BY <1>1 DEF M!Integrate, MergesInv, ShapeInv
<1> QED
  BY <1>3, <1>5, <1>6 DEF MergesInv

\* Closing files: nothing is left of what was known about them.
LEMMA ClosedFilesStep ==
  ASSUME MergesInv, NEW closed \in SUBSET Files, M!Close(closed),
         UNCHANGED <<merger, dialog, asked>>, queued' \in BOOLEAN
  PROVE  MergesInv'
<1>1. \A f \in Files :
        /\ chunks'[f] = IF f \in closed THEN <<>> ELSE chunks[f]
        /\ text'[f] = IF f \in closed THEN <<>> ELSE text[f]
        /\ told'[f] = IF f \in closed THEN Nothing ELSE told[f]
  BY DEF M!Close
<1>2. FilesInv'
  <2>1. ASSUME NEW f \in Files \ closed, f \notin disturbed' PROVE Untouched(f)
    BY <1>1, <2>1 DEF M!Close, Untouched
  <2>2. ASSUME NEW f \in closed, f \notin disturbed' PROVE Renewed(f)
    BY <1>1, <2>2, EmptyText DEF M!Close, Renewed
  <2>3. \A f \in Files \ disturbed' : Untouched(f) \/ Renewed(f)
    BY <2>1, <2>2
  <2> QED BY <2>3, ServerStep DEF MergesInv
<1>3. M!TypeOK'
  BY <1>1 DEF M!Close, MergesInv, M!TypeOK, M!Scheduled
<1>4. ShapeInv'
  BY DEF M!Close, MergesInv, ShapeInv
<1> QED
  BY <1>2, <1>3, <1>4 DEF MergesInv

\* Revert closes a file.
LEMMA RevertStep ==
  ASSUME MergesInv, NEW f \in Files, M!Revert(f)
  PROVE  MergesInv'
<1>1. M!Close({f}) /\ UNCHANGED <<merger, dialog, asked>> /\ queued' \in BOOLEAN
  BY DEF M!Revert, MergesInv, M!TypeOK
<1> QED
  BY <1>1, ClosedFilesStep

\* RunSubmit closes all of them, or the server refuses.
LEMMA RunSubmitStep ==
  ASSUME MergesInv, M!RunSubmit
  PROVE  MergesInv'
<1>1. UNCHANGED <<merger, dialog, asked>> /\ queued' \in BOOLEAN
  BY DEF M!RunSubmit
<1>2. CASE M!Close(opened)
  BY <1>1, <1>2, ClosedFilesStep DEF MergesInv, M!TypeOK
<1>3. CASE UNCHANGED <<opened, chunks, due, text, told, disturbed>>
  <2>1. FilesInv'
    BY <1>1, <1>3, FilesSame DEF MergesInv
  <2> QED BY <1>1, <1>3, <2>1 DEF MergesInv, M!TypeOK, ShapeInv, M!Scheduled
<1> QED
  BY <1>2, <1>3 DEF M!RunSubmit


\* What accepting files comes to: their text stays, or holds no marker and is resolved.
Accepts(accepted) ==
  /\ due' \subseteq due /\ text' = [f \in Files |-> text'[f]]
  /\ \A f \in Files \ accepted : text'[f] = text[f] /\ (f \in due' <=> f \in due)
  /\ \A f \in accepted : \/ text'[f] = text[f] /\ (f \in due' => f \in due)
                         \/ ~M!HasMarkers(text'[f]) /\ f \notin due'

\* Every way to accept is one of these.
LEMMA AcceptedText ==
  ASSUME MergesInv, NEW accepted, accepted \subseteq Files, NEW act, M!Accepted(accepted, act),
         accepted \subseteq M!Scheduled
  PROVE  Accepts(accepted)
<1> DEFINE taken == IF act = "auto" THEN {f \in accepted : chunks[f] \in M!Mergeable} ELSE accepted
<1>1. /\ due' = due \ taken
      /\ text' = [f \in Files |->
           CASE f \in taken /\ act = "auto" -> M!Auto[chunks[f]]
             [] f \in taken /\ act = "theirs" -> M!Theirs[chunks[f]]
             [] OTHER -> text[f]]
  BY DEF M!Accepted
<1>2. taken \subseteq accepted
  OBVIOUS
<1>3. \A f \in taken : chunks[f] \in Cases
  BY <1>2 DEF M!Scheduled, MergesInv, M!TypeOK
<1>4. \A f \in taken : act = "auto" => chunks[f] \in M!Mergeable
  OBVIOUS
<1> HIDE DEF taken
<1>5. due' \subseteq due /\ text' = [f \in Files |-> text'[f]]
  BY <1>1
<1>6. \A f \in Files \ accepted : text'[f] = text[f] /\ (f \in due' <=> f \in due)
  BY <1>1, <1>2
<1>7. ASSUME NEW f \in accepted
      PROVE  \/ text'[f] = text[f] /\ (f \in due' => f \in due)
             \/ ~M!HasMarkers(text'[f]) /\ f \notin due'
  <2>0. f \in Files
    OBVIOUS
  <2>1. CASE f \in taken /\ act = "auto"
    <3>1. text'[f] = M!Auto[chunks[f]] /\ f \notin due'
      BY <1>1, <2>1
    <3> QED BY <3>1, <2>1, <1>3, <1>4, CaseTexts
  <2>2. CASE f \in taken /\ act = "theirs"
    <3>1. text'[f] = M!Theirs[chunks[f]] /\ f \notin due'
      BY <1>1, <2>2
    <3> QED BY <3>1, <2>2, <1>3, CaseTexts
  <2>3. CASE f \notin taken \/ act \notin {"auto", "theirs"}
    BY ONLY <1>1, <2>0, <2>3
  <2> QED BY <2>1, <2>2, <2>3
<1> QED
  BY ONLY <1>5, <1>6, <1>7 DEF Accepts

\* RunBucket: what is accepted below a merge by hand is disturbed.
LEMMA RunBucketStep ==
  ASSUME MergesInv, M!RunBucket
  PROVE  MergesInv'
<1> DEFINE b == Head(batch.todo)
           accepted == M!ToResolve(b.files, batch.force)
<1>1. /\ accepted \subseteq M!Scheduled /\ accepted \subseteq Files
  BY DEF M!ToResolve, M!Scheduled, MergesInv, M!TypeOK
<1>2. \/ /\ M!Accepted(accepted, b.act)
         /\ told' = [f \in Files |-> IF f \in accepted THEN Nothing ELSE told[f]]
         /\ disturbed' = disturbed \cup {f \in accepted : M!MergedNow(f)}
      \/ UNCHANGED <<due, text, told, disturbed>>
  BY DEF M!RunBucket
<1>3. UNCHANGED <<opened, queued, chunks, merger, asked>>
  BY DEF M!RunBucket
<1>4. \E l \in {"closed", "listing", "open"} : dialog' = [dialog EXCEPT !.pc = l]
  BY DEF M!RunBucket, MergesInv, M!TypeOK
<1>5. /\ dialog'.pc \in {"closed", "listing", "open"} /\ dialog'.rows \subseteq Files
      /\ dialog' = [pc |-> dialog'.pc, scope |-> dialog'.scope, force |-> dialog'.force,
                    submit |-> dialog'.submit, rows |-> dialog'.rows]
  BY <1>4 DEF MergesInv, M!TypeOK, ShapeInv
<1> HIDE DEF accepted, b
<1>6. FilesInv' /\ due' \subseteq due /\ disturbed' \subseteq Files
        /\ text' = [f \in Files |-> text'[f]] /\ told' = [f \in Files |-> told'[f]]
  <2>1. CASE UNCHANGED <<due, text, told, disturbed>>
    <3>1. FilesInv'
      BY <1>3, <2>1, FilesSame DEF MergesInv
    <3> QED BY <2>1, <3>1 DEF MergesInv, M!TypeOK, ShapeInv
  <2>2. CASE /\ M!Accepted(accepted, b.act)
             /\ told' = [f \in Files |-> IF f \in accepted THEN Nothing ELSE told[f]]
             /\ disturbed' = disturbed \cup {f \in accepted : M!MergedNow(f)}
    <3>1. /\ due' \subseteq due /\ text' = [f \in Files |-> text'[f]]
          /\ \A f \in Files \ accepted : text'[f] = text[f] /\ (f \in due' <=> f \in due)
          /\ \A f \in accepted : text'[f] = text[f] \/ ~M!HasMarkers(text'[f])
      <4>1. Accepts(accepted)
        BY <1>1, <2>2, AcceptedText
      <4> QED BY ONLY <4>1 DEF Accepts
    <3>2. ASSUME NEW f \in Files \ disturbed' PROVE Untouched(f) \/ Renewed(f)
      <4>1. f \notin disturbed
        BY <2>2
      <4>2. CASE f \notin accepted
        BY <1>3, <2>2, <3>1, <4>1, <4>2 DEF Untouched
      <4>3. CASE f \in accepted
        <5>1. ~M!MergedNow(f) /\ told'[f] = Nothing
          BY <2>2, <4>3
        <5>2. ~M!HasMarkers(text[f])
          BY <4>1, <5>1 DEF MergesInv, FilesInv, FileInv, MarkedUnder, M!MergedNow
        <5> QED BY <3>1, <4>3, <5>1, <5>2 DEF Renewed
      <4> QED BY <4>2, <4>3
    <3>3. FilesInv'
      BY <1>3, <3>2, ServerStep DEF MergesInv
    <3> QED BY <1>1, <2>2, <3>1, <3>3 DEF MergesInv, M!TypeOK
  <2> QED BY <1>2, <2>1, <2>2
<1>7. M!TypeOK' /\ ShapeInv'
  BY <1>3, <1>5, <1>6 DEF MergesInv, M!TypeOK, ShapeInv, M!Scheduled
<1> QED
  BY <1>6, <1>7 DEF MergesInv

\* What the invariant says of the merge m while its file is not disturbed.
LEMMA AtStage ==
  ASSUME MergesInv, NEW m \in Mergers, merger[m].pc # "idle"
  PROVE  /\ merger[m].file \in Files /\ M!Under(m, merger[m].file)
         /\ merger[m].file \notin disturbed =>
              /\ Stage(merger[m], merger[m].file)
              /\ \A n \in Mergers : M!Under(n, merger[m].file) => n = m
              /\ told[merger[m].file] = Nothing
              /\ M!HasMarkers(text[merger[m].file]) => merger[m].pc \in {"read", "edit", "write"}
<1>1. merger[m].file \in Files /\ M!Under(m, merger[m].file)
  BY DEF MergesInv, M!TypeOK, M!Idle, M!Under
<1> QED
  BY <1>1 DEF MergesInv, FilesInv, FileInv, Alone, ToldStands, Staged, MarkedUnder, M!MergedNow

\* The types and shapes after a step of the merge m.
LEMMA MergeTypes ==
  ASSUME MergesInv, NEW m \in Mergers, NEW w, merger' = [merger EXCEPT ![m] = w],
         w = M!Idle \/ w.file \in Files,
         Shaped(w),
         UNCHANGED <<opened, queued, chunks, dialog, asked>>,
         due' \subseteq due, disturbed' \subseteq Files,
         text' = [f \in Files |-> text'[f]], told' = [f \in Files |-> told'[f]]
  PROVE  M!TypeOK' /\ ShapeInv'
<1>1. \A n \in Mergers : merger'[n] = IF n = m THEN w ELSE merger[n]
  BY DEF MergesInv, ShapeInv
<1>2. M!TypeOK'
  BY <1>1 DEF MergesInv, M!TypeOK, M!Scheduled
<1>3. ShapeInv'
  <2>1. \A n \in Mergers : Shaped(merger[n])'
    BY <1>1 DEF MergesInv, ShapeInv, Shaped
  <2> QED BY <2>1 DEF MergesInv, ShapeInv
<1> QED
  BY <1>2, <1>3

\* The updates of such a record that begin a merge and that write its end.
Begun(r, l, f, b) == [r EXCEPT !.pc = l, !.file = f, !.before = b]
Written(r, l, t, o, d) == [r EXCEPT !.pc = l, !.segs = t, !.out = o, !.meant = d]

\* What an update of such a record comes to.
LEMMA SetPc ==
  ASSUME NEW r, Shaped(r), NEW l
  PROVE  [r EXCEPT !.pc = l]
           = Work(l, r.file, r.snapshot, r.segs, r.out, r.before, r.meant)
BY DEF Work, Shaped

\* The same of two fields.
LEMMA SetSnapshot ==
  ASSUME NEW r, Shaped(r), NEW l, NEW s
  PROVE  [r EXCEPT !.pc = l, !.snapshot = s]
           = Work(l, r.file, s, r.segs, r.out, r.before, r.meant)
<1> DEFINE w0 == r
           w1 == [w0 EXCEPT !.pc = l]
           w2 == [w1 EXCEPT !.snapshot = s]
<1>0. [r EXCEPT !.pc = l, !.snapshot = s] = w2
  BY Zenon
<1>a. w0 = Work(r.pc, r.file, r.snapshot, r.segs, r.out, r.before, r.meant)
  BY DEF Shaped
<1> HIDE DEF w0
<1>1. w1 = Work(l, r.file, r.snapshot, r.segs, r.out, r.before, r.meant)
  BY ONLY <1>a DEF Work
<1> HIDE DEF w1
<1>2. w2 = Work(l, r.file, s, r.segs, r.out, r.before, r.meant)
  BY ONLY <1>1 DEF Work
<1> HIDE DEF w2
<1> QED
  BY ONLY <1>0, <1>2

\* The same.
LEMMA SetSegs ==
  ASSUME NEW r, Shaped(r), NEW l, NEW t
  PROVE  [r EXCEPT !.pc = l, !.segs = t]
           = Work(l, r.file, r.snapshot, t, r.out, r.before, r.meant)
<1> DEFINE w0 == r
           w1 == [w0 EXCEPT !.pc = l]
           w2 == [w1 EXCEPT !.segs = t]
<1>0. [r EXCEPT !.pc = l, !.segs = t] = w2
  BY Zenon
<1>a. w0 = Work(r.pc, r.file, r.snapshot, r.segs, r.out, r.before, r.meant)
  BY DEF Shaped
<1> HIDE DEF w0
<1>1. w1 = Work(l, r.file, r.snapshot, r.segs, r.out, r.before, r.meant)
  BY ONLY <1>a DEF Work
<1> HIDE DEF w1
<1>2. w2 = Work(l, r.file, r.snapshot, t, r.out, r.before, r.meant)
  BY ONLY <1>1 DEF Work
<1> HIDE DEF w2
<1> QED
  BY ONLY <1>0, <1>2

\* The same of four.
LEMMA SetOut ==
  ASSUME NEW r, Shaped(r), NEW l, NEW t, NEW o, NEW d
  PROVE  Written(r, l, t, o, d)
           = Work(l, r.file, r.snapshot, t, o, r.before, d)
<1> DEFINE w0 == r
           w1 == [w0 EXCEPT !.pc = l]
           w2 == [w1 EXCEPT !.segs = t]
           w3 == [w2 EXCEPT !.out = o]
           w4 == [w3 EXCEPT !.meant = d]
<1>0. Written(r, l, t, o, d) = w4
  BY Zenon DEF Written
<1>a. w0 = Work(r.pc, r.file, r.snapshot, r.segs, r.out, r.before, r.meant)
  BY DEF Shaped
<1> HIDE DEF w0
<1>1. w1 = Work(l, r.file, r.snapshot, r.segs, r.out, r.before, r.meant)
  BY ONLY <1>a DEF Work
<1> HIDE DEF w1
<1>2. w2 = Work(l, r.file, r.snapshot, t, r.out, r.before, r.meant)
  BY ONLY <1>1 DEF Work
<1> HIDE DEF w2
<1>3. w3 = Work(l, r.file, r.snapshot, t, o, r.before, r.meant)
  BY ONLY <1>2 DEF Work
<1> HIDE DEF w3
<1>4. w4 = Work(l, r.file, r.snapshot, t, o, r.before, d)
  BY ONLY <1>3 DEF Work
<1> HIDE DEF w4
<1> QED
  BY ONLY <1>0, <1>4

\* The same of the fields of a merge that begins.
LEMMA SetBefore ==
  ASSUME NEW r, Shaped(r), NEW l, NEW f, NEW b
  PROVE  Begun(r, l, f, b)
           = Work(l, f, r.snapshot, r.segs, r.out, b, r.meant)
<1> DEFINE w0 == r
           w1 == [w0 EXCEPT !.pc = l]
           w2 == [w1 EXCEPT !.file = f]
           w3 == [w2 EXCEPT !.before = b]
<1>0. Begun(r, l, f, b) = w3
  BY Zenon DEF Begun
<1>a. w0 = Work(r.pc, r.file, r.snapshot, r.segs, r.out, r.before, r.meant)
  BY DEF Shaped
<1> HIDE DEF w0
<1>1. w1 = Work(l, r.file, r.snapshot, r.segs, r.out, r.before, r.meant)
  BY ONLY <1>a DEF Work
<1> HIDE DEF w1
<1>2. w2 = Work(l, f, r.snapshot, r.segs, r.out, r.before, r.meant)
  BY ONLY <1>1 DEF Work
<1> HIDE DEF w2
<1>3. w3 = Work(l, f, r.snapshot, r.segs, r.out, b, r.meant)
  BY ONLY <1>2 DEF Work
<1> HIDE DEF w3
<1> QED
  BY ONLY <1>0, <1>3

\* A merge that begins.
LEMMA Began ==
  ASSUME NEW f, NEW t, NEW w, w = Begun(M!Idle, "auto", f, t)
  PROVE  w.pc = "auto" /\ w.file = f /\ w.before = t /\ Shaped(w)
<1>1. Shaped(M!Idle)
  BY DEF M!Idle, Shaped, Work
<1>2. w = Work("auto", f, M!Idle.snapshot, M!Idle.segs, M!Idle.out, t, M!Idle.meant)
  BY <1>1, SetBefore
<1> QED
  BY ONLY <1>2 DEF Work, Shaped

\* The merge that is none.
LEMMA IdleIs == M!Idle.pc = "idle" /\ Shaped(M!Idle)
BY DEF M!Idle, Shaped, Work

-----------------------------------------------------------------------------
(* The merge by hand, a lemma per step.                                    *)

\* MergeHighlighted: a merge begins.
LEMMA HighlightedStep ==
  ASSUME MergesInv, NEW m \in Mergers, M!MergeHighlighted(m)
  PROVE  MergesInv'
<1>1. PICK f \in dialog.rows :
        /\ merger' = [merger EXCEPT ![m] = [M!Idle EXCEPT !.pc = "auto", !.file = f, !.before = text[f]]]
        /\ told' = [told EXCEPT ![f] = Nothing]
        /\ disturbed' = IF M!MergedNow(f) THEN disturbed \cup {f} ELSE disturbed
  BY DEF M!MergeHighlighted
<1>w. PICK w : w = Begun(M!Idle, "auto", f, text[f])
  OBVIOUS
<1>2. f \in Files /\ merger[m].pc = "idle"
  BY DEF M!MergeHighlighted, M!Idle, MergesInv, M!TypeOK
<1>3. /\ w.pc = "auto" /\ w.file = f /\ w.before = text[f]
      /\ Shaped(w)
  BY <1>w, Began
<1>4. merger' = [merger EXCEPT ![m] = w]
  BY ONLY <1>1, <1>w DEF Begun
<1>5. /\ UNCHANGED <<opened, queued, chunks, due, text, asked>> /\ dialog' = M!Closed
  BY ONLY M!MergeHighlighted(m), Zenon DEF M!MergeHighlighted, M!resolves
<1>6. merger'[m] = w /\ told'[f] = Nothing /\ \A g \in Files \ {f} : told'[g] = told[g]
  BY <1>1, <1>2, <1>4 DEF MergesInv, ShapeInv
<1>7. StepsTo(m, f, w)
  BY <1>1, <1>2, <1>3, <1>4, <1>5, <1>6 DEF StepsTo
<1>8. ASSUME f \notin disturbed' PROVE Leaves(m, f, w)
  <2>1. f \notin disturbed /\ ~M!MergedNow(f)
    BY <1>1, <1>8
  <2>2. FileInv(f)
    BY <1>2, <2>1 DEF MergesInv, FilesInv
  <2>3. ~M!HasMarkers(text[f]) /\ \A n \in Mergers : ~M!Under(n, f)
    BY <2>1, <2>2 DEF FileInv, MarkedUnder, M!MergedNow
  <2>4. Stage(merger[m], f)'
    BY <1>3, <1>5, <1>6, <2>3 DEF Stage
  <2> QED BY <1>3, <1>5, <1>6, <2>3, <2>4 DEF Leaves
<1>9. FilesInv'
  BY <1>2, <1>7, <1>8, MergeStep
<1>10. \A n \in Mergers : merger'[n] = IF n = m THEN w ELSE merger[n]
  BY <1>4 DEF MergesInv, ShapeInv
<1>11. M!TypeOK'
  BY <1>1, <1>2, <1>3, <1>5, <1>10 DEF MergesInv, M!TypeOK, M!Scheduled, M!Closed
<1>12. ShapeInv'
  <2>1. told' = [g \in Files |-> told'[g]]
    BY ONLY <1>1, MergesInv DEF MergesInv, ShapeInv
  <2>2. merger' = [n \in Mergers |-> merger'[n]] /\ \A n \in Mergers : Shaped(merger[n])'
    BY ONLY <1>3, <1>4, <1>10, m \in Mergers, MergesInv DEF MergesInv, ShapeInv, Shaped
  <2>3. dialog' = [pc |-> dialog'.pc, scope |-> dialog'.scope, force |-> dialog'.force,
                   submit |-> dialog'.submit, rows |-> dialog'.rows]
    BY ONLY <1>5 DEF M!Closed
  <2>4. text' = [g \in Files |-> text'[g]]
    BY ONLY <1>5, MergesInv DEF MergesInv, ShapeInv
  <2> QED BY ONLY <2>1, <2>2, <2>3, <2>4 DEF ShapeInv
<1> QED
  BY <1>9, <1>11, <1>12 DEF MergesInv

\* A step of the merge m that goes on to w and changes no file.
LEMMA QuietStep ==
  ASSUME MergesInv, NEW m \in Mergers, merger[m].pc # "idle", NEW w, NEW f, f = merger[m].file,
         merger' = [merger EXCEPT ![m] = w],
         UNCHANGED <<opened, queued, chunks, due, text, told, dialog, asked>>,
         disturbed' = disturbed \/ disturbed' = disturbed \cup {f},
         w = M!Idle \/ w.file = f,
         Shaped(w),
         f \notin disturbed' =>
           /\ w.pc # "idle" => Stage(w, f)
           /\ M!HasMarkers(text[f]) => w.pc \in {"read", "edit", "write"}
  PROVE  MergesInv'
<1>1. f \in Files /\ M!Under(m, f)
  BY AtStage
<1>2. merger'[m] = w
  BY DEF MergesInv, ShapeInv
<1>3. StepsTo(m, f, w)
  BY <1>1 DEF StepsTo, M!Idle
<1>4. ASSUME f \notin disturbed' PROVE Leaves(m, f, w)
  <2>1. told[f] = Nothing /\ \A n \in Mergers : M!Under(n, f) => n = m
    BY <1>4, AtStage
  <2>2. Stage(w, f) => Stage(merger[m], f)'
    BY <1>2 DEF Stage
  <2> QED BY <1>4, <2>1, <2>2 DEF Leaves
<1>5. FilesInv'
  BY <1>1, <1>3, <1>4, MergeStep
<1>6. M!TypeOK' /\ ShapeInv'
  <2>1. disturbed' \subseteq Files /\ text' = [g \in Files |-> text'[g]] /\ told' = [g \in Files |-> told'[g]]
    BY <1>1 DEF MergesInv, M!TypeOK, ShapeInv
  <2>2. w = M!Idle \/ w.file \in Files
    BY <1>1
  <2> QED BY <2>1, <2>2, MergeTypes
<1> QED
  BY <1>5, <1>6 DEF MergesInv

\* MergeAuto: what merges cleanly is accepted.
LEMMA AutoStep ==
  ASSUME MergesInv, NEW m \in Mergers, M!MergeAuto(m)
  PROVE  MergesInv'
<1>f. PICK f : f = merger[m].file
  OBVIOUS
<1>w. PICK w : w = Work("check", f, merger[m].snapshot, merger[m].segs, merger[m].out,
                        merger[m].before, merger[m].meant)
  OBVIOUS
<1>1. merger[m].pc = "auto"
  BY DEF M!MergeAuto, M!AtMerge
<1>2. /\ f \in Files /\ M!Under(m, f)
      /\ f \notin disturbed =>
           /\ Stage(merger[m], f) /\ told[f] = Nothing /\ ~M!HasMarkers(text[f])
           /\ \A n \in Mergers : M!Under(n, f) => n = m
  BY <1>1, <1>f, AtStage
<1>3. merger' = [merger EXCEPT ![m] = w]
  <2>1. merger' = [merger EXCEPT ![m] = [merger[m] EXCEPT !.pc = "check"]]
    BY DEF M!MergeAuto, M!Goes
  <2>2. Shaped(merger[m])
    BY DEF MergesInv, ShapeInv
  <2>3. [merger[m] EXCEPT !.pc = "check"] = w
    BY ONLY <1>f, <1>w, <2>2, SetPc
  <2> QED BY ONLY <2>1, <2>3
<1>4. w.pc = "check" /\ w.file = f /\ w.before = merger[m].before /\ Shaped(w)
  BY ONLY <1>w DEF Work, Shaped
<1>5. UNCHANGED <<opened, queued, chunks, told, disturbed, dialog, asked>>
  BY DEF M!MergeAuto
<1>6. \/ M!Accepted({f} \cap due \cap opened, "auto")
      \/ UNCHANGED <<due, text>>
  BY <1>f DEF M!MergeAuto
<1>7. /\ due' \subseteq due /\ text' = [g \in Files |-> text'[g]]
      /\ \A g \in Files \ {f} : text'[g] = text[g] /\ (g \in due' <=> g \in due)
      /\ \/ text'[f] = text[f] /\ (f \in due' => f \in due)
         \/ ~M!HasMarkers(text'[f]) /\ f \notin due'
  <2>1. CASE M!Accepted({f} \cap due \cap opened, "auto")
    <3>0. PICK accepted : accepted = {f} \cap due \cap opened
      OBVIOUS
    <3>1. accepted \subseteq Files /\ accepted \subseteq M!Scheduled /\ accepted \subseteq {f}
      BY <1>2, <3>0 DEF MergesInv, M!TypeOK
    <3>2. Accepts(accepted)
      BY <2>1, <3>0, <3>1, AcceptedText
    <3> QED BY ONLY <1>2, <3>1, <3>2 DEF Accepts
  <2>2. CASE UNCHANGED <<due, text>>
    BY <2>2 DEF MergesInv, ShapeInv
  <2> QED BY <1>6, <2>1, <2>2
<1>8. merger'[m] = w
  BY <1>3 DEF MergesInv, ShapeInv
<1>9. StepsTo(m, f, w)
  BY ONLY <1>2, <1>3, <1>4, <1>5, <1>7 DEF StepsTo
<1>10. ASSUME f \notin disturbed' PROVE Leaves(m, f, w)
  <2>1. ~M!HasMarkers(w.before) /\ w.before = text[f]
    BY ONLY <1>1, <1>2, <1>4, <1>5, <1>10 DEF Stage
  <2>2. f \in due' => text'[f] = text[f]
    BY ONLY <1>7
  <2>3. Stage(merger[m], f)'
    BY ONLY <1>4, <1>8, <2>1, <2>2 DEF Stage
  <2> QED BY ONLY <1>2, <1>4, <1>5, <1>7, <1>10, <2>3 DEF Leaves
<1>11. FilesInv'
  BY ONLY MergesInv, m \in Mergers, <1>2, <1>9, <1>10, MergeStep
<1>12. M!TypeOK' /\ ShapeInv'
  <2>1. told' = [g \in Files |-> told'[g]] /\ disturbed' \subseteq Files
    BY <1>5 DEF MergesInv, ShapeInv, M!TypeOK
  <2> QED BY ONLY MergesInv, m \in Mergers, <1>2, <1>3, <1>4, <1>5, <1>7, <2>1, MergeTypes
<1> QED
  BY <1>11, <1>12 DEF MergesInv

\* MergeCheck: the merge ends if nothing is due.
LEMMA CheckStep ==
  ASSUME MergesInv, NEW m \in Mergers, M!MergeCheck(m)
  PROVE  MergesInv'
<1>f. PICK f : f = merger[m].file
  OBVIOUS
<1>1. merger[m].pc = "check"
  BY DEF M!MergeCheck, M!AtMerge
<1>2. f \in Files /\ (f \notin disturbed => Stage(merger[m], f) /\ ~M!HasMarkers(text[f]))
  BY <1>1, <1>f, AtStage
<1>3. UNCHANGED <<opened, queued, chunks, due, text, told, disturbed, dialog, asked>>
  BY ONLY M!MergeCheck(m), Zenon DEF M!MergeCheck, M!resolves
<1>4. CASE M!Goes(m, M!Idle)
  BY <1>f, <1>1, <1>2, <1>3, <1>4, QuietStep, IdleIs DEF M!Goes
<1>5. CASE f \in due /\ M!Goes(m, [merger[m] EXCEPT !.pc = "snapshot"])
  <2>w. PICK w : w = Work("snapshot", f, merger[m].snapshot, merger[m].segs, merger[m].out,
                          merger[m].before, merger[m].meant)
    OBVIOUS
  <2>1. Shaped(merger[m])
    BY DEF MergesInv, ShapeInv
  <2>2. [merger[m] EXCEPT !.pc = "snapshot"] = w
    BY ONLY <1>f, <2>w, <2>1, SetPc
  <2>3. merger' = [merger EXCEPT ![m] = w]
    BY ONLY <1>5, <2>2 DEF M!Goes
  <2>4. w.pc = "snapshot" /\ w.file = f /\ w.before = merger[m].before /\ Shaped(w)
    BY ONLY <2>w DEF Work, Shaped
  <2>5. f \notin disturbed => Stage(w, f) /\ ~M!HasMarkers(text[f])
    BY ONLY <1>1, <1>2, <1>5, <2>4 DEF Stage
  <2> QED BY <1>f, <1>1, <1>3, <2>3, <2>4, <2>5, QuietStep
<1> QED
  BY <1>f, <1>4, <1>5 DEF M!MergeCheck

\* MergeSnapshot: the text before the markers is kept.
LEMMA SnapshotStep ==
  ASSUME MergesInv, NEW m \in Mergers, M!MergeSnapshot(m)
  PROVE  MergesInv'
<1>f. PICK f : f = merger[m].file
  OBVIOUS
<1>1. merger[m].pc = "snapshot"
  BY DEF M!MergeSnapshot, M!AtMerge
<1>2. f \in Files /\ (f \notin disturbed => Stage(merger[m], f) /\ ~M!HasMarkers(text[f]))
  BY <1>f, <1>1, AtStage
<1>3. UNCHANGED <<opened, queued, chunks, due, text, told, disturbed, dialog, asked>>
  BY ONLY M!MergeSnapshot(m), Zenon DEF M!MergeSnapshot, M!resolves
<1>4. CASE M!Goes(m, M!Idle)
  BY <1>f, <1>1, <1>2, <1>3, <1>4, QuietStep, IdleIs DEF M!Goes
<1>5. CASE M!Goes(m, [merger[m] EXCEPT !.pc = "force", !.snapshot = text[merger[m].file]])
  <2>w. PICK w : w = Work("force", f, text[f], merger[m].segs, merger[m].out,
                          merger[m].before, merger[m].meant)
    OBVIOUS
  <2>1. Shaped(merger[m])
    BY DEF MergesInv, ShapeInv
  <2>2. [merger[m] EXCEPT !.pc = "force", !.snapshot = text[merger[m].file]] = w
    BY ONLY <1>f, <2>w, <2>1, SetSnapshot
  <2>3. merger' = [merger EXCEPT ![m] = w]
    BY ONLY <1>5, <2>2 DEF M!Goes
  <2>4. w.pc = "force" /\ w.file = f /\ w.before = merger[m].before /\ w.snapshot = text[f] /\ Shaped(w)
    BY ONLY <2>w DEF Work, Shaped
  <2>5. f \notin disturbed => Stage(w, f) /\ ~M!HasMarkers(text[f])
    BY ONLY <1>1, <1>2, <2>4 DEF Stage
  <2> QED BY <1>f, <1>1, <1>3, <2>3, <2>4, <2>5, QuietStep
<1> QED
  BY <1>4, <1>5 DEF M!MergeSnapshot

\* MergeForce: the markers are written.
LEMMA ForceStep ==
  ASSUME MergesInv, NEW m \in Mergers, M!MergeForce(m)
  PROVE  MergesInv'
<1>f. PICK f : f = merger[m].file
  OBVIOUS
<1>1. merger[m].pc = "force"
  BY DEF M!MergeForce, M!AtMerge
<1>2. /\ f \in Files /\ M!Under(m, f)
      /\ f \notin disturbed =>
           /\ Stage(merger[m], f) /\ told[f] = Nothing /\ ~M!HasMarkers(text[f])
           /\ \A n \in Mergers : M!Under(n, f) => n = m
  BY <1>f, <1>1, AtStage
<1>3. UNCHANGED <<opened, queued, chunks, told, disturbed, dialog, asked>>
  BY ONLY M!MergeForce(m), Zenon DEF M!MergeForce
<1>4. CASE M!Goes(m, M!Idle) /\ UNCHANGED <<due, text>>
  BY <1>f, <1>1, <1>2, <1>3, <1>4, QuietStep, IdleIs DEF M!Goes
<1>5. CASE /\ due' = due \ {f}
           /\ text' = [text EXCEPT ![f] = IF f \in due THEN M!Markers[chunks[f]] ELSE @]
           /\ M!Goes(m, [merger[m] EXCEPT !.pc = "read"])
  <2>w. PICK w : w = Work("read", f, merger[m].snapshot, merger[m].segs, merger[m].out,
                          merger[m].before, merger[m].meant)
    OBVIOUS
  <2>1. Shaped(merger[m])
    BY DEF MergesInv, ShapeInv
  <2>2. [merger[m] EXCEPT !.pc = "read"] = w
    BY ONLY <1>f, <2>w, <2>1, SetPc
  <2>3. merger' = [merger EXCEPT ![m] = w]
    BY ONLY <1>5, <2>2 DEF M!Goes
  <2>4. /\ w.pc = "read" /\ w.file = f /\ w.before = merger[m].before
        /\ w.snapshot = merger[m].snapshot /\ Shaped(w)
    BY ONLY <2>w DEF Work, Shaped
  <2>5. /\ text' = [g \in Files |-> text'[g]] /\ \A g \in Files \ {f} : text'[g] = text[g]
        /\ text'[f] = IF f \in due THEN M!Markers[chunks[f]] ELSE text[f]
    BY <1>2, <1>5 DEF MergesInv, ShapeInv
  <2>6. merger'[m] = w
    BY <2>3 DEF MergesInv, ShapeInv
  <2>7. StepsTo(m, f, w)
    BY ONLY <1>2, <1>3, <1>5, <2>3, <2>4, <2>5 DEF StepsTo
  <2>8. ASSUME f \notin disturbed' PROVE Leaves(m, f, w)
    <3>1. f \in due /\ ~M!HasMarkers(w.before) /\ w.snapshot = w.before
      BY ONLY <1>1, <1>2, <1>3, <2>4, <2>8 DEF Stage
    <3>2. chunks[f] \in Cases
      BY <1>2, <3>1 DEF MergesInv, M!TypeOK, M!Scheduled
    <3>3. text'[f] = M!Markers[chunks'[f]] /\ f \notin due' /\ chunks'[f] \in Cases
      BY ONLY <1>3, <1>5, <2>5, <3>1, <3>2
    <3>4. Stage(merger[m], f)'
      BY ONLY <2>4, <2>6, <3>1, <3>3 DEF Stage
    <3> QED BY ONLY <1>2, <1>3, <2>4, <2>8, <3>4 DEF Leaves
  <2>9. FilesInv'
    BY ONLY MergesInv, m \in Mergers, <1>2, <2>7, <2>8, MergeStep
  <2>10. M!TypeOK' /\ ShapeInv'
    <3>1. told' = [g \in Files |-> told'[g]] /\ disturbed' \subseteq Files /\ due' \subseteq due
      BY <1>3, <1>5 DEF MergesInv, ShapeInv, M!TypeOK
    <3> QED BY ONLY MergesInv, m \in Mergers, <1>2, <1>3, <2>3, <2>4, <2>5, <3>1, MergeTypes
  <2> QED BY <2>9, <2>10 DEF MergesInv
<1> QED
  BY <1>f, <1>4, <1>5 DEF M!MergeForce

\* What Restores makes of a merge.
LEMMA RestoredIs ==
  ASSUME MergesInv, NEW m \in Mergers, NEW w, w = M!Restores(merger[m])
  PROVE  /\ w.pc = "write" /\ w.file = merger[m].file /\ w.before = merger[m].before
         /\ w.out = merger[m].snapshot /\ w.meant = merger[m].before /\ Shaped(w)
<1> DEFINE nil == <<>>
           r == merger[m]
<1>1. Shaped(r)
  BY DEF MergesInv, ShapeInv
<1>2. w = Written(r, "write", nil, r.snapshot, r.before)
  BY DEF M!Restores, Written
<1> HIDE DEF nil, r
<1>4. w = Work("write", r.file, r.snapshot, nil, r.snapshot, r.before, r.before)
  BY ONLY <1>1, <1>2, SetOut
<1> QED
  BY ONLY <1>4 DEF Work, Shaped, r

\* MergeRead: the text with the markers is parsed.
LEMMA ReadStep ==
  ASSUME MergesInv, NEW m \in Mergers, M!MergeRead(m)
  PROVE  MergesInv'
<1>f. PICK f : f = merger[m].file
  OBVIOUS
<1>1. merger[m].pc = "read"
  BY DEF M!MergeRead, M!AtMerge
<1>2. f \in Files /\ (f \notin disturbed => Stage(merger[m], f))
  BY <1>f, <1>1, AtStage
<1>3. UNCHANGED <<opened, queued, chunks, due, text, told, dialog, asked>>
  BY ONLY M!MergeRead(m), Zenon DEF M!MergeRead, M!resolves
<1>s. PICK segs : segs = M!Parse(text[f])
  OBVIOUS
<1>4. CASE M!Goes(m, M!Idle) /\ disturbed' = disturbed \cup {f}
  BY <1>f, <1>1, <1>2, <1>3, <1>4, QuietStep, IdleIs DEF M!Goes
<1>5. CASE M!Goes(m, [merger[m] EXCEPT !.pc = "edit", !.segs = segs]) /\ disturbed' = disturbed
  <2>w. PICK w : w = Work("edit", f, merger[m].snapshot, segs, merger[m].out,
                          merger[m].before, merger[m].meant)
    OBVIOUS
  <2>1. Shaped(merger[m])
    BY DEF MergesInv, ShapeInv
  <2>2. [merger[m] EXCEPT !.pc = "edit", !.segs = segs] = w
    BY ONLY <1>f, <2>w, <2>1, SetSegs
  <2>3. merger' = [merger EXCEPT ![m] = w]
    BY ONLY <1>5, <2>2 DEF M!Goes
  <2>4. /\ w.pc = "edit" /\ w.file = f /\ w.before = merger[m].before
        /\ w.snapshot = merger[m].snapshot /\ w.segs = segs /\ Shaped(w)
    BY ONLY <2>w DEF Work, Shaped
  <2>5. f \notin disturbed => Stage(w, f)
    BY ONLY <1>1, <1>2, <1>s, <2>4 DEF Stage
  <2> QED BY <1>f, <1>1, <1>3, <1>5, <2>3, <2>4, <2>5, QuietStep
<1>6. CASE M!Goes(m, M!Restores(merger[m])) /\ disturbed' = disturbed
  <2>w. PICK w : w = M!Restores(merger[m])
    OBVIOUS
  <2>3. merger' = [merger EXCEPT ![m] = w]
    BY ONLY <1>6, <2>w DEF M!Goes
  <2>4. /\ w.pc = "write" /\ w.file = f /\ w.before = merger[m].before
        /\ w.out = merger[m].snapshot /\ w.meant = merger[m].before /\ Shaped(w)
    BY <1>f, <2>w, RestoredIs
  <2>5. f \notin disturbed => Stage(w, f)
    BY ONLY <1>1, <1>2, <2>4 DEF Stage
  <2> QED BY <1>f, <1>1, <1>3, <1>6, <2>3, <2>4, <2>5, QuietStep
<1>7. \/ M!Goes(m, M!Idle) /\ disturbed' = disturbed \cup {f}
      \/ M!Goes(m, [merger[m] EXCEPT !.pc = "edit", !.segs = segs]) /\ disturbed' = disturbed
      \/ M!Goes(m, M!Restores(merger[m])) /\ disturbed' = disturbed
  BY ONLY <1>f, <1>s, M!MergeRead(m), Zenon DEF M!MergeRead
<1> QED
  BY ONLY <1>4, <1>5, <1>6, <1>7

\* MergeClosed: the round trip says what is to be written.
LEMMA ClosedStep ==
  ASSUME MergesInv, NEW m \in Mergers, M!MergeClosed(m)
  PROVE  MergesInv'
<1>f. PICK f : f = merger[m].file
  OBVIOUS
<1>1. merger[m].pc = "edit"
  BY DEF M!MergeClosed, M!AtMerge
<1>2. f \in Files /\ (f \notin disturbed => Stage(merger[m], f))
  BY <1>f, <1>1, AtStage
<1>3. UNCHANGED <<opened, queued, chunks, due, text, told, disturbed, dialog, asked>>
  BY ONLY M!MergeClosed(m), Zenon DEF M!MergeClosed, M!resolves
<1>4. CASE M!Goes(m, M!Restores(merger[m]))
  <2>w. PICK w : w = M!Restores(merger[m])
    OBVIOUS
  <2>3. merger' = [merger EXCEPT ![m] = w]
    BY ONLY <1>4, <2>w DEF M!Goes
  <2>4. /\ w.pc = "write" /\ w.file = f /\ w.before = merger[m].before
        /\ w.out = merger[m].snapshot /\ w.meant = merger[m].before /\ Shaped(w)
    BY <1>f, <2>w, RestoredIs
  <2>5. f \notin disturbed => Stage(w, f)
    BY ONLY <1>1, <1>2, <2>4 DEF Stage
  <2> QED BY <1>f, <1>1, <1>3, <2>3, <2>4, <2>5, QuietStep
<1>5. ASSUME NEW choices, choices \in M!EditorChoices(merger[m].segs), NEW nil, NEW out, NEW meant,
             out = M!Reconstruct(merger[m].segs, choices), meant = M!Merged(chunks[f], choices),
             M!Goes(m, Written(merger[m], "write", nil, out, meant))
      PROVE  MergesInv'
  <2>w. PICK w : w = Work("write", f, merger[m].snapshot, nil, out, merger[m].before, meant)
    OBVIOUS
  <2>1. Shaped(merger[m])
    BY DEF MergesInv, ShapeInv
  <2>2. Written(merger[m], "write", nil, out, meant) = w
    BY ONLY <1>f, <2>w, <2>1, SetOut
  <2>3. merger' = [merger EXCEPT ![m] = w]
    BY ONLY <1>5, <2>2 DEF M!Goes
  <2>4. /\ w.pc = "write" /\ w.file = f /\ w.before = merger[m].before
        /\ w.out = out /\ w.meant = meant /\ Shaped(w)
    BY ONLY <2>w DEF Work, Shaped
  <2>5. ASSUME f \notin disturbed PROVE Stage(w, f)
    <3>1. /\ ~M!HasMarkers(merger[m].before) /\ f \notin due /\ chunks[f] \in Cases
          /\ merger[m].segs = M!Parse(M!Markers[chunks[f]])
      BY ONLY <1>1, <1>2, <2>5 DEF Stage
    <3>2. out = meant /\ ~M!HasMarkers(out)
      BY ONLY <1>5, <3>1, ApplyTexts
    <3> QED BY ONLY <2>4, <3>1, <3>2 DEF Stage
  <2> QED BY <1>f, <1>1, <1>3, <2>3, <2>4, <2>5, QuietStep
<1>6. \/ M!Goes(m, M!Restores(merger[m]))
      \/ \E choices \in M!EditorChoices(merger[m].segs) :
           M!Goes(m, Written(merger[m], "write", <<>>, M!Reconstruct(merger[m].segs, choices),
                             M!Merged(chunks[f], choices)))
  BY ONLY <1>f, M!MergeClosed(m), Zenon DEF M!MergeClosed, Written
<1> QED
  BY ONLY <1>4, <1>5, <1>6, Zenon

\* MergeWrite: what is written is what was meant.
LEMMA WriteStep ==
  ASSUME MergesInv, NEW m \in Mergers, M!MergeWrite(m)
  PROVE  MergesInv'
<1>f. PICK f : f = merger[m].file
  OBVIOUS
<1>1. merger[m].pc = "write"
  BY DEF M!MergeWrite, M!AtMerge
<1>2. /\ f \in Files /\ M!Under(m, f)
      /\ f \notin disturbed =>
           /\ Stage(merger[m], f) /\ \A n \in Mergers : M!Under(n, f) => n = m
  BY <1>f, <1>1, AtStage
<1>3. UNCHANGED <<opened, queued, chunks, due, dialog, asked>> /\ M!Goes(m, M!Idle)
  BY ONLY M!MergeWrite(m), Zenon DEF M!MergeWrite
<1>4. CASE disturbed' = disturbed \cup {f} /\ UNCHANGED <<text, told>>
  BY <1>f, <1>1, <1>2, <1>3, <1>4, QuietStep, IdleIs DEF M!Goes
<1>5. CASE /\ text' = [text EXCEPT ![f] = merger[m].out]
           /\ told' = [told EXCEPT ![f] = merger[m].meant]
           /\ disturbed' = disturbed
  <2>w. PICK w : w = M!Idle
    OBVIOUS
  <2>1. merger' = [merger EXCEPT ![m] = w] /\ w.pc = "idle" /\ Shaped(w)
    BY ONLY <1>3, <2>w, IdleIs DEF M!Goes
  <2>2. /\ text' = [g \in Files |-> text'[g]] /\ \A g \in Files \ {f} : text'[g] = text[g]
        /\ text'[f] = merger[m].out
    BY <1>2, <1>5 DEF MergesInv, ShapeInv
  <2>3. /\ told' = [g \in Files |-> told'[g]] /\ \A g \in Files \ {f} : told'[g] = told[g]
        /\ told'[f] = merger[m].meant
    BY <1>2, <1>5 DEF MergesInv, ShapeInv
  <2>4. StepsTo(m, f, w)
    BY ONLY <1>2, <1>3, <1>5, <2>1, <2>2, <2>3 DEF StepsTo
  <2>5. ASSUME f \notin disturbed' PROVE Leaves(m, f, w)
    <3>1. /\ f \notin due /\ chunks[f] \in Cases /\ merger[m].out = merger[m].meant
          /\ ~M!HasMarkers(merger[m].out)
      BY ONLY <1>1, <1>2, <1>5, <2>5 DEF Stage
    <3>2. chunks[f] # <<>>
      BY ONLY <3>1, CaseTypes
    <3> QED BY ONLY <1>2, <1>3, <1>5, <2>1, <2>2, <2>3, <2>5, <3>1, <3>2 DEF Leaves
  <2>6. FilesInv'
    BY ONLY MergesInv, m \in Mergers, <1>2, <2>4, <2>5, MergeStep
  <2>7. M!TypeOK' /\ ShapeInv'
    <3>1. disturbed' \subseteq Files /\ due' \subseteq due
      BY <1>3, <1>5 DEF MergesInv, M!TypeOK
    <3> QED BY ONLY MergesInv, m \in Mergers, <1>3, <2>w, <2>1, <2>2, <2>3, <3>1, MergeTypes
  <2> QED BY <2>6, <2>7 DEF MergesInv
<1> QED
  BY <1>f, <1>4, <1>5 DEF M!MergeWrite

-----------------------------------------------------------------------------
(* The theorems about the merges.                                          *)

\* The invariant holds at the beginning ...
LEMMA MergesInit == ASSUME M!Init PROVE MergesInv
<1>1. \A m \in Mergers : ~M!Under(m, Nothing) /\ merger[m] = M!Idle
  BY IdleIs DEF M!Init, M!Under
<1>2. M!TypeOK
  <2>1. asked \in 0..MaxAsked
    BY MergesAssumption DEF M!Init, M!MergesAssumption
  <2>2. dialog.pc \in {"closed", "listing", "open"} /\ dialog.rows \subseteq Files
    BY DEF M!Init, M!Closed
  <2>3. /\ opened \subseteq Files /\ due \subseteq opened \cap M!Scheduled /\ queued \in BOOLEAN
        /\ chunks \in [Files -> Cases \cup {<<>>}] /\ disturbed \subseteq Files
    BY DEF M!Init
  <2> QED BY ONLY <1>1, <2>1, <2>2, <2>3 DEF M!TypeOK
<1>3. ShapeInv
  BY <1>1, IdleIs DEF M!Init, ShapeInv, M!Closed
<1>4. ASSUME NEW f \in Files PROVE FileInv(f)
  <2>1. \A m \in Mergers : ~M!Under(m, f)
    BY <1>1, IdleIs DEF M!Under
  <2>2. told[f] = Nothing /\ ~M!HasMarkers(text[f])
    BY EmptyText DEF M!Init
  <2> QED BY ONLY <2>1, <2>2 DEF FileInv, Alone, ToldStands, Staged, MarkedUnder
<1> QED
  BY <1>2, <1>3, <1>4 DEF MergesInv, FilesInv

\* ... every step preserves it ...
LEMMA MergesNext == ASSUME MergesInv, [M!Next]_(M!vars) PROVE MergesInv'
<1>1. ASSUME NEW f \in Files, M!Integrate(f) \/ M!Revert(f) PROVE MergesInv'
  BY <1>1, IntegrateStep, RevertStep
<1>2. CASE M!RunSubmit
  BY <1>2, RunSubmitStep
<1>3. CASE M!AskResolve \/ M!PromptResolve \/ M!ListUnresolved \/ M!RefreshDialog
  BY <1>3, DialogStep
<1>4. CASE M!RunChoices
  BY <1>4, RunChoicesStep
<1>5. CASE M!RunBucket
  BY <1>5, RunBucketStep
<1>6. CASE M!CloseDialog
  BY <1>6, CloseDialogStep
<1>7. ASSUME NEW m \in Mergers, M!Merger(m) PROVE MergesInv'
  BY <1>7, HighlightedStep, AutoStep, CheckStep, SnapshotStep, ForceStep, ReadStep, ClosedStep,
     WriteStep DEF M!Merger
<1>8. CASE UNCHANGED M!vars
  <2>1. UNCHANGED <<opened, queued, chunks, due, text, merger, told, disturbed, dialog, asked>>
    BY ONLY <1>8, Zenon DEF M!vars, M!resolves, M!merging
  <2>2. FilesInv'
    BY <2>1, FilesSame DEF MergesInv
  <2> QED BY <2>1, <2>2 DEF MergesInv, M!TypeOK, ShapeInv, M!Scheduled
<1> QED
  BY <1>1, <1>2, <1>3, <1>4, <1>5, <1>6, <1>7, <1>8 DEF M!Next

\* ... and so it always holds.
LEMMA MergesInvariance == M!Spec => []MergesInv
BY MergesInit, MergesNext, PTL DEF M!Spec

\* The state of the merges is well-typed: what is to be resolved is opened and has a merge
\* (resolve_modal.py, _run_resolve_choices of app.py).
THEOREM MergesTypeCorrect == M!Spec => []M!TypeOK
BY MergesInvariance, PTL DEF MergesInv

\* Conflict markers stay in a file only while a merge of it by hand is under way, for every
\* set of files, merges and workers (_run_3way_merge, _cancel_merge of app.py).
THEOREM MarkersTemporary == M!Spec => []MarkersAreTemporary
<1>1. MergesInv => MarkersAreTemporary
  BY DEF MergesInv, FilesInv, FileInv, MarkedUnder, MarkersAreTemporary, M!MarkersAreTemporary
<1> QED
  BY <1>1, MergesInvariance, PTL

\* What a merge by hand left in a file is what was chosen for each of its conflicts, or the
\* text before a merge that was cancelled (_write_and_accept_merge of app.py, merge3.py).
THEOREM MergeChosen == M!Spec => []MergeIsWhatWasChosen
<1>1. MergesInv => MergeIsWhatWasChosen
  BY DEF MergesInv, FilesInv, FileInv, ToldStands, MergeIsWhatWasChosen, M!MergeIsWhatWasChosen
<1> QED
  BY <1>1, MergesInvariance, PTL
==============================================================================
