------------------------------ MODULE SearchProofs ------------------------------
(***************************************************************************)
(* Proofs about Fast Search.                                               *)
(*                                                                         *)
(* SearchIndex, for every set of files, every page size and every number of    *)
(* jobs and changes.  What has been made right of a file stays right until     *)
(* the file changes again (Right), whoever writes rows: a row that a job still *)
(* has to write is wrong only for a file that changed after every cursor there *)
(* is was taken (Newer).  So each cursor, of the index, of the state file and  *)
(* of each job, has passed only files that are right or in the hands of the    *)
(* job (Passed, Known).                                                     *)
(*                                                                         *)
(* SearchQueries, for every index, all words and limits.  What is listed are    *)
(* the best of what matches (Best, Finds): where the order is strict each row   *)
(* has a place of its own, the number of those before it (Above).             *)
(*                                                                         *)
(* SearchDialog, for every query, every answer and every cap.  Once the timer  *)
(* has fired the query of the input is under way with the cap of now, or its    *)
(* whole answer is listed (Followed); that needs each worker to have what its    *)
(* own query finds (GrepOK, AnswerOK) and no two to ask the same (Single).       *)
(* The last event that waits is of a row of the list; when none waits, the pane *)
(* has the row of the cursor or its fetch is under way (Previewed).            *)
(***************************************************************************)
EXTENDS MCSearch, SequenceTheorems, FunctionTheorems, FiniteSetTheorems, TLAPS

\* The row of f is as it should be, or is known not to be.
Right(f) ==
  IF f \in live THEN f \in rows \/ gap[f] # "none" ELSE f \in rows => gap[f] # "none"

\* f changed after all the cursors.
Newer(f) ==
  /\ last < changed[f]
  /\ \A k \in Jobs : job[k].since < changed[f] /\ job[k].target < changed[f]
  /\ saved # NoState => saved.start < changed[f]

\* What the cursor n has passed is right, but for live files of the subdirectories
\* that are still to be listed.
Behind(f, n, ds) == 0 < changed[f] /\ changed[f] <= n /\ (f \in live => Dir[f] \notin ds)
Passed(n, ds)    == \A f \in Indexed : Behind(f, n, ds) => Right(f)

\* The same, with the rows that the job j has not written yet.
Known(j, n, ds) ==
  \A f \in Indexed : Behind(f, n, ds) => f \in job[j].got \cup job[j].gone \/ Right(f)

Ahead(j) == IF job[j].pc = "listed" THEN I!Left(j) ELSE job[j].todo

BuildOK(j) ==
  /\ job[j].kind = "build" /\ job[j].pc \in {"ready", "listed"} =>
       job[j].gone = {} /\ Known(j, job[j].since, Ahead(j))
  /\ job[j].pc = "dirs" => job[j].kind = "build"

\* The changes up to its target are what an update has found once it has listed a page.
UpdateOK(j) ==
  job[j].kind = "update" /\ job[j].pc \in {"ready", "listed"} =>
    /\ Known(j, job[j].since, {})
    /\ job[j].pc = "listed" => job[j].pages > 0
    /\ job[j].pc = "listed" \/ (job[j].pages = 0 /\ job[j].target > job[j].since) =>
         Known(j, job[j].target, {})

\* The rows to be written were right when they were listed.
HandsOK(j) ==
  IF job[j].pc = "listed"
  THEN \A f \in (job[j].got \ live) \cup (job[j].gone \cap live) : Newer(f)
  ELSE job[j].got = {} /\ job[j].gone = {}

JobOK(j) == BuildOK(j) /\ UpdateOK(j) /\ HandsOK(j)

CursorsInv ==
  /\ last <= counter /\ \A f \in Indexed : changed[f] <= counter
  /\ \A k \in Jobs : job[k].since <= counter /\ job[k].target <= counter
  /\ saved # NoState => saved.start <= counter

SavedInv == saved # NoState => Passed(saved.start, saved.pending)

IndexInv ==
  /\ I!TypeOK /\ CursorsInv /\ Passed(last, {}) /\ SavedInv
  /\ \A j \in Jobs : JobOK(j)

-----------------------------------------------------------------------------
(* The steps of a job.                                                     *)

USE SearchAssumption DEF I!SearchIndexAssumption, I!At, I!Goto, I!server, I!table, I!Busy, I!Resting

State == [pending : SUBSET Subdirs, start : Nat]

\* A file that was right stays right or is newer than every cursor, so what a cursor
\* has passed stays right.
Stays == \A f \in Indexed : Right(f) => Right(f)' \/ Newer(f)

Others(j) == \A k \in Jobs \ {j} : job'[k] = job[k]
Alone(j)  == \A k \in Jobs \ {j} : job[k].pc \notin I!Busy

LEMMA PassedStays ==
  ASSUME IndexInv, UNCHANGED <<changed, live>>, Stays
  PROVE  /\ UNCHANGED last => Passed(last, {})'
         /\ UNCHANGED saved => SavedInv'
<1>1. ASSUME UNCHANGED last PROVE Passed(last, {})'
  BY <1>1 DEF IndexInv, I!TypeOK, Passed, Behind, Stays, Newer
<1>2. ASSUME UNCHANGED saved PROVE SavedInv'
  BY <1>2 DEF IndexInv, I!TypeOK, SavedInv, Passed, Behind, Stays, Newer
<1> QED
  BY <1>1, <1>2

LEMMA OtherJobs ==
  ASSUME IndexInv, NEW j \in Jobs, UNCHANGED <<changed, live>>, Stays, Others(j),
         Alone(j) \/ \A f \in Indexed : Newer(f) => Newer(f)',
         NEW k \in Jobs \ {j}
  PROVE  JobOK(k)'
<1>1. job'[k] = job[k] /\ job[k] \in I!JobState /\ JobOK(k)
  BY DEF Others, IndexInv, I!TypeOK
<1>2. BuildOK(k)'
  BY <1>1 DEF JobOK, BuildOK, Known, Ahead, I!Left, Behind, Stays, Newer, IndexInv, I!TypeOK, I!JobState
<1>3. UpdateOK(k)'
  BY <1>1 DEF JobOK, UpdateOK, Known, Behind, Stays, Newer, IndexInv, I!TypeOK, I!JobState
<1>4. HandsOK(k)'
  BY <1>1 DEF JobOK, HandsOK, Alone, I!JobState
<1> QED
  BY <1>2, <1>3, <1>4 DEF JobOK

\* It is enough to look at the job that moved and at the cursors it set.
LEMMA JobStep ==
  ASSUME IndexInv, NEW j \in Jobs, UNCHANGED <<changed, live>>, Stays, Others(j),
         Alone(j) \/ \A f \in Indexed : Newer(f) => Newer(f)',
         I!TypeOK', CursorsInv', JobOK(j)',
         UNCHANGED last \/ Passed(last, {})', UNCHANGED saved \/ SavedInv'
  PROVE  IndexInv'
<1>1. \A k \in Jobs : JobOK(k)'
  BY OtherJobs
<1>2. Passed(last, {})' /\ SavedInv'
  BY PassedStays
<1> QED
  BY <1>1, <1>2 DEF IndexInv

\* One chunk at a time.
LEMMA OneBusy ==
  ASSUME I!TypeOK, NEW j \in Jobs, I!Idle \/ job[j].pc \in I!Busy PROVE Alone(j)
BY DEF I!TypeOK, I!Idle, Alone

LEMMA TypedJob ==
  ASSUME I!TypeOK, NEW j \in Jobs, NEW v \in I!JobState, job' = [job EXCEPT ![j] = v],
         Alone(j) \/ v.pc \notin I!Busy
  PROVE  /\ job' \in [Jobs -> I!JobState] /\ Others(j) /\ job'[j] = v
         /\ \A i, k \in Jobs : job'[i].pc \in I!Busy /\ job'[k].pc \in I!Busy => i = k
BY DEF I!TypeOK, Others, Alone

LEMMA Quiet ==
  ASSUME UNCHANGED <<live, rows, gap>> PROVE Stays /\ \A f \in Indexed : Right(f)' <=> Right(f)
BY DEF Stays, Right

\* A job that ends has nothing to keep.
LEMMA EndInv ==
  ASSUME IndexInv, NEW j \in Jobs, I!End(j), UNCHANGED <<I!server, rows, gap, up, detached>>,
         last' \in Nat, UNCHANGED last \/ (Alone(j) /\ last' <= counter /\ Passed(last, {})'),
         complete' \in {"none", "0", "1"}, saved' \in {saved, NoState}
  PROVE  IndexInv'
<1> DEFINE v == [I!Fresh EXCEPT !.pc = "ended"]
<1>1. v \in I!JobState /\ v.pc = "ended" /\ v.since = 0 /\ v.target = 0 /\ v.got = {} /\ v.gone = {}
  BY DEF I!JobState, I!Fresh
<1>2. job' = [job EXCEPT ![j] = v]
  BY DEF I!End
<1> HIDE DEF v
<1>3. job' \in [Jobs -> I!JobState] /\ Others(j) /\ job'[j] = v
      /\ \A i, k \in Jobs : job'[i].pc \in I!Busy /\ job'[k].pc \in I!Busy => i = k
  BY <1>1, <1>2, TypedJob DEF IndexInv
<1>4. I!TypeOK'
  BY <1>3 DEF IndexInv, I!TypeOK
<1>5. CursorsInv'
  BY <1>1, <1>3 DEF IndexInv, CursorsInv, Others, I!TypeOK
<1>6. Stays /\ (UNCHANGED last => \A f \in Indexed : Newer(f) => Newer(f)')
  BY <1>1, <1>3, Quiet DEF Newer, Others, IndexInv, I!TypeOK, CursorsInv
<1>7. JobOK(j)'
  BY <1>1, <1>3 DEF JobOK, BuildOK, UpdateOK, HandsOK
<1>8. UNCHANGED saved \/ SavedInv'
  BY DEF SavedInv
<1> QED
  BY <1>3, <1>4, <1>5, <1>6, <1>7, <1>8, JobStep

LEMMA EndsInv ==
  ASSUME IndexInv, NEW j \in Jobs, I!FinalizeStopped(j) \/ I!Complete(j) \/ I!ChunkFails(j)
  PROVE  IndexInv'
<1>1. I!End(j) /\ UNCHANGED <<I!server, rows, gap, last, up, detached>>
  BY DEF I!FinalizeStopped, I!Complete, I!ChunkFails
<1>2. complete' \in {"none", "0", "1"} /\ saved' \in {saved, NoState}
  BY DEF I!FinalizeStopped, I!Complete, I!ChunkFails, I!Save, IndexInv, I!TypeOK
<1>3. last' \in Nat /\ UNCHANGED last
  BY <1>1 DEF IndexInv, I!TypeOK
<1> QED
  BY <1>1, <1>2, <1>3, EndInv

\* The job waits in the queue, and has nothing yet.
LEMMA EnqueueTyped ==
  ASSUME IndexInv, NEW j \in Jobs, NEW k \in {"build", "update"}, I!Enqueue(j, k)
  PROVE  /\ job' \in [Jobs -> I!JobState] /\ Others(j) /\ JobOK(j)'
         /\ job'[j].since = job[j].since /\ job'[j].target = job[j].target
         /\ \A h, i \in Jobs : job'[h].pc \in I!Busy /\ job'[i].pc \in I!Busy => h = i
<1> DEFINE v == [job[j] EXCEPT !.kind = k, !.pc = "queued"]
<1>1. job[j] \in I!JobState /\ job[j].pc = "free" /\ HandsOK(j)
  BY DEF IndexInv, JobOK, I!TypeOK, I!Enqueue
<1>2. v \in I!JobState /\ v.pc = "queued" /\ v.since = job[j].since /\ v.target = job[j].target
      /\ v.got = {} /\ v.gone = {}
  BY <1>1 DEF I!JobState, HandsOK
<1>3. job' = [job EXCEPT ![j] = v]
  BY DEF I!Enqueue
<1> HIDE DEF v
<1>4. job' \in [Jobs -> I!JobState] /\ Others(j) /\ job'[j] = v
      /\ \A h, i \in Jobs : job'[h].pc \in I!Busy /\ job'[i].pc \in I!Busy => h = i
  BY <1>2, <1>3, TypedJob DEF IndexInv
<1>5. JobOK(j)'
  BY <1>2, <1>4 DEF JobOK, BuildOK, UpdateOK, HandsOK
<1> QED
  BY <1>2, <1>4, <1>5

LEMMA LaunchInv == ASSUME IndexInv, NEW j \in Jobs, I!Launch(j) PROVE IndexInv'
<1>1. PICK k \in {"build", "update"} : I!Enqueue(j, k)
  BY DEF I!Launch
<1>2. UNCHANGED <<I!server, I!table, saved, detached, gap>> /\ up' = TRUE
  BY DEF I!Launch
<1>3. I!TypeOK' /\ CursorsInv'
  BY <1>1, <1>2, EnqueueTyped DEF IndexInv, I!TypeOK, CursorsInv, Others
<1>4. Stays /\ \A f \in Indexed : Newer(f) => Newer(f)'
  BY <1>1, <1>2, EnqueueTyped, Quiet DEF Newer, Others
<1> QED
  BY <1>1, <1>2, <1>3, <1>4, EnqueueTyped, JobStep

\* A wiped index is empty, which is right for what is not live and known for the rest.
LEMMA RebuildInv == ASSUME IndexInv, NEW j \in Jobs, I!Rebuild(j) PROVE IndexInv'
<1>1. I!Enqueue(j, "build") /\ UNCHANGED <<I!server, saved, up>> /\ rows' = {} /\ last' = 0
      /\ complete' = "none" /\ gap' = I!Blamed(rows, "wiped")
  BY DEF I!Rebuild
<1>2. detached' \subseteq Jobs
  BY DEF I!Rebuild, IndexInv, I!TypeOK
<1>3. gap' \in [Indexed -> I!Reasons]
  BY <1>1 DEF I!Blamed, I!Reasons, IndexInv, I!TypeOK
<1>4. I!TypeOK' /\ CursorsInv'
  BY <1>1, <1>2, <1>3, EnqueueTyped DEF IndexInv, I!TypeOK, CursorsInv, Others
<1>5. Stays
  BY <1>1 DEF Stays, Right, I!Blamed
<1>6. \A f \in Indexed : Newer(f) => Newer(f)'
  BY <1>1, EnqueueTyped DEF Newer, Others, IndexInv, I!TypeOK
<1>7. Passed(last, {})'
  BY <1>1 DEF Passed, Behind, IndexInv, I!TypeOK
<1> QED
  BY <1>1, <1>4, <1>5, <1>6, <1>7, EnqueueTyped, JobStep

LEMMA ExitInv == ASSUME IndexInv, I!Exit PROVE IndexInv'
<1> DEFINE v == [I!Fresh EXCEPT !.pc = "ended"]
<1>1. v \in I!JobState /\ v.pc = "ended" /\ v.since = 0 /\ v.target = 0 /\ v.got = {} /\ v.gone = {}
  BY DEF I!JobState, I!Fresh
<1> HIDE DEF v
<1>2. UNCHANGED <<I!server, I!table, saved, gap>> /\ detached' = {} /\ up' = FALSE
      /\ job' = [k \in Jobs |-> IF job[k].pc = "free" THEN job[k] ELSE v]
  BY DEF I!Exit, v
<1>3. I!TypeOK'
  BY <1>1, <1>2 DEF IndexInv, I!TypeOK
<1>4. CursorsInv'
  BY <1>1, <1>2 DEF IndexInv, CursorsInv, I!TypeOK
<1>5. \A k \in Jobs : JobOK(k)'
  BY <1>1, <1>2 DEF IndexInv, JobOK, BuildOK, UpdateOK, HandsOK
<1>6. Passed(last, {})' /\ SavedInv'
  BY <1>2, Quiet, PassedStays DEF IndexInv
<1> QED
  BY <1>3, <1>4, <1>5, <1>6 DEF IndexInv

\* A file that changes is newer than every cursor.
LEMMA SubmitInv == ASSUME IndexInv, NEW f \in Indexed, I!OtherSubmit(f) PROVE IndexInv'
<1>1. UNCHANGED <<I!table, saved, up, job, detached, gap>> /\ counter' = counter + 1
      /\ changed' = [changed EXCEPT ![f] = counter + 1]
      /\ live' \in {live \cup {f}, live \ {f}}
  BY DEF I!OtherSubmit
<1>2. I!TypeOK'
  BY <1>1 DEF IndexInv, I!TypeOK
<1>3. CursorsInv'
  BY <1>1 DEF IndexInv, I!TypeOK, I!JobState, CursorsInv
<1>4. \A g \in Indexed \ {f} : changed'[g] = changed[g] /\ (g \in live' <=> g \in live)
                             /\ (Right(g)' <=> Right(g)) /\ (Newer(g)' <=> Newer(g))
  BY <1>1 DEF IndexInv, I!TypeOK, Right, Newer
<1>5. changed'[f] = counter + 1 /\ Newer(f)'
  BY <1>1 DEF IndexInv, I!TypeOK, I!JobState, CursorsInv, Newer, State
<1>6. Passed(last, {})'
  BY <1>1, <1>4, <1>5 DEF IndexInv, I!TypeOK, Passed, Behind, Newer
<1>7. SavedInv'
  BY <1>1, <1>4, <1>5 DEF IndexInv, I!TypeOK, SavedInv, Passed, Behind, Newer
<1>8. ASSUME NEW j \in Jobs PROVE JobOK(j)'
  <2>1. JobOK(j) /\ job[j] \in I!JobState /\ changed'[f] > job[j].since /\ changed'[f] > job[j].target
    BY <1>1, <1>5 DEF IndexInv, I!TypeOK, Newer
  <2>2. BuildOK(j)'
    BY <1>1, <1>4, <2>1 DEF JobOK, BuildOK, Known, Ahead, I!Left, Behind, IndexInv, I!TypeOK, I!JobState
  <2>3. UpdateOK(j)'
    BY <1>1, <1>4, <2>1 DEF JobOK, UpdateOK, Known, Behind, IndexInv, I!TypeOK, I!JobState
  <2>4. HandsOK(j)'
    BY <1>1, <1>4, <1>5, <2>1 DEF JobOK, HandsOK, I!JobState
  <2> QED
    BY <2>2, <2>3, <2>4 DEF JobOK
<1> QED
  BY <1>2, <1>3, <1>6, <1>7, <1>8 DEF IndexInv

-----------------------------------------------------------------------------
(* A build.                                                                *)

LEMMA ResumeInv == ASSUME IndexInv, NEW j \in Jobs, I!Resume(j) PROVE IndexInv'
<1> DEFINE v == [job[j] EXCEPT !.todo = saved.pending, !.since = saved.start, !.pc = "ready"]
<1>1. job[j] \in I!JobState /\ job[j].pc = "queued" /\ job[j].kind = "build" /\ HandsOK(j) /\ Alone(j)
      /\ saved \in State /\ saved # NoState
  BY OneBusy DEF IndexInv, JobOK, I!TypeOK, I!Resume, I!Pulled, State
<1>2. v \in I!JobState /\ v.pc = "ready" /\ v.kind = "build" /\ v.since = saved.start
      /\ v.target = job[j].target /\ v.todo = saved.pending /\ v.got = {} /\ v.gone = {}
  BY <1>1 DEF I!JobState, HandsOK, State
<1>3. job' = [job EXCEPT ![j] = v] /\ UNCHANGED <<I!server, I!table, saved, up, detached, gap>>
  BY DEF I!Resume
<1> HIDE DEF v
<1>4. job' \in [Jobs -> I!JobState] /\ Others(j) /\ job'[j] = v
      /\ \A i, k \in Jobs : job'[i].pc \in I!Busy /\ job'[k].pc \in I!Busy => i = k
  BY <1>1, <1>2, <1>3, TypedJob DEF IndexInv
<1>5. I!TypeOK' /\ CursorsInv'
  BY <1>1, <1>2, <1>3, <1>4 DEF IndexInv, I!TypeOK, CursorsInv, Others
<1>6. Stays /\ \A f \in Indexed : Right(f)' <=> Right(f)
  BY <1>3, Quiet
<1>7. SavedInv
  BY DEF IndexInv
<1>8. JobOK(j)'
  BY <1>1, <1>2, <1>3, <1>4, <1>6, <1>7
     DEF JobOK, BuildOK, UpdateOK, HandsOK, Known, Ahead, Behind, SavedInv, Passed
<1> QED
  BY <1>1, <1>3, <1>4, <1>5, <1>6, <1>8, JobStep

LEMMA ListDirsInv == ASSUME IndexInv, NEW j \in Jobs, I!ListDirs(j) PROVE IndexInv'
<1>1. PICK ds \in SUBSET I!LiveDirs : job' = [job EXCEPT ![j].todo = ds, ![j].pc = "dirs"]
  BY DEF I!ListDirs
<1> DEFINE v == [job[j] EXCEPT !.todo = ds, !.pc = "dirs"]
<1>2. job[j] \in I!JobState /\ job[j].pc = "queued" /\ job[j].kind = "build" /\ HandsOK(j) /\ Alone(j)
  BY OneBusy DEF IndexInv, JobOK, I!TypeOK, I!ListDirs, I!Pulled
<1>3. ds \subseteq Subdirs
  BY DEF I!LiveDirs, IndexInv, I!TypeOK
<1>4. v \in I!JobState /\ v.pc = "dirs" /\ v.kind = "build" /\ v.since = job[j].since /\ v.target = job[j].target
      /\ v.got = {} /\ v.gone = {}
  BY <1>2, <1>3 DEF I!JobState, HandsOK
<1>5. job' = [job EXCEPT ![j] = v] /\ UNCHANGED <<I!server, I!table, saved, up, detached, gap>>
  BY <1>1, ZenonT(20) DEF I!ListDirs
<1> HIDE DEF v
<1>6. job' \in [Jobs -> I!JobState] /\ Others(j) /\ job'[j] = v
      /\ \A i, k \in Jobs : job'[i].pc \in I!Busy /\ job'[k].pc \in I!Busy => i = k
  BY <1>2, <1>4, <1>5, TypedJob DEF IndexInv
<1>7. I!TypeOK' /\ CursorsInv'
  BY <1>4, <1>5, <1>6 DEF IndexInv, I!TypeOK, CursorsInv, Others
<1>8. Stays
  BY <1>5, Quiet
<1>9. JobOK(j)'
  BY <1>4, <1>6 DEF JobOK, BuildOK, UpdateOK, HandsOK
<1> QED
  BY <1>2, <1>5, <1>6, <1>7, <1>8, <1>9, JobStep

\* The files that are not going to be listed, and the rows of dead ones, are known.
LEMMA SnapshotInv == ASSUME IndexInv, NEW j \in Jobs, I!SnapshotCursor(j) PROVE IndexInv'
<1>1. PICK c \in {counter, 0} :
        /\ job' = [job EXCEPT ![j].since = c, ![j].pc = "ready"]
        /\ I!Save([pending |-> job[j].todo, start |-> c])
  BY DEF I!SnapshotCursor
<1> DEFINE v == [job[j] EXCEPT !.since = c, !.pc = "ready"]
<1>2. job[j] \in I!JobState /\ job[j].pc = "dirs" /\ HandsOK(j) /\ Alone(j) /\ c \in Nat /\ c <= counter
  BY OneBusy DEF IndexInv, JobOK, I!TypeOK, I!SnapshotCursor
<1>3. v \in I!JobState /\ v.pc = "ready" /\ v.since = c /\ v.target = job[j].target
      /\ v.todo = job[j].todo /\ v.got = {} /\ v.gone = {} /\ v.kind = job[j].kind
  BY <1>2 DEF I!JobState, HandsOK
<1>4. job' = [job EXCEPT ![j] = v] /\ UNCHANGED <<I!server, I!table, up, detached>>
      /\ gap' = [f \in Indexed |->
                   IF f \in live /\ Dir[f] \notin job[j].todo THEN "listing"
                   ELSE IF f \in rows \ live THEN "leftover" ELSE gap[f]]
  BY <1>1, ZenonT(40) DEF I!SnapshotCursor
<1>5. saved' \in State \cup {NoState}
      /\ (saved' = saved \/ (saved'.start = c /\ saved'.pending = job[j].todo))
  BY <1>1, <1>2 DEF I!Save, I!JobState, State, IndexInv, I!TypeOK
<1> HIDE DEF v
<1>6. job' \in [Jobs -> I!JobState] /\ Others(j) /\ job'[j] = v
      /\ \A i, k \in Jobs : job'[i].pc \in I!Busy /\ job'[k].pc \in I!Busy => i = k
  BY <1>2, <1>3, <1>4, TypedJob DEF IndexInv
<1>7. gap' \in [Indexed -> I!Reasons]
  BY <1>4 DEF I!Reasons, IndexInv, I!TypeOK
<1>8. I!TypeOK'
  BY <1>4, <1>5, <1>6, <1>7 DEF IndexInv, I!TypeOK, State
<1>9. CursorsInv'
  BY <1>2, <1>3, <1>4, <1>5, <1>6 DEF IndexInv, CursorsInv, Others
<1>10. Stays /\ \A f \in Indexed : (f \in live => Dir[f] \notin job[j].todo) => Right(f)'
  BY <1>4 DEF Stays, Right, IndexInv, I!TypeOK
<1>11. UNCHANGED saved \/ SavedInv'
  BY <1>4, <1>5, <1>10 DEF SavedInv, Passed, Behind
<1>12. BuildOK(j)' /\ HandsOK(j)'
  BY <1>3, <1>4, <1>6, <1>10 DEF BuildOK, HandsOK, Known, Ahead, Behind
<1>13. job[j].kind = "build"
  BY <1>2 DEF IndexInv, JobOK, BuildOK
<1>14. JobOK(j)'
  BY <1>3, <1>6, <1>12, <1>13 DEF JobOK, UpdateOK
<1> QED
  BY <1>2, <1>4, <1>6, <1>8, <1>9, <1>10, <1>11, <1>14, JobStep

\* What is not known to be missing of the subdirectory is in the hands of the job.
LEMMA ListFilesInv == ASSUME IndexInv, NEW j \in Jobs, I!ListFiles(j) PROVE IndexInv'
<1>1. PICK d \in job[j].todo :
        LET all == {f \in Indexed : Dir[f] = d /\ changed[f] > 0}
        IN  \/ /\ job' = [job EXCEPT ![j].at = d, ![j].got = I!Kept(I!Page(all)), ![j].pc = "listed"]
               /\ gap' = I!Blamed((all \cap live) \ I!Page(all), "cap")
            \/ /\ job' = [job EXCEPT ![j].at = d, ![j].pc = "listed"]
               /\ gap' = I!Blamed(all \cap live, "error")
  BY DEF I!ListFiles
<1> DEFINE all == {f \in Indexed : Dir[f] = d /\ changed[f] > 0}
<1>2. job[j] \in I!JobState /\ job[j].pc = "ready" /\ job[j].kind = "build" /\ HandsOK(j) /\ BuildOK(j)
      /\ Alone(j) /\ UNCHANGED <<I!server, I!table, saved, up, detached>>
  BY OneBusy DEF IndexInv, JobOK, I!TypeOK, I!ListFiles, I!Pulled
<1>3. job[j].got = {} /\ job[j].gone = {}
  BY <1>2 DEF HandsOK
<1>4. PICK G \in SUBSET Indexed, M \in SUBSET Indexed, r \in {"cap", "error"} :
        /\ job' = [job EXCEPT ![j].at = d, ![j].got = G, ![j].pc = "listed"]
        /\ gap' = I!Blamed(M, r) /\ G \subseteq live /\ all \cap live \subseteq G \cup M
  <2>1. CASE /\ job' = [job EXCEPT ![j].at = d, ![j].got = I!Kept(I!Page(all)), ![j].pc = "listed"]
             /\ gap' = I!Blamed((all \cap live) \ I!Page(all), "cap")
    <3> DEFINE G == I!Kept(I!Page(all))
               M == (all \cap live) \ I!Page(all)
    <3>1. G \in SUBSET Indexed /\ G \subseteq live /\ M \in SUBSET Indexed
      BY DEF I!Kept, I!Page
    <3>2. all \cap live \subseteq G \cup M
      BY DEF I!Kept
    <3>3. /\ job' = [job EXCEPT ![j].at = d, ![j].got = G, ![j].pc = "listed"]
          /\ gap' = I!Blamed(M, "cap")
      BY <2>1
    <3> HIDE DEF G, M, all
    <3> QED
      BY <3>1, <3>2, <3>3
  <2>2. CASE job' = [job EXCEPT ![j].at = d, ![j].pc = "listed"] /\ gap' = I!Blamed(all \cap live, "error")
    <3> DEFINE M == all \cap live
    <3>1. job' = [job EXCEPT ![j].at = d, ![j].got = {}, ![j].pc = "listed"]
      BY <1>2, <1>3, <2>2 DEF I!JobState, IndexInv, I!TypeOK
    <3>2. gap' = I!Blamed(M, "error") /\ M \in SUBSET Indexed /\ all \cap live \subseteq {} \cup M
          /\ {} \in SUBSET Indexed /\ {} \subseteq live
      BY <2>2
    <3> HIDE DEF M, all
    <3> QED
      BY <3>1, <3>2
  <2> QED
    BY <1>1, <2>1, <2>2
<1> DEFINE v == [job[j] EXCEPT !.at = d, !.got = G, !.pc = "listed"]
<1>5. v \in I!JobState /\ v.pc = "listed" /\ v.kind = "build" /\ v.since = job[j].since
      /\ v.target = job[j].target /\ v.todo = job[j].todo /\ v.at = d /\ v.got = G /\ v.gone = {}
  BY <1>2, <1>3 DEF I!JobState
<1>6. job' = [job EXCEPT ![j] = v]
  BY <1>4
<1> HIDE DEF v
<1>7. job' \in [Jobs -> I!JobState] /\ Others(j) /\ job'[j] = v
      /\ \A i, k \in Jobs : job'[i].pc \in I!Busy /\ job'[k].pc \in I!Busy => i = k
  BY <1>2, <1>5, <1>6, TypedJob DEF IndexInv
<1>8. gap' \in [Indexed -> I!Reasons]
  BY <1>4 DEF I!Reasons, I!Blamed, IndexInv, I!TypeOK
<1>9. I!TypeOK' /\ CursorsInv'
  BY <1>2, <1>5, <1>7, <1>8 DEF IndexInv, I!TypeOK, CursorsInv, Others
<1>10. (\A f \in Indexed : Right(f) => Right(f)') /\ \A f \in M : Right(f)'
  BY <1>2, <1>4 DEF Right, I!Blamed
<1>11. BuildOK(j)'
  <2>1. SUFFICES ASSUME NEW f \in Indexed, Behind(f, job[j].since, job[j].todo \ {d})
                 PROVE  f \in G \/ Right(f)'
    BY <1>2, <1>5, <1>7 DEF BuildOK, Known, Ahead, I!Left, Behind
  <2>2. CASE f \in live /\ Dir[f] = d
    BY <1>4, <1>10, <2>1, <2>2 DEF Behind
  <2>3. CASE ~(f \in live /\ Dir[f] = d)
    BY <1>2, <1>3, <1>10, <2>1, <2>3 DEF BuildOK, Known, Ahead, Behind
  <2> QED
    BY <2>2, <2>3
<1>12. HandsOK(j)'
  BY <1>2, <1>4, <1>5, <1>7 DEF HandsOK
<1>13. JobOK(j)' /\ Stays
  BY <1>5, <1>7, <1>10, <1>11, <1>12 DEF JobOK, UpdateOK, Stays
<1> QED
  BY <1>2, <1>7, <1>9, <1>13, JobStep

LEMMA PopSubdirInv == ASSUME IndexInv, NEW j \in Jobs, I!PopSubdir(j) PROVE IndexInv'
<1> DEFINE left == I!Left(j)
           v == [job[j] EXCEPT !.todo = left, !.at = NoState, !.pc = "ready"]
<1>1. job[j] \in I!JobState /\ job[j].pc = "listed" /\ job[j].kind = "build" /\ BuildOK(j) /\ Alone(j)
      /\ job[j].got = {} /\ job[j].gone = {}
  BY OneBusy DEF IndexInv, JobOK, I!TypeOK, I!PopSubdir, I!Written
<1>2. v \in I!JobState /\ v.pc = "ready" /\ v.kind = "build" /\ v.since = job[j].since
      /\ v.target = job[j].target /\ v.todo = left /\ v.got = {} /\ v.gone = {}
  BY <1>1 DEF I!JobState, I!Left
<1>3. job' = [job EXCEPT ![j] = v] /\ UNCHANGED <<I!server, I!table, up, detached, gap>>
  BY DEF I!PopSubdir
<1>4. saved' \in State \cup {NoState}
      /\ (saved' = saved \/ (saved'.start = job[j].since /\ saved'.pending = left))
  BY <1>1 DEF I!PopSubdir, I!Save, I!JobState, I!Left, State, IndexInv, I!TypeOK
<1> HIDE DEF v
<1>5. job' \in [Jobs -> I!JobState] /\ Others(j) /\ job'[j] = v
      /\ \A i, k \in Jobs : job'[i].pc \in I!Busy /\ job'[k].pc \in I!Busy => i = k
  BY <1>1, <1>2, <1>3, TypedJob DEF IndexInv
<1>6. I!TypeOK'
  BY <1>3, <1>4, <1>5 DEF IndexInv, I!TypeOK, State
<1>7. CursorsInv'
  BY <1>2, <1>3, <1>4, <1>5 DEF IndexInv, CursorsInv, Others
<1>8. Stays /\ \A f \in Indexed : Right(f)' <=> Right(f)
  BY <1>3, Quiet
<1>9. Passed(job[j].since, left)
  BY <1>1 DEF BuildOK, Known, Ahead, Passed
<1>10. UNCHANGED saved \/ SavedInv'
  BY <1>3, <1>4, <1>8, <1>9 DEF SavedInv, Passed, Behind
<1>11. JobOK(j)'
  BY <1>2, <1>3, <1>5, <1>8, <1>9 DEF JobOK, BuildOK, UpdateOK, HandsOK, Known, Ahead, Passed, Behind
<1> QED
  BY <1>1, <1>3, <1>5, <1>6, <1>7, <1>8, <1>10, <1>11, JobStep

LEMMA CappedInv == ASSUME IndexInv, NEW j \in Jobs, I!Capped(j) PROVE IndexInv'
<1> DEFINE v == [job[j] EXCEPT !.pc = "capped"]
<1>1. job[j] \in I!JobState /\ job[j].pc = "ready" /\ HandsOK(j) /\ Alone(j)
  BY OneBusy DEF IndexInv, JobOK, I!TypeOK, I!Capped, I!Pulled
<1>2. v \in I!JobState /\ v.pc = "capped" /\ v.since = job[j].since /\ v.target = job[j].target
      /\ v.got = {} /\ v.gone = {}
  BY <1>1 DEF I!JobState, HandsOK
<1>3. job' = [job EXCEPT ![j] = v] /\ UNCHANGED <<I!server, I!table, saved, up, detached, gap>>
  BY DEF I!Capped
<1> HIDE DEF v
<1>4. job' \in [Jobs -> I!JobState] /\ Others(j) /\ job'[j] = v
      /\ \A i, k \in Jobs : job'[i].pc \in I!Busy /\ job'[k].pc \in I!Busy => i = k
  BY <1>1, <1>2, <1>3, TypedJob DEF IndexInv
<1>5. I!TypeOK' /\ CursorsInv'
  BY <1>2, <1>3, <1>4 DEF IndexInv, I!TypeOK, CursorsInv, Others
<1>6. Stays
  BY <1>3, Quiet
<1>7. JobOK(j)'
  BY <1>2, <1>4 DEF JobOK, BuildOK, UpdateOK, HandsOK
<1> QED
  BY <1>1, <1>3, <1>4, <1>5, <1>6, <1>7, JobStep

\* Nothing is left to be listed when the cursor of the index is set.
LEMMA AnchorInv == ASSUME IndexInv, NEW j \in Jobs, I!Anchor(j) PROVE IndexInv'
<1> DEFINE v == [job[j] EXCEPT !.pc = "anchored"]
<1>1. job[j] \in I!JobState /\ job[j].pc = "ready" /\ job[j].kind = "build" /\ job[j].todo = {}
      /\ HandsOK(j) /\ BuildOK(j) /\ Alone(j)
  BY OneBusy DEF IndexInv, JobOK, I!TypeOK, I!Anchor, I!Pulled
<1>2. v \in I!JobState /\ v.pc = "anchored" /\ v.since = job[j].since /\ v.target = job[j].target
      /\ v.got = {} /\ v.gone = {}
  BY <1>1 DEF I!JobState, HandsOK
<1>3. job' = [job EXCEPT ![j] = v] /\ UNCHANGED <<I!server, rows, complete, saved, up, detached, gap>>
      /\ last' \in {last, job[j].since}
  BY DEF I!Anchor, I!Cursor
<1> HIDE DEF v
<1>4. job' \in [Jobs -> I!JobState] /\ Others(j) /\ job'[j] = v
      /\ \A i, k \in Jobs : job'[i].pc \in I!Busy /\ job'[k].pc \in I!Busy => i = k
  BY <1>1, <1>2, <1>3, TypedJob DEF IndexInv
<1>5. I!TypeOK'
  BY <1>1, <1>3, <1>4 DEF IndexInv, I!TypeOK, I!JobState
<1>6. CursorsInv'
  BY <1>2, <1>3, <1>4 DEF IndexInv, CursorsInv, Others
<1>7. Stays /\ \A f \in Indexed : Right(f)' <=> Right(f)
  BY <1>3, Quiet
<1>8. Passed(job[j].since, {}) /\ Passed(last, {})
  BY <1>1 DEF BuildOK, HandsOK, Known, Ahead, Passed, IndexInv
<1>9. Passed(last, {})'
  BY <1>3, <1>7, <1>8 DEF Passed, Behind
<1>10. JobOK(j)'
  BY <1>2, <1>4 DEF JobOK, BuildOK, UpdateOK, HandsOK
<1> QED
  BY <1>1, <1>3, <1>4, <1>5, <1>6, <1>7, <1>9, <1>10, JobStep

-----------------------------------------------------------------------------
(* An update.                                                              *)

\* A page is planned when there is something to update.
LEMMA PlannedSome == ASSUME NEW n \in Nat \ {0} PROVE I!Planned(n) \in 1..MaxPages
<1> DEFINE q == (n + PageSize - 1) \div PageSize
<1>1. q \in Int /\ q >= 1
  <2>1. PageSize \in Int /\ PageSize >= 1 /\ n + PageSize - 1 \in Int /\ n + PageSize - 1 >= PageSize
    OBVIOUS
  <2>2. \A m \in Int, k \in Int : k >= 1 /\ m >= k => m \div k \in Int /\ m \div k >= 1
    OBVIOUS
  <2> QED
    BY <2>1, <2>2
<1> QED
  BY <1>1 DEF I!Planned

LEMMA PlanInv == ASSUME IndexInv, NEW j \in Jobs, I!Plan(j) PROVE IndexInv'
<1>1. PICK c \in {counter, last} :
        job' = [job EXCEPT ![j].since = last, ![j].target = c, ![j].pc = "ready",
                           ![j].pages = IF c > last THEN I!Planned(c - last) ELSE 0]
  BY DEF I!Plan
<1> DEFINE n == IF c > last THEN I!Planned(c - last) ELSE 0
           v == [job[j] EXCEPT !.since = last, !.target = c, !.pc = "ready", !.pages = n]
<1>2. job[j] \in I!JobState /\ job[j].pc = "queued" /\ job[j].kind = "update" /\ HandsOK(j) /\ Alone(j)
      /\ c \in Nat /\ last \in Nat /\ c <= counter /\ last <= counter
  BY OneBusy DEF IndexInv, JobOK, I!TypeOK, I!Plan, I!Pulled, CursorsInv
<1>3. n \in 0..MaxPages /\ (n = 0 => ~(c > last))
  <2>1. CASE c > last
    <3>1. c - last \in Nat \ {0}
      BY <1>2, <2>1
    <3> QED
      BY <2>1, <3>1, PlannedSome
  <2>2. CASE ~(c > last)
    BY <2>2
  <2> QED
    BY <2>1, <2>2
<1>0. job' = [job EXCEPT ![j] = v]
  BY <1>1
<1> HIDE DEF n
<1>4. v \in I!JobState /\ v.pc = "ready" /\ v.kind = "update" /\ v.since = last /\ v.target = c
      /\ v.pages = n /\ v.got = {} /\ v.gone = {}
  BY <1>2, <1>3 DEF I!JobState, HandsOK
<1>5. job' = [job EXCEPT ![j] = v] /\ UNCHANGED <<I!server, I!table, saved, up, detached, gap>>
  BY <1>0 DEF I!Plan
<1> HIDE DEF v
<1>6. job' \in [Jobs -> I!JobState] /\ Others(j) /\ job'[j] = v
      /\ \A i, k \in Jobs : job'[i].pc \in I!Busy /\ job'[k].pc \in I!Busy => i = k
  BY <1>2, <1>4, <1>5, TypedJob DEF IndexInv
<1>7. I!TypeOK' /\ CursorsInv'
  BY <1>2, <1>4, <1>5, <1>6 DEF IndexInv, I!TypeOK, CursorsInv, Others
<1>8. Stays /\ \A f \in Indexed : Right(f)' <=> Right(f)
  BY <1>5, Quiet
<1>9. Passed(last, {})
  BY DEF IndexInv
<1>10. UpdateOK(j)'
  BY <1>3, <1>4, <1>5, <1>6, <1>8, <1>9 DEF UpdateOK, Known, Passed, Behind
<1>11. JobOK(j)'
  BY <1>4, <1>6, <1>10 DEF JobOK, BuildOK, HandsOK
<1> QED
  BY <1>2, <1>5, <1>6, <1>7, <1>8, <1>11, JobStep

\* Whatever changed since the cursor is in the answer, or known not to be.
LEMMA ListDeltaInv == ASSUME IndexInv, NEW j \in Jobs, I!ListDelta(j) PROVE IndexInv'
<1> DEFINE all == I!Delta(job[j].since)
<1>1. job[j] \in I!JobState /\ job[j].pc = "ready" /\ job[j].kind = "update" /\ HandsOK(j) /\ UpdateOK(j)
      /\ job[j].pages > 0 /\ Alone(j) /\ UNCHANGED <<I!server, I!table, saved, up, detached>>
  BY OneBusy DEF IndexInv, JobOK, I!TypeOK, I!ListDelta, I!Pulled
<1>2. job[j].got = {} /\ job[j].gone = {}
  BY <1>1 DEF HandsOK
<1>3. PICK G \in SUBSET Indexed, D \in SUBSET Indexed :
        /\ job' = [job EXCEPT ![j].got = G, ![j].gone = D, ![j].pc = "listed"]
        /\ G \subseteq live /\ D \cap live = {} /\ gap' \in [Indexed -> I!Reasons]
        /\ \A f \in Indexed : gap'[f] = gap[f] \/ gap'[f] # "none"
        /\ \A f \in all : f \in G \cup D \/ gap'[f] # "none"
  <2>1. CASE /\ job' = [job EXCEPT ![j].got = I!Kept(I!Page(all)), ![j].gone = I!Gone(I!Page(all)),
                                   ![j].pc = "listed"]
             /\ gap' = I!Blamed(all \ I!Page(all), "tail")
    <3> DEFINE G == I!Kept(I!Page(all))
               D == I!Gone(I!Page(all))
    <3>1. G \in SUBSET Indexed /\ G \subseteq live /\ D \in SUBSET Indexed /\ D \cap live = {}
      BY DEF I!Kept, I!Gone, I!Page, I!Delta
    <3>2. /\ gap' \in [Indexed -> I!Reasons] /\ \A f \in Indexed : gap'[f] = gap[f] \/ gap'[f] # "none"
          /\ \A f \in all : f \in G \cup D \/ gap'[f] # "none"
      BY <2>1 DEF I!Kept, I!Gone, I!Blamed, I!Reasons, I!Delta, IndexInv, I!TypeOK
    <3>3. job' = [job EXCEPT ![j].got = G, ![j].gone = D, ![j].pc = "listed"]
      BY <2>1
    <3> HIDE DEF G, D, all
    <3> QED
      BY <3>1, <3>2, <3>3
  <2>2. CASE job' = [job EXCEPT ![j].pc = "listed"] /\ gap' = I!Blamed(all, "error")
    <3>1. job' = [job EXCEPT ![j].got = {}, ![j].gone = {}, ![j].pc = "listed"]
      <4>1. [job[j] EXCEPT !.pc = "listed"] = [job[j] EXCEPT !.got = {}, !.gone = {}, !.pc = "listed"]
        BY <1>1, <1>2 DEF I!JobState
      <4>2. job' = [job EXCEPT ![j] = [job[j] EXCEPT !.pc = "listed"]]
        BY <2>2
      <4> QED
        BY <4>1, <4>2
    <3>2. /\ gap' \in [Indexed -> I!Reasons] /\ \A f \in Indexed : gap'[f] = gap[f] \/ gap'[f] # "none"
          /\ \A f \in all : gap'[f] # "none"
      BY <2>2 DEF I!Blamed, I!Reasons, I!Delta, IndexInv, I!TypeOK
    <3>3. {} \in SUBSET Indexed /\ {} \subseteq live /\ {} \cap live = {}
      OBVIOUS
    <3> HIDE DEF all
    <3> QED
      BY <3>1, <3>2, <3>3
  <2> QED
    BY <2>1, <2>2 DEF I!ListDelta
<1> DEFINE v == [job[j] EXCEPT !.got = G, !.gone = D, !.pc = "listed"]
<1>4. v \in I!JobState /\ v.pc = "listed" /\ v.kind = "update" /\ v.since = job[j].since
      /\ v.target = job[j].target /\ v.got = G /\ v.gone = D /\ v.pages = job[j].pages
  BY <1>1 DEF I!JobState
<1>5. job' = [job EXCEPT ![j] = v]
  BY <1>3
<1> HIDE DEF v
<1>6. job' \in [Jobs -> I!JobState] /\ Others(j) /\ job'[j] = v
      /\ \A i, k \in Jobs : job'[i].pc \in I!Busy /\ job'[k].pc \in I!Busy => i = k
  BY <1>1, <1>4, <1>5, TypedJob DEF IndexInv
<1>7. gap' \in [Indexed -> I!Reasons]
  BY <1>3
<1>8. I!TypeOK' /\ CursorsInv'
  BY <1>1, <1>4, <1>6, <1>7 DEF IndexInv, I!TypeOK, CursorsInv, Others
<1>9. \A f \in Indexed : (Right(f) => Right(f)') /\ (gap'[f] # "none" => Right(f)')
  BY <1>1, <1>3 DEF Right
<1>10. ASSUME NEW f \in Indexed, 0 < changed[f] PROVE f \in G \cup D \/ Right(f)'
  <2>1. CASE f \in all
    BY <1>3, <1>9, <2>1
  <2>2. CASE f \notin all
    <3>1. changed[f] <= job[j].since
      BY <1>1, <2>2 DEF I!Delta, I!JobState, IndexInv, I!TypeOK
    <3> QED
      BY <1>1, <1>2, <1>9, <1>10, <3>1 DEF UpdateOK, Known, Behind
  <2> QED
    BY <2>1, <2>2
<1>11. UpdateOK(j)'
  BY <1>1, <1>4, <1>6, <1>10 DEF UpdateOK, Known, Behind
<1>12. HandsOK(j)'
  BY <1>1, <1>3, <1>4, <1>6 DEF HandsOK
<1>13. JobOK(j)' /\ Stays
  BY <1>4, <1>6, <1>9, <1>11, <1>12 DEF JobOK, BuildOK, Stays
<1> QED
  BY <1>1, <1>6, <1>8, <1>13, JobStep

LEMMA PageDoneInv == ASSUME IndexInv, NEW j \in Jobs, I!PageDone(j) PROVE IndexInv'
<1> DEFINE v == [job[j] EXCEPT !.pages = @ - 1, !.pc = "ready"]
<1>1. job[j] \in I!JobState /\ job[j].pc = "listed" /\ job[j].kind = "update" /\ UpdateOK(j) /\ Alone(j)
      /\ job[j].got = {} /\ job[j].gone = {} /\ job[j].pages > 0
  BY OneBusy DEF IndexInv, JobOK, UpdateOK, I!TypeOK, I!PageDone, I!Written
<1>2. v \in I!JobState /\ v.pc = "ready" /\ v.kind = "update" /\ v.since = job[j].since
      /\ v.target = job[j].target /\ v.got = {} /\ v.gone = {}
  <2>1. job[j].pages - 1 \in 0..MaxPages
    BY <1>1 DEF I!JobState
  <2> QED
    BY <1>1, <2>1 DEF I!JobState
<1>3. job' = [job EXCEPT ![j] = v] /\ UNCHANGED <<I!server, I!table, saved, up, detached, gap>>
  BY DEF I!PageDone
<1> HIDE DEF v
<1>4. job' \in [Jobs -> I!JobState] /\ Others(j) /\ job'[j] = v
      /\ \A i, k \in Jobs : job'[i].pc \in I!Busy /\ job'[k].pc \in I!Busy => i = k
  BY <1>1, <1>2, <1>3, TypedJob DEF IndexInv
<1>5. I!TypeOK' /\ CursorsInv'
  BY <1>2, <1>3, <1>4 DEF IndexInv, I!TypeOK, CursorsInv, Others
<1>6. Stays /\ \A f \in Indexed : Right(f)' <=> Right(f)
  BY <1>3, Quiet
<1>7. UpdateOK(j)'
  BY <1>1, <1>2, <1>3, <1>4, <1>6 DEF UpdateOK, Known, Behind
<1>8. JobOK(j)'
  BY <1>2, <1>4, <1>7 DEF JobOK, BuildOK, HandsOK
<1> QED
  BY <1>1, <1>3, <1>4, <1>5, <1>6, <1>8, JobStep

LEMMA AdvanceInv == ASSUME IndexInv, NEW j \in Jobs, I!Advance(j) PROVE IndexInv'
<1>1. I!End(j) /\ UNCHANGED <<I!server, rows, gap, complete, saved, up, detached>>
      /\ job[j].pages = 0 /\ (UNCHANGED last \/ (job[j].target > job[j].since /\ last' = job[j].target))
  BY DEF I!Advance
<1>2. job[j] \in I!JobState /\ job[j].pc = "ready" /\ job[j].kind = "update" /\ HandsOK(j) /\ UpdateOK(j)
      /\ Alone(j) /\ last \in Nat /\ complete \in {"none", "0", "1"}
  BY OneBusy DEF IndexInv, JobOK, I!TypeOK, I!Advance, I!Pulled
<1>3. last' \in Nat
  BY <1>1, <1>2 DEF I!JobState
<1>4. ASSUME job[j].target > job[j].since, last' = job[j].target
      PROVE  last' <= counter /\ Passed(last, {})'
  <2>1. Passed(job[j].target, {})
    BY <1>1, <1>2, <1>4 DEF UpdateOK, HandsOK, Known, Passed
  <2>2. \A f \in Indexed : Right(f)' <=> Right(f)
    BY <1>1, Quiet
  <2> QED
    BY <1>1, <1>4, <2>1, <2>2 DEF Passed, Behind, IndexInv, CursorsInv
<1> QED
  BY <1>1, <1>2, <1>3, <1>4, EndInv

-----------------------------------------------------------------------------
(* The rows.                                                               *)

\* A row that was listed is written: it is right, or its file changed meanwhile.
LEMMA WriteRowInv == ASSUME IndexInv, NEW j \in Jobs, I!WriteRow(j) PROVE IndexInv'
<1>1. PICK f \in job[j].got \cup job[j].gone, G \in SUBSET job[j].got, D \in SUBSET job[j].gone :
        /\ job' = [job EXCEPT ![j].got = G, ![j].gone = D]
        /\ job[j].got \cup job[j].gone \subseteq G \cup D \cup {f}
        /\ \/ f \in job[j].got /\ rows' = IF I!Attached(j) THEN rows \cup {f} ELSE rows
           \/ f \in job[j].gone /\ rows' = IF I!Attached(j) THEN rows \ {f} ELSE rows
        /\ gap' = I!Blamed({f}, IF I!Attached(j) THEN "none" ELSE "wiped")
  <2>0. job[j] \in I!JobState
    BY DEF IndexInv, I!TypeOK
  <2>1. CASE \E f \in job[j].got :
               /\ rows' = IF I!Attached(j) THEN rows \cup {f} ELSE rows
               /\ job' = [job EXCEPT ![j].got = @ \ {f}]
               /\ gap' = I!Blamed({f}, IF I!Attached(j) THEN "none" ELSE "wiped")
    <3>1. PICK f \in job[j].got :
               /\ rows' = IF I!Attached(j) THEN rows \cup {f} ELSE rows
               /\ job' = [job EXCEPT ![j] = [job[j] EXCEPT !.got = job[j].got \ {f}]]
               /\ gap' = I!Blamed({f}, IF I!Attached(j) THEN "none" ELSE "wiped")
      BY <2>1
    <3> DEFINE G == job[j].got \ {f}
               D == job[j].gone
    <3>2. [job[j] EXCEPT !.got = G] = [job[j] EXCEPT !.got = G, !.gone = D]
      BY <2>0 DEF I!JobState
    <3>3. job' = [job EXCEPT ![j].got = G, ![j].gone = D]
      BY <3>1, <3>2
    <3>4. G \in SUBSET job[j].got /\ D \in SUBSET job[j].gone
          /\ job[j].got \cup job[j].gone \subseteq G \cup D \cup {f} /\ f \in job[j].got \cup job[j].gone
      OBVIOUS
    <3> HIDE DEF G, D
    <3> QED
      BY <3>1, <3>3, <3>4
  <2>2. CASE \E f \in job[j].gone :
               /\ rows' = IF I!Attached(j) THEN rows \ {f} ELSE rows
               /\ job' = [job EXCEPT ![j].gone = @ \ {f}]
               /\ gap' = I!Blamed({f}, IF I!Attached(j) THEN "none" ELSE "wiped")
    <3>1. PICK f \in job[j].gone :
               /\ rows' = IF I!Attached(j) THEN rows \ {f} ELSE rows
               /\ job' = [job EXCEPT ![j] = [job[j] EXCEPT !.gone = job[j].gone \ {f}]]
               /\ gap' = I!Blamed({f}, IF I!Attached(j) THEN "none" ELSE "wiped")
      BY <2>2
    <3> DEFINE G == job[j].got
               D == job[j].gone \ {f}
    <3>2. [job[j] EXCEPT !.gone = D] = [job[j] EXCEPT !.got = G, !.gone = D]
      BY <2>0 DEF I!JobState
    <3>3. job' = [job EXCEPT ![j].got = G, ![j].gone = D]
      BY <3>1, <3>2
    <3>4. G \in SUBSET job[j].got /\ D \in SUBSET job[j].gone
          /\ job[j].got \cup job[j].gone \subseteq G \cup D \cup {f} /\ f \in job[j].got \cup job[j].gone
      OBVIOUS
    <3> HIDE DEF G, D
    <3> QED
      BY <3>1, <3>3, <3>4
  <2> QED
    BY <2>1, <2>2 DEF I!WriteRow
<1>2. job[j] \in I!JobState /\ job[j].pc = "listed" /\ JobOK(j) /\ Alone(j)
      /\ UNCHANGED <<I!server, last, complete, saved, up, detached>>
  BY OneBusy DEF IndexInv, I!TypeOK, I!WriteRow
<1> DEFINE v == [job[j] EXCEPT !.got = G, !.gone = D]
<1>3. v \in I!JobState /\ v.pc = "listed" /\ v.kind = job[j].kind /\ v.since = job[j].since
      /\ v.target = job[j].target /\ v.todo = job[j].todo /\ v.at = job[j].at /\ v.pages = job[j].pages
      /\ v.got = G /\ v.gone = D
  BY <1>2 DEF I!JobState
<1>4. job' = [job EXCEPT ![j] = v]
  BY <1>1
<1> HIDE DEF v
<1>5. job' \in [Jobs -> I!JobState] /\ Others(j) /\ job'[j] = v
      /\ \A i, k \in Jobs : job'[i].pc \in I!Busy /\ job'[k].pc \in I!Busy => i = k
  BY <1>2, <1>3, <1>4, TypedJob DEF IndexInv
<1>6. f \in Indexed /\ rows' \subseteq Indexed /\ gap' \in [Indexed -> I!Reasons]
  BY <1>1, <1>2 DEF I!JobState, I!Reasons, I!Blamed, IndexInv, I!TypeOK
<1>7. I!TypeOK' /\ CursorsInv'
  BY <1>2, <1>3, <1>5, <1>6 DEF IndexInv, I!TypeOK, CursorsInv, Others
<1>8. Right(f)' \/ Newer(f)
  BY <1>1, <1>2, <1>6 DEF Right, JobOK, HandsOK, I!Blamed
<1>9. \A g \in Indexed \ {f} : Right(g)' <=> Right(g)
  BY <1>1, <1>2, <1>6 DEF Right, I!Blamed
<1>10. \A g \in Indexed : Newer(g)' <=> Newer(g)
  BY <1>2, <1>3, <1>5 DEF Newer, Others
<1>11. BuildOK(j)'
  BY <1>1, <1>2, <1>3, <1>5, <1>8, <1>9, SMTT(20)
     DEF JobOK, BuildOK, Known, Ahead, I!Left, Behind, Newer, I!JobState, IndexInv, I!TypeOK
<1>12. UpdateOK(j)'
  BY <1>1, <1>2, <1>3, <1>5, <1>8, <1>9, SMTT(20)
     DEF JobOK, UpdateOK, Known, Behind, Newer, I!JobState, IndexInv, I!TypeOK
<1>13. HandsOK(j)'
  BY <1>1, <1>2, <1>3, <1>5, <1>10 DEF JobOK, HandsOK, I!JobState
<1>14. JobOK(j)' /\ Stays
  BY <1>8, <1>9, <1>11, <1>12, <1>13 DEF JobOK, Stays
<1> QED
  BY <1>2, <1>5, <1>7, <1>14, JobStep

-----------------------------------------------------------------------------
(* The theorems about the index.                                           *)

LEMMA IndexInit == ASSUME I!Init PROVE IndexInv
<1>1. I!Fresh \in I!JobState
  BY DEF I!Fresh, I!JobState
<1>2. I!TypeOK
  BY <1>1 DEF I!Init, I!TypeOK, I!Reasons, I!Fresh
<1>3. CursorsInv /\ Passed(last, {}) /\ SavedInv
  BY DEF I!Init, CursorsInv, Passed, Behind, SavedInv, I!Fresh
<1>4. \A j \in Jobs : JobOK(j)
  BY DEF I!Init, JobOK, BuildOK, UpdateOK, HandsOK, I!Fresh
<1> QED
  BY <1>2, <1>3, <1>4 DEF IndexInv

LEMMA IndexNext == IndexInv /\ [I!Next]_I!vars => IndexInv'
<1> SUFFICES ASSUME IndexInv, [I!Next]_I!vars PROVE IndexInv'
  OBVIOUS
<1>1. CASE UNCHANGED I!vars
  BY <1>1 DEF I!vars, IndexInv, I!TypeOK, CursorsInv, Passed, SavedInv, JobOK, BuildOK, UpdateOK, HandsOK,
              Known, Ahead, I!Left, Behind, Right, Newer
<1>2. CASE \E f \in Indexed : I!OtherSubmit(f)
  BY <1>2, SubmitInv
<1>3. CASE \E j \in Jobs : I!Build(j)
  BY <1>3, ResumeInv, ListDirsInv, SnapshotInv, ListFilesInv, PopSubdirInv, CappedInv, EndsInv, AnchorInv
     DEF I!Build
<1>4. CASE \E j \in Jobs : I!Update(j)
  BY <1>4, PlanInv, ListDeltaInv, PageDoneInv, AdvanceInv DEF I!Update
<1>5. CASE \E j \in Jobs : I!WriteRow(j) \/ I!ChunkFails(j) \/ I!Launch(j) \/ I!Rebuild(j)
  BY <1>5, WriteRowInv, EndsInv, LaunchInv, RebuildInv
<1>6. CASE I!Exit
  BY <1>6, ExitInv
<1> QED
  BY <1>1, <1>2, <1>3, <1>4, <1>5, <1>6 DEF I!Next, I!Worker

LEMMA IndexInvariance == I!Spec => []IndexInv
BY IndexInit, IndexNext, PTL DEF I!Spec

\* A live file is found by a search once the cursor of the index has passed it, however
\* builds, updates, rebuilds, restarts and submits alternate, but for files that an
\* answer or a wipe is known to have left out (search_jobs.py).
THEOREM SettledIndexed == I!Spec => []SettledIsIndexed
<1>1. IndexInv => SettledIsIndexed
  BY DEF IndexInv, I!TypeOK, Passed, Behind, Right, SettledIsIndexed, I!SettledIsIndexed, I!Settled
<1> QED
  BY <1>1, IndexInvariance, PTL

\* A deleted file is no longer found once the cursor has passed its deletion
\* (search_jobs.py).
THEOREM SettledEvicted == I!Spec => []SettledIsEvicted
<1>1. IndexInv => SettledIsEvicted
  BY DEF IndexInv, I!TypeOK, Passed, Behind, Right, SettledIsEvicted, I!SettledIsEvicted, I!Settled
<1> QED
  BY <1>1, IndexInvariance, PTL

-----------------------------------------------------------------------------
(* Lists of anything: a list is a sequence of what is in it.               *)

HIDE SearchAssumption DEF I!SearchIndexAssumption, I!At, I!Goto, I!server, I!table, I!Busy, I!Resting

IsList(s) == s \in Seq(ToSet(s))

LEMMA Lists ==
  ASSUME NEW S, NEW s \in Seq(S)
  PROVE  IsList(s) /\ ToSet(s) \subseteq S
<1>1. s = [i \in 1..Len(s) |-> s[i]] /\ Len(s) \in Nat /\ DOMAIN s = 1..Len(s)
  OBVIOUS
<1>2. \A i \in 1..Len(s) : s[i] \in ToSet(s) /\ s[i] \in S
  BY <1>1 DEF ToSet
<1>3. s \in [1..Len(s) -> ToSet(s)]
  BY <1>1, <1>2
<1>4. s \in Seq(ToSet(s))
  BY <1>1, <1>3, SeqDef
<1>5. ToSet(s) \subseteq S
  BY <1>1, <1>2 DEF ToSet
<1> QED
  BY <1>4, <1>5 DEF IsList

LEMMA Builds ==
  ASSUME NEW n \in Nat, NEW s, s = [i \in 1..n |-> s[i]]
  PROVE  IsList(s) /\ Len(s) = n /\ DOMAIN s = 1..n
<1>1. DOMAIN s = 1..n /\ \A i \in 1..n : s[i] \in ToSet(s)
  BY DEF ToSet
<1>2. s \in [1..n -> ToSet(s)]
  BY <1>1
<1>3. s \in Seq(ToSet(s))
  BY <1>2, SeqDef
<1> QED
  BY <1>1, <1>3 DEF IsList

LEMMA Appended ==
  ASSUME NEW s, IsList(s), NEW x
  PROVE  /\ IsList(Append(s, x)) /\ DOMAIN Append(s, x) = 1..(Len(s) + 1) /\ Len(Append(s, x)) = Len(s) + 1
         /\ \A i \in 1..Len(s) : Append(s, x)[i] = s[i]
         /\ Append(s, x)[Len(s) + 1] = x
<1> DEFINE S == ToSet(s) \cup {x}
<1>1. s \in Seq(S) /\ x \in S
  <2>1. ToSet(s) \subseteq S
    OBVIOUS
  <2> QED
    BY <2>1 DEF IsList
<1>2. Append(s, x) \in Seq(S)
  BY <1>1
<1>3. IsList(Append(s, x))
  BY <1>2, Lists
<1> HIDE DEF S
<1> QED
  BY <1>1, <1>2, <1>3

LEMMA Tailed ==
  ASSUME NEW s, IsList(s), s # <<>>
  PROVE  /\ IsList(Tail(s)) /\ Len(Tail(s)) = Len(s) - 1 /\ Len(s) \in Nat /\ Len(s) > 0
         /\ \A i \in 1..(Len(s) - 1) : Tail(s)[i] = s[i + 1]
         /\ Head(s) = s[1]
<1>1. Tail(s) \in Seq(ToSet(s))
  BY DEF IsList
<1>2. IsList(Tail(s))
  BY <1>1, Lists
<1> QED
  BY <1>2 DEF IsList

LEMMA Removed ==
  ASSUME NEW s, IsList(s), NEW i \in DOMAIN s
  PROVE  /\ IsList(RemoveAt(s, i)) /\ DOMAIN RemoveAt(s, i) = 1..(Len(s) - 1) /\ Len(RemoveAt(s, i)) = Len(s) - 1
         /\ \A j \in 1..(Len(s) - 1) : RemoveAt(s, i)[j] = IF j < i THEN s[j] ELSE s[j + 1]
<1> DEFINE l == SubSeq(s, 1, i - 1)
           m == SubSeq(s, i + 1, Len(s))
<1>1. Len(s) \in Nat /\ DOMAIN s = 1..Len(s) /\ i \in 1..Len(s)
  BY DEF IsList
<1>2. l \in Seq(ToSet(s)) /\ Len(l) = i - 1 /\ \A j \in 1..(i - 1) : l[j] = s[j]
  BY <1>1 DEF IsList
<1>3. m \in Seq(ToSet(s)) /\ Len(m) = Len(s) - i /\ \A j \in 1..(Len(s) - i) : m[j] = s[i + j]
  BY <1>1 DEF IsList
<1> HIDE DEF l, m
<1>4. l \o m \in Seq(ToSet(s)) /\ Len(l \o m) = Len(s) - 1
  <2>1. l \o m \in Seq(ToSet(s))
    BY <1>2, <1>3
  <2>2. Len(l \o m) = Len(l) + Len(m)
    BY <1>2, <1>3, ConcatProperties
  <2> QED
    BY <1>1, <1>2, <1>3, <2>1, <2>2
<1>5. \A j \in 1..(Len(s) - 1) : (l \o m)[j] = IF j < i THEN s[j] ELSE s[j + 1]
  <2> DEFINE n == Len(s)
  <2>1. n \in Nat /\ i \in 1..n /\ Len(l) = i - 1 /\ Len(m) = n - i
    BY <1>1, <1>2, <1>3
  <2>2. \A j \in 1..(Len(l) + Len(m)) : (l \o m)[j] = IF j <= Len(l) THEN l[j] ELSE m[j - Len(l)]
    BY <1>2, <1>3, ConcatProperties
  <2> HIDE DEF n
  <2> SUFFICES ASSUME NEW j \in 1..(n - 1) PROVE (l \o m)[j] = IF j < i THEN s[j] ELSE s[j + 1]
    BY DEF n
  <2>3. (l \o m)[j] = IF j <= i - 1 THEN l[j] ELSE m[j - (i - 1)]
    BY <2>1, <2>2
  <2>4. CASE j < i
    BY <1>2, <2>1, <2>3, <2>4
  <2>5. CASE ~(j < i)
    <3>1. j - (i - 1) \in 1..(n - i) /\ i + (j - (i - 1)) = j + 1 /\ ~(j <= i - 1)
      BY <2>1, <2>5
    <3> QED
      BY <1>3, <2>3, <2>5, <3>1 DEF n
  <2> QED
    BY <2>4, <2>5
<1>6. RemoveAt(s, i) = l \o m
  BY DEF RemoveAt, l, m
<1>7. IsList(l \o m)
  BY <1>4, Lists
<1>8. DOMAIN (l \o m) = 1..(Len(s) - 1)
  BY <1>4
<1> QED
  BY <1>4, <1>5, <1>6, <1>7, <1>8

LEMMA FirstOf ==
  ASSUME NEW s, IsList(s), NEW n \in Nat
  PROVE  /\ IsList(First(n, s)) /\ Len(s) \in Nat
         /\ Len(First(n, s)) = (IF n < Len(s) THEN n ELSE Len(s))
         /\ n >= Len(s) => First(n, s) = s
         /\ \A i \in 1..Len(First(n, s)) : First(n, s)[i] = s[i]
<1> DEFINE m == IF n < Len(s) THEN n ELSE Len(s)
<1>1. Len(s) \in Nat /\ m \in 0..Len(s)
  BY DEF IsList
<1>2. SubSeq(s, 1, m) \in Seq(ToSet(s)) /\ Len(SubSeq(s, 1, m)) = m /\ \A i \in 1..m : SubSeq(s, 1, m)[i] = s[i]
  BY <1>1 DEF IsList
<1>3. m = Len(s) => SubSeq(s, 1, m) = s
  BY <1>1, <1>2 DEF IsList
<1>4. First(n, s) = SubSeq(s, 1, m)
  BY DEF First
<1>5. IsList(SubSeq(s, 1, m))
  BY <1>2, Lists
<1> HIDE DEF m
<1>6. m = IF n < Len(s) THEN n ELSE Len(s)
  BY DEF m
<1> QED
  BY <1>1, <1>2, <1>3, <1>4, <1>5, <1>6

-----------------------------------------------------------------------------
(* What a query lists.  R holds <<f, g>> where f goes before g.               *)

Strict(S, R) ==
  /\ \A f \in S : <<f, f>> \notin R
  /\ \A f, g \in S : f = g \/ <<f, g>> \in R \/ <<g, f>> \in R
  /\ \A f, g, h \in S : <<f, g>> \in R /\ <<g, h>> \in R => <<f, h>> \in R

Above(f, S, R) == Cardinality({g \in S : <<g, f>> \in R})

\* s has on its i-th place a row with i - 1 others before it, if there is one.
Sorts(s, S, R) ==
  /\ s = [i \in 1..Cardinality(S) |-> s[i]]
  /\ \A i \in 1..Cardinality(S) :
       (\E f \in S : Above(f, S, R) = i - 1) => s[i] \in S /\ Above(s[i], S, R) = i - 1

\* A list of the n of S that go before the others, each once and in their order.
Best(l, S, R, n) ==
  /\ IsList(l) /\ ToSet(l) \subseteq S
  /\ Len(l) = (IF n < Cardinality(S) THEN n ELSE Cardinality(S))
  /\ \A i, j \in 1..Len(l) : i < j => <<l[i], l[j]>> \in R
  /\ \A f \in S \ ToSet(l) : \A i \in 1..Len(l) : <<l[i], f>> \in R
  /\ n >= Cardinality(S) => ToSet(l) = S

LEMMA FewerInPart ==
  ASSUME NEW Q, IsFiniteSet(Q), NEW P \in SUBSET Q, NEW x \in Q, x \notin P
  PROVE  Cardinality(P) \in Nat /\ Cardinality(Q) \in Nat /\ Cardinality(P) < Cardinality(Q)
<1>1. Cardinality(P) \in Nat /\ Cardinality(Q) \in Nat
  BY FS_Subset, FS_CardinalityType
<1>2. Cardinality(P) <= Cardinality(Q) /\ Cardinality(P) # Cardinality(Q)
  BY FS_Subset
<1> QED
  BY <1>1, <1>2

\* Every row of a finite set has its own number of others before it.
LEMMA AboveCounts ==
  ASSUME NEW S, IsFiniteSet(S), NEW R, Strict(S, R), NEW f \in S
  PROVE  /\ Above(f, S, R) \in 0..(Cardinality(S) - 1)
         /\ \A g \in S : <<g, f>> \in R => Above(g, S, R) < Above(f, S, R)
<1> DEFINE Q == {g \in S : <<g, f>> \in R}
<1>1. Q \subseteq S /\ f \notin Q /\ IsFiniteSet(Q)
  BY FS_Subset DEF Strict
<1>2. Cardinality(Q) \in Nat /\ Cardinality(S) \in Nat /\ Cardinality(Q) < Cardinality(S)
  BY <1>1, FewerInPart
<1>3. ASSUME NEW g \in S, <<g, f>> \in R PROVE Above(g, S, R) < Above(f, S, R)
  <2> DEFINE P == {h \in S : <<h, g>> \in R}
  <2>1. P \subseteq Q /\ g \in Q /\ g \notin P
    BY <1>3 DEF Strict
  <2>2. Cardinality(P) < Cardinality(Q)
    BY <1>1, <2>1, FewerInPart
  <2> QED
    BY <2>2 DEF Above
<1>4. Above(f, S, R) = Cardinality(Q)
  BY DEF Above
<1> HIDE DEF Q
<1> QED
  BY <1>2, <1>3, <1>4

\* The order is built without loss: every place of it is taken.
LEMMA SortedLists ==
  ASSUME NEW S, IsFiniteSet(S), NEW R, Strict(S, R), NEW s, Sorts(s, S, R)
  PROVE  /\ IsList(s) /\ Len(s) = Cardinality(S)
         /\ \A i \in 1..Cardinality(S) : s[i] \in S
         /\ \A f \in S : \E i \in 1..Cardinality(S) : s[i] = f
         /\ \A i, j \in 1..Cardinality(S) : i < j => <<s[i], s[j]>> \in R
<1> DEFINE n == Cardinality(S)
           above == [f \in S |-> Above(f, S, R)]
<1>1. n \in Nat
  BY FS_CardinalityType
<1>2. \A f \in S : above[f] \in 0..(n - 1) /\ above[f] = Above(f, S, R)
  BY AboveCounts
<1>3. \A f, g \in S : <<f, g>> \in R => above[f] < above[g]
  BY AboveCounts
<1> HIDE DEF above
<1>4. ASSUME NEW f \in S, NEW g \in S, above[f] = above[g] PROVE f = g
  <2>1. above[f] \in Int /\ above[g] \in Int
    BY <1>2
  <2>2. <<f, g>> \notin R /\ <<g, f>> \notin R
    BY <1>3, <1>4, <2>1
  <2> QED
    BY <2>2 DEF Strict
<1>5. IsFiniteSet(0..(n - 1)) /\ Cardinality(0..(n - 1)) = n
  <2>1. 0 \in Int /\ n - 1 \in Int /\ (IF 0 > n - 1 THEN 0 ELSE n - 1 - 0 + 1) = n
    BY <1>1
  <2> QED
    BY <2>1, FS_Interval
<1>6. above \in Surjection(S, 0..(n - 1))
  <2>1. above \in [S -> 0..(n - 1)]
    BY <1>2 DEF above
  <2>2. above \in Injection(S, 0..(n - 1))
    BY <2>1, <1>4, Fun_IsInj
  <2> QED
    BY <2>2, <1>5, FS_Injection
<1>7. s = [i \in 1..n |-> s[i]]
  BY DEF Sorts
<1>8. ASSUME NEW i \in 1..n PROVE s[i] \in S /\ above[s[i]] = i - 1
  <2>1. \E f \in S : above[f] = i - 1
    BY <1>1, <1>6 DEF Surjection
  <2>2. \E f \in S : Above(f, S, R) = i - 1
    BY <1>2, <2>1
  <2>3. s[i] \in S /\ Above(s[i], S, R) = i - 1
    BY <2>2 DEF Sorts
  <2> QED
    BY <1>2, <2>3
<1>9. IsList(s) /\ Len(s) = n
  BY <1>1, <1>7, Builds
<1>10. ASSUME NEW f \in S PROVE \E i \in 1..n : s[i] = f
  <2>1. above[f] + 1 \in 1..n
    BY <1>1, <1>2
  <2>2. s[above[f] + 1] \in S /\ above[s[above[f] + 1]] = above[f]
    BY <1>2, <1>8, <2>1
  <2> QED
    BY <1>4, <2>1, <2>2
<1>11. ASSUME NEW i \in 1..n, NEW j \in 1..n, i < j PROVE <<s[i], s[j]>> \in R
  <2>1. s[i] \in S /\ s[j] \in S /\ above[s[i]] = i - 1 /\ above[s[j]] = j - 1
    BY <1>8
  <2>2. ~(j - 1 < i - 1) /\ i - 1 # j - 1
    BY <1>1, <1>11
  <2>3. <<s[j], s[i]>> \notin R /\ s[i] # s[j]
    BY <1>3, <2>1, <2>2
  <2> QED
    BY <2>1, <2>3 DEF Strict
<1> HIDE DEF n, above
<1>12. /\ \A i \in 1..n : s[i] \in S
       /\ \A f \in S : \E i \in 1..n : s[i] = f
       /\ \A i, j \in 1..n : i < j => <<s[i], s[j]>> \in R
  BY <1>8, <1>10, <1>11
<1> USE DEF n
<1> QED
  BY <1>9, <1>12, Zenon

\* The first n of it are the best.
LEMMA FirstAreBest ==
  ASSUME NEW S, IsFiniteSet(S), NEW R, Strict(S, R), NEW s, Sorts(s, S, R), NEW n \in Nat
  PROVE  Best(First(n, s), S, R, n)
<1> DEFINE l == First(n, s)
           k == Cardinality(S)
<1>1. /\ IsList(s) /\ Len(s) = k /\ \A i \in 1..k : s[i] \in S
      /\ \A f \in S : \E i \in 1..k : s[i] = f
      /\ \A i, j \in 1..k : i < j => <<s[i], s[j]>> \in R
  BY SortedLists
<1> HIDE DEF k
<1>2. /\ IsList(l) /\ k \in Nat /\ Len(l) = (IF n < k THEN n ELSE k) /\ (n >= k => l = s)
      /\ \A i \in 1..Len(l) : l[i] = s[i]
  BY <1>1, FirstOf
<1> HIDE DEF l
<1>3. /\ DOMAIN l = 1..Len(l) /\ Len(l) \in Nat /\ \A i \in 1..Len(l) : i \in 1..k
      /\ \A i \in 1..k : i \in 1..Len(l) \/ (Len(l) < i)
  BY <1>2 DEF IsList
<1>4. ToSet(l) \subseteq S
  BY <1>1, <1>2, <1>3 DEF ToSet
<1>5. \A f \in S \ ToSet(l) : \E j \in 1..k : s[j] = f /\ Len(l) < j
  BY <1>1, <1>2, <1>3 DEF ToSet
<1>6. \A f \in S \ ToSet(l) : \A i \in 1..Len(l) : <<l[i], f>> \in R
  <2> SUFFICES ASSUME NEW f \in S \ ToSet(l), NEW i \in 1..Len(l) PROVE <<l[i], f>> \in R
    OBVIOUS
  <2>1. PICK j \in 1..k : s[j] = f /\ Len(l) < j
    BY <1>5
  <2>2. i \in 1..k /\ i < j
    BY <1>2, <1>3, <2>1
  <2> QED
    BY <1>1, <1>2, <2>1, <2>2
<1>7. \A i, j \in 1..Len(l) : i < j => <<l[i], l[j]>> \in R
  BY <1>1, <1>2, <1>3
<1>8. n >= k => ToSet(l) = S
  BY <1>1, <1>2, <1>3, <1>4 DEF ToSet
<1> QED
  BY <1>2, <1>4, <1>6, <1>7, <1>8 DEF Best, l, k

-----------------------------------------------------------------------------

USE SearchQueriesAssumption, SearchDialogAssumption

LEMMA ChangesAreAList ==
  ASSUME NEW words, NEW K \in SUBSET Logs, NEW n \in Nat
  PROVE  IsList(QueryChanges(words, K, n)) /\ QueryChanges(words, {}, n) = <<>>
<1> DEFINE S == {c \in K : InARow(Log[c].words, words)}
<1>1. IsFiniteSet(S) /\ Cardinality(S) \in Nat
  BY FS_Subset, FS_CardinalityType
<1>2. IsList(Latest(S))
  BY <1>1, Builds DEF Latest, InOrder
<1>3. IsList(QueryChanges(words, K, n))
  <2>1. IsList(<<>>)
    BY DEF IsList
  <2>2. IsList(First(n, Latest(S)))
    BY <1>2, FirstOf
  <2> QED
    BY <2>1, <2>2 DEF QueryChanges
<1>4. Latest({}) = <<>>
  BY FS_EmptySet DEF Latest, InOrder
<1>5. QueryChanges(words, {}, n) = <<>>
  BY <1>4 DEF QueryChanges, First
<1> QED
  BY <1>3, <1>5

\* Every answer is a list, and what a worker does not know of the changelists it fetches.
LEMMA RankedIsAList ==
  ASSUME NEW S, IsFiniteSet(S), NEW words, NEW n \in Nat
  PROVE  IsList(LeafFirst(S, words, n)) /\ IsList(MostHits(S, words, n))
<1> DEFINE l == InOrder(S, LAMBDA f, g :
                  InLeaf(words, f) > InLeaf(words, g)
                    \/ (InLeaf(words, f) = InLeaf(words, g) /\ Row[f].time > Row[g].time))
           m == InOrder(S, LAMBDA f, g :
                  LeafHits(words, f) > LeafHits(words, g)
                    \/ (LeafHits(words, f) = LeafHits(words, g) /\ Row[f].time > Row[g].time))
<1>1. Cardinality(S) \in Nat
  BY FS_CardinalityType
<1>2. IsList(l)
  BY <1>1, Builds DEF InOrder
<1>3. IsList(m)
  BY <1>1, Builds DEF InOrder
<1>4. LeafFirst(S, words, n) = First(n, l)
  BY DEF LeafFirst, Ranked
<1>5. MostHits(S, words, n) = First(n, m)
  BY DEF MostHits, Ranked
<1> HIDE DEF l, m
<1> QED
  BY <1>2, <1>3, <1>4, <1>5, FirstOf

LEMMA FilesAreAList ==
  ASSUME NEW q, NEW n \in Nat
  PROVE  IsList(Files1(q, n))
<1>1. IsList(<<>>)
  BY DEF IsList
<1>2. \A S \in SUBSET Files : \A m : IsFiniteSet(S) /\ IsFiniteSet(Slab(S, m)) /\ Slab(S, m) \subseteq Files
  BY FS_Subset DEF Slab
<1>3. IsList(QueryFiles(q.words, n))
  BY <1>1, <1>2, RankedIsAList DEF QueryFiles, Shown
<1>4. IsList(QueryFilesLoose(q.words, n))
  BY <1>1, <1>2, RankedIsAList DEF QueryFilesLoose, Shown
<1>5. IsList(QueryFilesFiltered(q, n))
  <2> DEFINE found == {f \in Shown : /\ InARow(Path(f), q.words)
                                     /\ q.user # "" => Row[f].user = q.user
                                     /\ q.type # "" => Row[f].type = q.type}
             S == {f \in Slab(found, 3 * n) : q.regex # <<>> => InARow(Path(f), q.regex)}
  <2>1. found \subseteq Files
    BY DEF Shown
  <2>2. IsFiniteSet(S)
    <3>1. IsFiniteSet(Slab(found, 3 * n))
      BY <1>2, <2>1
    <3> QED
      BY <3>1, FS_Subset
  <2>3. QueryFilesFiltered(q, n) = LeafFirst(S, q.words, n)
    BY DEF QueryFilesFiltered
  <2> HIDE DEF found, S
  <2> QED
    BY <2>2, <2>3, RankedIsAList
<1> QED
  BY <1>3, <1>4, <1>5 DEF Files1

LEMMA AnswerIsAList ==
  ASSUME NEW q, NEW K \in {{}, Logs}, NEW n \in Nat
  PROVE  IsList(Answer(q, K, n)) /\ Answer(q, K, n) = Answer(q, Logs, n)
<1>1. Changelists1(q, K, n) = Changelists1(q, Logs, n) /\ IsList(Changelists1(q, K, n))
  BY ChangesAreAList DEF Changelists1, Seeds, QueryChanges
<1>2. NlChangelists(q, K, n) = NlChangelists(q, Logs, n)
  BY <1>1 DEF NlChangelists
<1>3. IsList(NlChangelists(q, K, n))
  <2> DEFINE S == {c \in Logs : /\ c \in ToSet(Changelists1(q, K, n)) /\ InWindow(q, Log[c].time)
                                /\ q.user # "" => Log[c].user = q.user}
  <2>1. IsFiniteSet(S) /\ Cardinality(S) \in Nat
    BY FS_Subset, FS_CardinalityType
  <2>2. NlChangelists(q, K, n) = Latest(S)
    BY DEF NlChangelists
  <2> HIDE DEF S
  <2> QED
    BY <2>1, <2>2, Builds DEF Latest, InOrder
<1>4. IsList(NlFiles(q, n))
  <2> DEFINE S == {f \in Files : f \in ToSet(QueryFilesFiltered([q EXCEPT !.regex = <<>>], n)) /\ InWindow(q, Row[f].time)}
  <2>1. IsFiniteSet(S)
    BY FS_Subset
  <2>2. NlFiles(q, n) = LeafFirst(S, q.words, n)
    BY DEF NlFiles
  <2> HIDE DEF S
  <2> QED
    BY <2>1, <2>2, RankedIsAList
<1>5. IsList(<<>>)
  BY DEF IsList
<1> QED
  BY <1>1, <1>2, <1>3, <1>4, <1>5, FilesAreAList DEF Answer


-----------------------------------------------------------------------------
(* The orders of the answers.                                              *)

\* Higher ranks first, then the newer file; and the newer changelist first.
Higher(r, t, q, u) == r > q \/ (r = q /\ t > u)

RankedBy(rank) ==
  {e \in Files \X Files : Higher(rank[e[1]], Row[e[1]].time, rank[e[2]], Row[e[2]].time)}

NameFirst(words)  == RankedBy([f \in Files |-> InLeaf(words, f)])
MoreInName(words) == RankedBy([f \in Files |-> LeafHits(words, f)])
NewerFirst        == {e \in Logs \X Logs : Log[e[1]].time > Log[e[2]].time}

LEMMA Lexically ==
  ASSUME NEW r \in Nat, NEW q \in Nat, NEW v \in Nat, NEW t \in Int, NEW u \in Int, NEW w \in Int
  PROVE  /\ ~Higher(r, t, r, t)
         /\ Higher(r, t, q, u) \/ Higher(q, u, r, t) \/ (r = q /\ t = u)
         /\ Higher(r, t, q, u) /\ Higher(q, u, v, w) => Higher(r, t, v, w)
BY DEF Higher

LEMMA RanksAreStrict ==
  ASSUME NEW S \in SUBSET Files, NEW rank \in [Files -> Nat]
  PROVE  IsFiniteSet(S) /\ Strict(S, RankedBy(rank))
<1>1. \A f, g \in S : <<f, g>> \in RankedBy(rank) <=> Higher(rank[f], Row[f].time, rank[g], Row[g].time)
  BY DEF RankedBy
<1>2. \A f \in S : rank[f] \in Nat /\ Row[f].time \in Int
  OBVIOUS
<1>3. \A f, g \in S : Row[f].time = Row[g].time => f = g
  OBVIOUS
<1>4. \A f \in S : <<f, f>> \notin RankedBy(rank)
  BY <1>1, <1>2, Lexically
<1>5. ASSUME NEW f \in S, NEW g \in S
      PROVE  f = g \/ <<f, g>> \in RankedBy(rank) \/ <<g, f>> \in RankedBy(rank)
  <2>1. /\ rank[f] \in Nat /\ Row[f].time \in Int
        /\ rank[g] \in Nat /\ Row[g].time \in Int
    BY <1>2
  <2>2. \/ Higher(rank[f], Row[f].time, rank[g], Row[g].time)
        \/ Higher(rank[g], Row[g].time, rank[f], Row[f].time)
        \/ Row[f].time = Row[g].time
    BY ONLY <2>1, Lexically
  <2> QED
    BY ONLY <1>1, <1>3, <2>2
<1>6. ASSUME NEW f \in S, NEW g \in S, NEW h \in S,
             <<f, g>> \in RankedBy(rank), <<g, h>> \in RankedBy(rank)
      PROVE  <<f, h>> \in RankedBy(rank)
  <2>1. /\ Higher(rank[f], Row[f].time, rank[g], Row[g].time)
        /\ Higher(rank[g], Row[g].time, rank[h], Row[h].time)
    BY <1>1, <1>6
  <2>2. Higher(rank[f], Row[f].time, rank[h], Row[h].time)
    BY <1>2, <2>1, Lexically
  <2> QED
    BY <1>1, <2>2
<1>7. IsFiniteSet(S)
  BY FS_Subset
<1> QED
  BY <1>4, <1>5, <1>6, <1>7 DEF Strict

\* A ranked answer lists the first rows, in their order.
LEMMA LeafFirstIsBest ==
  ASSUME NEW S \in SUBSET Files, NEW words, NEW n \in Nat
  PROVE  Best(LeafFirst(S, words, n), S, NameFirst(words), n)
<1> DEFINE l == InOrder(S, LAMBDA f, g :
                  InLeaf(words, f) > InLeaf(words, g)
                    \/ (InLeaf(words, f) = InLeaf(words, g) /\ Row[f].time > Row[g].time))
           R == NameFirst(words)
           Better(f) == {g \in S : InLeaf(words, g) > InLeaf(words, f)
                                  \/ (InLeaf(words, g) = InLeaf(words, f) /\ Row[g].time > Row[f].time)}
           C(i) == CHOOSE f \in S : Cardinality(Better(f)) = i - 1
<1>1. \A f, g \in S : <<g, f>> \in R <=> g \in Better(f)
  BY DEF NameFirst, RankedBy, Higher
<1>0. \A f \in S : Better(f) \subseteq S
  OBVIOUS
<1>2. IsFiniteSet(S) /\ Strict(S, R)
  <2>1. [f \in Files |-> InLeaf(words, f)] \in [Files -> Nat]
    BY DEF InLeaf
  <2> QED
    BY <2>1, RanksAreStrict DEF NameFirst
<1> HIDE DEF R, Better
<1>3. ASSUME NEW f \in S PROVE Above(f, S, R) = Cardinality(Better(f))
  <2>1. {g \in S : <<g, f>> \in R} = Better(f)
    BY <1>0, <1>1
  <2> QED
    BY <2>1 DEF Above
<1>4. l = [i \in 1..Cardinality(S) |-> C(i)]
  BY DEF InOrder, Better
<1>5. ASSUME NEW i, NEW f \in S, Above(f, S, R) = i - 1 PROVE C(i) \in S /\ Above(C(i), S, R) = i - 1
  <2>1. C(i) \in S /\ Cardinality(Better(C(i))) = i - 1
    BY <1>3, <1>5
  <2> QED
    BY <1>3, <2>1
<1> HIDE DEF C
<1>6. LeafFirst(S, words, n) = First(n, l)
  BY DEF LeafFirst, Ranked
<1> HIDE DEF l
<1>7. Sorts(l, S, R)
  BY <1>4, <1>5 DEF Sorts
<1> QED
  BY <1>2, <1>6, <1>7, FirstAreBest DEF R

LEMMA MostHitsIsBest ==
  ASSUME NEW S \in SUBSET Files, NEW words, NEW n \in Nat, IsList(words)
  PROVE  Best(MostHits(S, words, n), S, MoreInName(words), n)
<1> DEFINE l == InOrder(S, LAMBDA f, g :
                  LeafHits(words, f) > LeafHits(words, g)
                    \/ (LeafHits(words, f) = LeafHits(words, g) /\ Row[f].time > Row[g].time))
           R == MoreInName(words)
           Better(f) == {g \in S : LeafHits(words, g) > LeafHits(words, f)
                                  \/ (LeafHits(words, g) = LeafHits(words, f) /\ Row[g].time > Row[f].time)}
           C(i) == CHOOSE f \in S : Cardinality(Better(f)) = i - 1
<1>1. \A f, g \in S : <<g, f>> \in R <=> g \in Better(f)
  BY DEF MoreInName, RankedBy, Higher
<1>0. \A f \in S : Better(f) \subseteq S
  OBVIOUS
<1>2. IsFiniteSet(S) /\ Strict(S, R)
  <2>1. ASSUME NEW f \in Files PROVE LeafHits(words, f) \in Nat
    <3>1. IsFiniteSet(DOMAIN words)
      <4>1. DOMAIN words = 1..Len(words) /\ Len(words) \in Nat
        BY DEF IsList
      <4> QED
        BY <4>1, FS_Interval
    <3> QED
      BY <3>1, FS_Subset, FS_CardinalityType DEF LeafHits
  <2>2. [f \in Files |-> LeafHits(words, f)] \in [Files -> Nat]
    BY <2>1
  <2> QED
    BY <2>2, RanksAreStrict DEF MoreInName
<1> HIDE DEF R, Better
<1>3. ASSUME NEW f \in S PROVE Above(f, S, R) = Cardinality(Better(f))
  <2>1. {g \in S : <<g, f>> \in R} = Better(f)
    BY <1>0, <1>1
  <2> QED
    BY <2>1 DEF Above
<1>4. l = [i \in 1..Cardinality(S) |-> C(i)]
  BY DEF InOrder, Better
<1>5. ASSUME NEW i, NEW f \in S, Above(f, S, R) = i - 1 PROVE C(i) \in S /\ Above(C(i), S, R) = i - 1
  <2>1. C(i) \in S /\ Cardinality(Better(C(i))) = i - 1
    BY <1>3, <1>5
  <2> QED
    BY <1>3, <2>1
<1> HIDE DEF C
<1>6. MostHits(S, words, n) = First(n, l)
  BY DEF MostHits, Ranked
<1> HIDE DEF l
<1>7. Sorts(l, S, R)
  BY <1>4, <1>5 DEF Sorts
<1> QED
  BY <1>2, <1>6, <1>7, FirstAreBest DEF R

\* The newest changelists first.
LEMMA LatestAreBest ==
  ASSUME NEW S \in SUBSET Logs, NEW n \in Nat
  PROVE  Best(First(n, Latest(S)), S, NewerFirst, n)
<1> DEFINE Better(f) == {g \in S : Log[g].time > Log[f].time}
           C(i) == CHOOSE f \in S : Cardinality(Better(f)) = i - 1
           l == Latest(S)
<1>1. /\ \A f, g \in S : <<g, f>> \in NewerFirst <=> g \in Better(f)
      /\ \A f \in S : Better(f) \subseteq S
  BY DEF NewerFirst
<1>2. IsFiniteSet(S) /\ Strict(S, NewerFirst)
  <2>1. \A f \in S : Log[f].time \in Int /\ \A g \in S : Log[f].time = Log[g].time => f = g
    OBVIOUS
  <2>2. \A f, g \in S : <<f, g>> \in NewerFirst <=> Log[f].time > Log[g].time
    BY DEF NewerFirst
  <2>3. ASSUME NEW f \in S, NEW g \in S PROVE f = g \/ <<f, g>> \in NewerFirst \/ <<g, f>> \in NewerFirst
    <3>1. Log[f].time \in Int /\ Log[g].time \in Int
      BY <2>1
    <3>2. Log[f].time > Log[g].time \/ Log[g].time > Log[f].time \/ Log[f].time = Log[g].time
      BY ONLY <3>1
    <3> QED
      BY ONLY <2>1, <2>2, <3>2
  <2>4. ASSUME NEW f \in S PROVE <<f, f>> \notin NewerFirst
    BY <2>1, <2>2
  <2>5. ASSUME NEW f \in S, NEW g \in S, NEW h \in S, <<f, g>> \in NewerFirst, <<g, h>> \in NewerFirst
        PROVE  <<f, h>> \in NewerFirst
    <3>1. Log[f].time \in Int /\ Log[g].time \in Int /\ Log[h].time \in Int
      BY <2>1
    <3>2. Log[f].time > Log[g].time /\ Log[g].time > Log[h].time
      BY <2>2, <2>5
    <3>3. Log[f].time > Log[h].time
      BY ONLY <3>1, <3>2
    <3> QED
      BY <2>2, <3>3
  <2> QED
    BY <2>3, <2>4, <2>5, FS_Subset DEF Strict
<1> HIDE DEF Better
<1>3. ASSUME NEW f \in S PROVE Above(f, S, NewerFirst) = Cardinality(Better(f))
  <2>1. {g \in S : <<g, f>> \in NewerFirst} = Better(f)
    BY <1>1
  <2> QED
    BY <2>1 DEF Above
<1>4. l = [i \in 1..Cardinality(S) |-> C(i)]
  BY DEF Latest, InOrder, Better
<1>5. ASSUME NEW i, NEW f \in S, Above(f, S, NewerFirst) = i - 1
      PROVE  C(i) \in S /\ Above(C(i), S, NewerFirst) = i - 1
  <2>1. C(i) \in S /\ Cardinality(Better(C(i))) = i - 1
    BY <1>3, <1>5
  <2> QED
    BY <1>3, <2>1
<1> HIDE DEF C, l
<1>6. Sorts(l, S, NewerFirst)
  BY <1>4, <1>5 DEF Sorts
<1> QED
  BY <1>2, <1>6, FirstAreBest DEF l

\* The slab is of the newest rows, and all of them when there are not more.
LEMMA SlabIsNewest ==
  ASSUME NEW S \in SUBSET Files, NEW n \in Nat
  PROVE  /\ Slab(S, n) \subseteq S
         /\ \A f \in S \ Slab(S, n) : \A g \in Slab(S, n) : Row[g].time > Row[f].time
         /\ Cardinality(S) <= n => Slab(S, n) = S
<1> DEFINE Newest(f) == {g \in S : Row[g].time > Row[f].time}
<1>1. /\ IsFiniteSet(S) /\ Cardinality(S) \in Nat
      /\ \A f \in S : Newest(f) \subseteq S /\ f \notin Newest(f) /\ IsFiniteSet(Newest(f))
      /\ \A f \in S : Row[f].time \in Int
  BY FS_Subset, FS_CardinalityType
<1>2. ASSUME NEW f \in S, NEW g \in S, ~(Row[g].time > Row[f].time) PROVE Newest(f) \subseteq Newest(g)
  BY <1>1, <1>2
<1>3. \A f : f \in Slab(S, n) <=> f \in S /\ Cardinality(Newest(f)) < n
  BY DEF Slab
<1> HIDE DEF Newest
<1>4. ASSUME NEW f \in S \ Slab(S, n), NEW g \in Slab(S, n) PROVE Row[g].time > Row[f].time
  <2>1. SUFFICES ASSUME ~(Row[g].time > Row[f].time) PROVE FALSE
    OBVIOUS
  <2>2. f \in S /\ g \in S /\ Newest(f) \subseteq Newest(g) /\ IsFiniteSet(Newest(g)) /\ IsFiniteSet(Newest(f))
    BY <1>1, <1>2, <1>3, <2>1
  <2>3. /\ Cardinality(Newest(f)) <= Cardinality(Newest(g))
        /\ Cardinality(Newest(f)) \in Nat /\ Cardinality(Newest(g)) \in Nat
    BY <2>2, FS_Subset, FS_CardinalityType
  <2> QED
    BY <1>3, <2>2, <2>3
<1>5. ASSUME Cardinality(S) <= n, NEW f \in S PROVE f \in Slab(S, n)
  <2>1. /\ Cardinality(Newest(f)) \in Nat /\ Cardinality(S) \in Nat
        /\ Cardinality(Newest(f)) < Cardinality(S)
    BY <1>1, FewerInPart
  <2> QED
    BY <1>3, <1>5, <2>1
<1> QED
  BY <1>3, <1>4, <1>5

\* An answer of what was found: the first of the newest, and all when they fit.
Finds(l, found, R, wide, limit) ==
  /\ Best(l, Slab(found, wide), R, limit)
  /\ \A f \in found \ Slab(found, wide) : \A g \in ToSet(l) : Row[g].time > Row[f].time
  /\ Cardinality(found) <= limit => ToSet(l) = found

LEMMA BestFinds ==
  ASSUME NEW found \in SUBSET Files, NEW R, NEW l, NEW wide \in Nat, NEW limit \in Nat, wide >= limit,
         Best(l, Slab(found, wide), R, limit)
  PROVE  Finds(l, found, R, wide, limit)
<1>1. /\ Slab(found, wide) \subseteq found
      /\ \A f \in found \ Slab(found, wide) : \A g \in Slab(found, wide) : Row[g].time > Row[f].time
      /\ Cardinality(found) <= wide => Slab(found, wide) = found
  BY SlabIsNewest
<1>2. ToSet(l) \subseteq Slab(found, wide)
  BY DEF Best
<1>3. Cardinality(found) \in Nat
  BY FS_Subset, FS_CardinalityType
<1>4. ASSUME Cardinality(found) <= limit PROVE ToSet(l) = found
  <2>1. Slab(found, wide) = found
    BY <1>1, <1>3, <1>4
  <2> QED
    BY <1>3, <1>4, <2>1 DEF Best
<1>5. \A f \in found \ Slab(found, wide) : \A g \in ToSet(l) : Row[g].time > Row[f].time
  BY <1>1, <1>2
<1> QED
  BY <1>4, <1>5 DEF Finds

\* What a query finds in the rows of the index.
Containing(words) == {f \in Shown : InARow(Path(f), words)}
Mentioning(words) == {f \in Shown : ToSet(words) \subseteq ToSet(Path(f))}
Filtering(q) ==
  {f \in Containing(q.words) : /\ q.user # "" => Row[f].user = q.user
                               /\ q.type # "" => Row[f].type = q.type}
Matched(q, S) == {f \in S : q.regex # <<>> => InARow(Path(f), q.regex)}

\* The files that contain the words are listed, those with the words in the name first and
\* the newer before the older; what the limit leaves out goes after what is listed, or is
\* older than the newest 5 * limit; nothing is left out when all fit (query_files).
THEOREM FilesFound ==
  ASSUME NEW words, words # <<>>, NEW limit \in Nat
  PROVE  Finds(QueryFiles(words, limit), Containing(words), NameFirst(words), 5 * limit, limit)
<1>1. Containing(words) \in SUBSET Files
  BY DEF Containing, Shown
<1>2. Slab(Containing(words), 5 * limit) \in SUBSET Files
  BY <1>1 DEF Slab
<1>3. QueryFiles(words, limit) = LeafFirst(Slab(Containing(words), 5 * limit), words, limit)
  BY DEF QueryFiles, Containing
<1> QED
  BY <1>1, <1>2, <1>3, LeafFirstIsBest, BestFinds

\* The same of the loose query, where the files with more of the words in the name go
\* first (query_files_loose).
THEOREM LooselyFound ==
  ASSUME NEW words, IsList(words), words # <<>>, NEW limit \in Nat
  PROVE  Finds(QueryFilesLoose(words, limit), Mentioning(words), MoreInName(words), 5 * limit, limit)
<1>1. Mentioning(words) \in SUBSET Files
  BY DEF Mentioning, Shown
<1>2. Slab(Mentioning(words), 5 * limit) \in SUBSET Files
  BY <1>1 DEF Slab
<1>3. QueryFilesLoose(words, limit) = MostHits(Slab(Mentioning(words), 5 * limit), words, limit)
  BY DEF QueryFilesLoose, Mentioning
<1> QED
  BY <1>1, <1>2, <1>3, MostHitsIsBest, BestFinds

\* With filters the regular expression is tried on the newest 3 * limit rows only: of
\* those that match the first are listed, and every match is listed if all the rows were
\* tried and the matches fit (query_files_filtered).
THEOREM FilteredFound ==
  ASSUME NEW q, NEW limit \in Nat
  PROVE  LET every == Filtering(q)
             l     == QueryFilesFiltered(q, limit)
         IN  /\ Best(l, Matched(q, Slab(every, 3 * limit)), NameFirst(q.words), limit)
             /\ \A f \in every \ Slab(every, 3 * limit) : \A g \in ToSet(l) : Row[g].time > Row[f].time
             /\ /\ Cardinality(every) <= 3 * limit
                /\ Cardinality(Matched(q, every)) <= limit
                => ToSet(l) = Matched(q, every)
<1> DEFINE every == Filtering(q)
           l     == QueryFilesFiltered(q, limit)
           slab  == Slab(every, 3 * limit)
           S     == Matched(q, slab)
<1>1. every \in SUBSET Files
  BY DEF Filtering, Containing, Shown
<1>2. l = LeafFirst(S, q.words, limit)
  <2> DEFINE found == {f \in Shown : /\ InARow(Path(f), q.words)
                                     /\ q.user # "" => Row[f].user = q.user
                                     /\ q.type # "" => Row[f].type = q.type}
  <2>1. found = every
    BY DEF Filtering, Containing
  <2>2. l = LeafFirst(Matched(q, Slab(found, 3 * limit)), q.words, limit)
    BY DEF QueryFilesFiltered, Matched
  <2> HIDE DEF found, every, l
  <2> QED
    BY <2>1, <2>2
<1> HIDE DEF every, l, S
<1>3. /\ slab \subseteq every
      /\ \A f \in every \ slab : \A g \in slab : Row[g].time > Row[f].time
      /\ Cardinality(every) <= 3 * limit => slab = every
  <2>1. 3 * limit \in Nat
    OBVIOUS
  <2> DEFINE n == 3 * limit
  <2> HIDE DEF n
  <2> QED
    BY <1>1, <2>1, SlabIsNewest DEF n
<1> HIDE DEF slab
<1>4. S \in SUBSET Files /\ S \subseteq slab
  BY <1>1, <1>3 DEF Matched, S
<1>5. Best(l, S, NameFirst(q.words), limit)
  BY <1>2, <1>4, LeafFirstIsBest
<1>6. \A f \in every \ slab : \A g \in ToSet(l) : Row[g].time > Row[f].time
  BY <1>3, <1>4, <1>5 DEF Best
<1>7. ASSUME Cardinality(every) <= 3 * limit, Cardinality(Matched(q, every)) <= limit
      PROVE  ToSet(l) = Matched(q, every)
  <2>1. S = Matched(q, every)
    BY <1>3, <1>7 DEF S
  <2>2. Cardinality(S) \in Nat
    BY <1>4, FS_Subset, FS_CardinalityType
  <2> QED
    BY <1>5, <1>7, <2>1, <2>2 DEF Best
<1> QED
  BY <1>5, <1>6, <1>7 DEF every, l, slab, S

\* Of the changelists whose description has the words the newest are listed, the newest
\* first, and all of them when they fit (query_changes).
THEOREM ChangesFound ==
  ASSUME NEW words, words # <<>>, NEW K \in SUBSET Logs, NEW limit \in Nat
  PROVE  Best(QueryChanges(words, K, limit), {c \in K : InARow(Log[c].words, words)}, NewerFirst, limit)
BY LatestAreBest DEF QueryChanges

-----------------------------------------------------------------------------

IsWorker(w) ==
  /\ w \in [query : {w.query}, limit : Nat, rows : {w.rows}, corrections : {w.corrections},
            done : BOOLEAN, cancelled : BOOLEAN]
  /\ w.query # Empty /\ IsList(w.rows)

\* A grep has a beginning of what there is to find, and all of it when it ends by itself.
GrepOK(w) ==
  w.query.mode = "grep" =>
    /\ Len(w.rows) <= w.limit /\ w.rows = First(Len(w.rows), Matches(w.query))
    /\ w.done /\ ~w.cancelled => w.rows = First(w.limit, Matches(w.query))

AnswerOK(w) ==
  w.query.mode # "grep" /\ w.done /\ fails = 0 => w.rows = Answer(w.query, Logs, w.limit)

Asking(i) == workers[i].query = text

Single ==
  ~doubled => \A i, j \in DOMAIN workers : workers[i].query = workers[j].query => i = j

\* Once the timer has fired the query of the input is under way with the cap of
\* now, or its answer is there.
Followed ==
  ~doubled /\ ~armed /\ fails = 0 =>
    IF \E i \in DOMAIN workers : Asking(i)
    THEN \A i \in DOMAIN workers : Asking(i) => workers[i].limit = Limit /\ ~workers[i].cancelled
    ELSE hits = Complete(text)

\* The last event is of a row of the list, or the pane has or awaits the row of the cursor.
Previewed ==
  hits # <<>> =>
    /\ options \subseteq ToSet(hits)
    /\ IF events # <<>> THEN events[Len(events)] \in ToSet(hits)
       ELSE /\ cursor \in DOMAIN hits
            /\ \/ preview.state = "error" \/ preview = [path |-> hits[cursor], state |-> "shown"]
               \/ preview = [path |-> hits[cursor], state |-> "loading"] /\ hits[cursor] \in fetches

Kinds ==
  /\ IsList(workers) /\ IsList(hits) /\ IsList(events)
  /\ cap \in 1..Len(Tiers) /\ fails \in Nat /\ armed \in BOOLEAN /\ doubled \in BOOLEAN
  /\ known \in {{}, Logs}

WorkersOK == \A i \in DOMAIN workers : IsWorker(workers[i]) /\ GrepOK(workers[i]) /\ AnswerOK(workers[i])

DialogInv == Kinds /\ WorkersOK /\ Single /\ Followed /\ Previewed

LEMMA LimitIsNat == cap \in 1..Len(Tiers) => Limit \in Nat /\ (cap % Len(Tiers)) + 1 \in 1..Len(Tiers)
<1>1. Len(Tiers) \in Nat \ {0}
  OBVIOUS
<1> QED
  BY <1>1 DEF Limit

LEMMA MatchesAreAList == ASSUME NEW q PROVE IsList(Matches(q))
<1>1. IsList(<<>>)
  BY DEF IsList
<1>2. q \in DOMAIN Contents => IsList(Contents[q])
  BY Lists
<1> QED
  BY <1>1, <1>2 DEF Matches

\* Steps that leave the pane and the list as they are.
LEMMA PaneStays ==
  ASSUME Previewed, UNCHANGED <<hits, options, events, cursor, fetches, preview>>
  PROVE  Previewed'
BY DEF Previewed

\* What is typed is asked for by the timer.
LEMMA InputInv ==
  ASSUME DialogInv, NEW q, InputChanged(q),
         UNCHANGED <<cap, workers, known, list, pane, doubled, fails>>
  PROVE  DialogInv'
<1>1. UNCHANGED <<hits, options, events, cursor, fetches, preview>>
  BY DEF list, pane
<1>2. Kinds' /\ WorkersOK' /\ Single'
  BY <1>1 DEF DialogInv, Kinds, WorkersOK, Single, InputChanged, IsWorker, GrepOK, AnswerOK
<1>3. Followed'
  BY <1>1 DEF DialogInv, Kinds, Followed, Asking, Complete, Limit, InputChanged
<1> QED
  BY <1>1, <1>2, <1>3, PaneStays DEF DialogInv

\* Nothing of the queries, nor of the list.
LEMMA FrameInv ==
  ASSUME DialogInv, UNCHANGED <<text, armed, cap, workers, known, hits, doubled, fails>>,
         IsList(events)', Previewed'
  PROVE  DialogInv'
BY DEF DialogInv, Kinds, WorkersOK, Single, Followed, Asking, Complete, Limit, IsWorker, GrepOK, AnswerOK

LEMMA RunInv ==
  ASSUME DialogInv, text # Empty, NEW limit \in Nat, RunQueryWorker(text, limit),
         cap' \in 1..Len(Tiers), limit = Limit', armed' \in BOOLEAN,
         UNCHANGED <<text, known, hits, options, events, cursor, fetches, preview, fails>>
  PROVE  DialogInv'
<1> DEFINE old == [i \in DOMAIN workers |->
                     IF text.mode = "grep" /\ workers[i].query.mode = "grep"
                     THEN [workers[i] EXCEPT !.cancelled = TRUE] ELSE workers[i]]
           new == [query |-> text, limit |-> limit, rows |-> <<>>, corrections |-> {}, done |-> FALSE,
                   cancelled |-> FALSE]
           n == Len(workers)
<1>1. n \in Nat /\ DOMAIN workers = 1..n
  BY DEF DialogInv, Kinds, IsList
<1>2. IsList(old) /\ Len(old) = n
  BY <1>1, Builds
<1>3. workers' = Append(old, new)
  BY DEF RunQueryWorker
<1>4. \A i \in 1..n :
        /\ IsWorker(old[i]) /\ old[i].query = workers[i].query /\ old[i].limit = workers[i].limit
        /\ old[i].rows = workers[i].rows /\ old[i].done = workers[i].done
        /\ ~old[i].cancelled => ~workers[i].cancelled
  <2> SUFFICES ASSUME NEW i \in 1..n
               PROVE  /\ IsWorker(old[i]) /\ old[i].query = workers[i].query /\ old[i].limit = workers[i].limit
                      /\ old[i].rows = workers[i].rows /\ old[i].done = workers[i].done
                      /\ ~old[i].cancelled => ~workers[i].cancelled
    OBVIOUS
  <2> DEFINE w == workers[i]
             x == [w EXCEPT !.cancelled = TRUE]
  <2>1. IsWorker(w)
    BY <1>1 DEF DialogInv, WorkersOK
  <2>2. old[i] = w \/ old[i] = x
    BY <1>1
  <2> HIDE DEF w, old
  <2>3. IsWorker(x) /\ x.query = w.query /\ x.limit = w.limit /\ x.rows = w.rows /\ x.done = w.done /\ x.cancelled
    BY <2>1 DEF IsWorker
  <2> QED
    BY <2>1, <2>2, <2>3 DEF w
<1> HIDE DEF old
<1>5. \A i \in 1..n : GrepOK(old[i]) /\ AnswerOK(old[i])
  BY <1>1, <1>4, SMTT(20) DEF DialogInv, WorkersOK, GrepOK, AnswerOK
<1>6. IsWorker(new) /\ GrepOK(new) /\ AnswerOK(new)
  <2>1. IsList(<<>>)
    BY DEF IsList
  <2>2. First(0, Matches(text)) = <<>>
    BY MatchesAreAList DEF IsList, First
  <2> QED
    BY <2>1, <2>2 DEF IsWorker, GrepOK, AnswerOK
<1>7. /\ IsList(workers') /\ DOMAIN workers' = 1..(n + 1) /\ workers'[n + 1] = new
      /\ \A i \in 1..n : workers'[i] = old[i]
  BY <1>2, <1>3, Appended
<1>8. Kinds'
  BY <1>7 DEF DialogInv, Kinds, RunQueryWorker
<1>9. WorkersOK'
  <2> SUFFICES ASSUME NEW i \in 1..(n + 1)
               PROVE  IsWorker(workers'[i]) /\ GrepOK(workers'[i])
                        /\ (workers'[i].query.mode # "grep" /\ workers'[i].done /\ fails' = 0 =>
                               workers'[i].rows = Answer(workers'[i].query, Logs, workers'[i].limit))
    BY <1>7 DEF WorkersOK, IsWorker, GrepOK, AnswerOK
  <2>1. CASE i = n + 1
    BY <1>6, <1>7, <2>1 DEF AnswerOK
  <2>2. CASE i \in 1..n
    BY <1>4, <1>5, <1>7, <2>2 DEF AnswerOK
  <2> QED
    BY <1>1, <2>1, <2>2
<1>10. ~doubled' => ~doubled /\ \A i \in 1..n : workers[i].query # text
  BY <1>1 DEF RunQueryWorker, ToSet
<1>11. new.query = text /\ new.limit = limit /\ new.cancelled = FALSE
  OBVIOUS
<1> HIDE DEF new
<1>12. Single'
  <2> SUFFICES ASSUME ~doubled', NEW i \in 1..(n + 1), NEW j \in 1..(n + 1),
                      workers'[i].query = workers'[j].query
               PROVE  i = j
    BY <1>7 DEF Single
  <2>1. \A k \in 1..n : workers'[k].query = workers[k].query /\ workers[k].query # text
    BY <1>4, <1>7, <1>10
  <2>2. workers'[n + 1].query = text
    BY <1>7, <1>11
  <2>3. \A k, m \in 1..n : workers[k].query = workers[m].query => k = m
    BY <1>1, <1>10 DEF DialogInv, Single
  <2>4. i \in 1..n \/ i = n + 1
    BY <1>1
  <2>5. j \in 1..n \/ j = n + 1
    BY <1>1
  <2> QED
    BY <2>1, <2>2, <2>3, <2>4, <2>5
<1>13. Followed'
  <2>1. workers'[n + 1].query = text /\ workers'[n + 1].limit = Limit' /\ ~workers'[n + 1].cancelled
    BY <1>7, <1>11
  <2>2. ASSUME ~doubled', NEW k \in 1..n
        PROVE  workers'[k].query # text
    BY <1>4, <1>7, <1>10, <2>2, ZenonT(20)
  <2>3. ASSUME ~doubled', NEW k \in DOMAIN workers', workers'[k].query = text
        PROVE  workers'[k].limit = Limit' /\ ~workers'[k].cancelled
    <3>1. k \in 1..n \/ k = n + 1
      BY <1>1, <1>7, <2>3, SMTT(20)
    <3> QED
      BY <2>1, <2>2, <2>3, <3>1
  <2>4. n + 1 \in DOMAIN workers' /\ text' = text
    BY <1>1, <1>7
  <2> HIDE DEF n
  <2> QED
    BY <2>1, <2>3, <2>4 DEF Followed, Asking
<1> QED
  BY <1>8, <1>9, <1>12, <1>13, PaneStays DEF DialogInv


-----------------------------------------------------------------------------
(* The list and the pane.                                                  *)

LEMMA LoadPane ==
  ASSUME NEW H, NEW c \in DOMAIN H, LoadPreviewFor(H[c], H, c)
  PROVE  \/ preview' = [path |-> H[c], state |-> "shown"]
         \/ preview' = [path |-> H[c], state |-> "loading"] /\ H[c] \in fetches'
BY DEF LoadPreviewFor, Rendered

\* A list that is drawn has the event of its first row last.
LEMMA RenderPane ==
  ASSUME IsList(events), NEW H, IsList(H), NEW S, RenderResults(H, S), H = <<>> \/ text # Empty
  PROVE  Previewed' /\ IsList(events') /\ IsList(hits')
<1>1. CASE H = <<>>
  BY <1>1 DEF RenderResults, Previewed
<1>2. CASE H # <<>> /\ text # Empty
  <2>1. H[1] \in ToSet(H)
    BY <1>2 DEF IsList, ToSet
  <2>2. events' = Append(events, H[1]) /\ options' = ToSet(H) /\ hits' = H
    BY <1>2 DEF RenderResults
  <2>3. Len(events) \in Nat
    BY DEF IsList
  <2>4. IsList(events') /\ Len(events') = Len(events) + 1 /\ events'[Len(events) + 1] = H[1]
    BY <2>2, Appended
  <2>5. events' # <<>>
    BY <2>3, <2>4
  <2> QED
    BY <2>1, <2>2, <2>4, <2>5 DEF Previewed
<1> QED
  BY <1>1, <1>2

LEMMA FetchedInv ==
  ASSUME DialogInv, NEW p, FetchPreview(p) \/ RenderPreviewError(p)
  PROVE  DialogInv'
<1>1. CASE FetchPreview(p)
  <2>1. Previewed'
    <3>1. fetches' = fetches \ {p} /\ preview' = Rendered(p, hits, cursor)
      BY <1>1 DEF FetchPreview
    <3>2. UNCHANGED <<hits, options, events, cursor>>
      BY <1>1 DEF FetchPreview, list
    <3> QED
      BY <3>1, <3>2 DEF DialogInv, Previewed, Rendered
  <2> QED
    BY <1>1, <2>1, FrameInv DEF FetchPreview, input, list, DialogInv, Kinds
<1>2. CASE RenderPreviewError(p)
  <2>1. UNCHANGED <<text, armed, cap, hits, options, events, cursor, workers, known, doubled>>
    BY <1>2 DEF RenderPreviewError, input, list
  <2>2. preview'.state = "error" /\ fails' \in Nat /\ fails' >= fails
    BY <1>2 DEF RenderPreviewError, DialogInv, Kinds
  <2>3. Previewed'
    BY <2>1, <2>2 DEF DialogInv, Previewed
  <2>4. Kinds' /\ Single'
    BY <2>1, <2>2 DEF DialogInv, Kinds, Single
  <2>5. WorkersOK'
    BY <2>1, <2>2 DEF DialogInv, Kinds, WorkersOK, IsWorker, GrepOK, AnswerOK
  <2>6. Followed'
    BY <2>1, <2>2 DEF DialogInv, Kinds, Followed, Asking, Complete, Limit
  <2> QED
    BY <2>3, <2>4, <2>5, <2>6 DEF DialogInv
<1> QED
  BY <1>1, <1>2

LEMMA HighlightedInv == ASSUME DialogInv, OptionHighlighted PROVE DialogInv'
<1>1. events # <<>> /\ events' = Tail(events) /\ UNCHANGED <<text, armed, cap, workers, known, hits, options, doubled, fails>>
  BY DEF OptionHighlighted, input
<1>2. /\ IsList(Tail(events)) /\ Len(Tail(events)) = Len(events) - 1 /\ Len(events) \in Nat /\ Len(events) > 0
      /\ \A i \in 1..(Len(events) - 1) : Tail(events)[i] = events[i + 1]
      /\ Head(events) = events[1]
  BY <1>1, Tailed DEF DialogInv, Kinds
<1>3. Previewed'
  <2> SUFFICES ASSUME hits # <<>> PROVE Previewed'
    BY <1>1 DEF Previewed
  <2>1. options \subseteq ToSet(hits) /\ events[Len(events)] \in ToSet(hits)
    BY <1>1 DEF DialogInv, Previewed
  <2>2. CASE Len(events) = 1
    <3> DEFINE p == Head(events)
    <3>1. p \in ToSet(hits) /\ events' = <<>>
      BY <1>1, <1>2, <2>1, <2>2 DEF IsList
    <3>2. cursor' \in DOMAIN hits /\ hits[cursor'] = p
      BY <3>1 DEF OptionHighlighted, ToSet
    <3>3. LoadPreviewFor(hits[cursor'], hits, cursor')
      BY <3>2 DEF OptionHighlighted
    <3>4. \/ preview' = [path |-> hits[cursor'], state |-> "shown"]
          \/ preview' = [path |-> hits[cursor'], state |-> "loading"] /\ hits[cursor'] \in fetches'
      BY <3>2, <3>3 DEF LoadPreviewFor, Rendered
    <3> QED
      BY <1>1, <2>1, <3>1, <3>2, <3>4 DEF Previewed
  <2>3. CASE Len(events) > 1
    <3> DEFINE n == Len(events)
    <3>1. n \in Nat /\ n > 1 /\ Len(events') = n - 1 /\ \A i \in 1..(n - 1) : events'[i] = events[i + 1]
      BY <1>1, <1>2, <2>3
    <3>2. n - 1 \in 1..(n - 1) /\ (n - 1) + 1 = n
      BY <3>1
    <3>3. events'[n - 1] = events[n]
      BY <3>1, <3>2
    <3>4. events' # <<>>
      BY <3>1
    <3> QED
      BY <1>1, <2>1, <3>1, <3>3, <3>4 DEF Previewed
  <2>4. Len(events) \in Nat /\ Len(events) > 0
    BY <1>2
  <2>5. Len(events) = 1 \/ Len(events) > 1
    <3> DEFINE n == Len(events)
    <3>1. n \in Nat /\ n > 0
      BY <2>4
    <3> HIDE DEF n
    <3>2. n = 1 \/ n > 1
      BY <3>1
    <3> QED
      BY <3>2 DEF n
  <2> QED
    BY <2>2, <2>3, <2>5
<1> QED
  BY <1>1, <1>2, <1>3, FrameInv

LEMMA MoveHighlightInv == ASSUME DialogInv, MoveHighlight PROVE DialogInv'
<1>1. PICK p \in options \ {row} : events' = Append(events, p)
  BY DEF MoveHighlight
<1>2. UNCHANGED <<text, armed, cap, workers, known, hits, options, doubled, fails>>
  BY DEF MoveHighlight, input
<1>3. IsList(events') /\ Len(events') = Len(events) + 1 /\ events'[Len(events) + 1] = p /\ Len(events) \in Nat
  BY <1>1, Appended DEF DialogInv, Kinds, IsList
<1>4. events' # <<>>
  BY <1>3
<1>5. Previewed'
  BY <1>1, <1>2, <1>3, <1>4 DEF DialogInv, Previewed
<1> QED
  BY <1>2, <1>3, <1>5, FrameInv


-----------------------------------------------------------------------------
(* The queries.                                                            *)

LEMMA ChangeInv ==
  ASSUME DialogInv, NEW i \in DOMAIN workers, NEW w, workers' = [workers EXCEPT ![i] = w],
         w.query = workers[i].query, w.limit = workers[i].limit, w.cancelled = workers[i].cancelled,
         IsWorker(w), GrepOK(w),
         w.query.mode # "grep" /\ w.done /\ fails' = 0 => w.rows = Answer(w.query, Logs, w.limit),
         UNCHANGED <<text, armed, cap, doubled>>, fails' \in Nat, fails' >= fails, known' \in {{}, Logs},
         IsList(hits'), IsList(events'), UNCHANGED hits \/ Asking(i), Previewed'
  PROVE  DialogInv'
<1> DEFINE n == Len(workers)
<1>1. n \in Nat /\ DOMAIN workers = 1..n /\ workers = [j \in 1..n |-> workers[j]]
  BY SMTT(20) DEF DialogInv, Kinds, IsList
<1>2. workers' = [j \in 1..n |-> workers'[j]]
  BY <1>1
<1>3. IsList(workers') /\ DOMAIN workers' = 1..n
  BY <1>1, <1>2, Builds, ZenonT(40)
<1>4. \A j \in 1..n : workers'[j] = IF j = i THEN w ELSE workers[j]
  BY <1>1
<1>5. \A j \in 1..n : /\ workers'[j].query = workers[j].query /\ workers'[j].limit = workers[j].limit
                      /\ workers'[j].cancelled = workers[j].cancelled
  BY <1>4
<1>6. fails' = 0 => fails = 0
  BY DEF DialogInv, Kinds
<1>7. Kinds' /\ Single'
  BY <1>1, <1>3, <1>5, SMTT(20) DEF DialogInv, Kinds, Single
<1>8. Followed'
  <2> SUFFICES ASSUME ~doubled, ~armed, fails = 0 PROVE Followed'
    BY <1>6 DEF Followed
  <2>1. \A j \in 1..n : Asking(j)' <=> Asking(j)
    BY <1>5 DEF Asking
  <2>2. CASE \E j \in 1..n : Asking(j)
    BY <1>1, <1>3, <1>5, <2>1, <2>2 DEF DialogInv, Followed, Limit
  <2>3. CASE ~\E j \in 1..n : Asking(j)
    <3>1. UNCHANGED hits /\ hits = Complete(text)
      BY <1>1, <2>3 DEF DialogInv, Followed
    <3> QED
      BY <1>1, <1>3, <2>1, <2>3, <3>1 DEF Followed, Complete, Limit
  <2> QED
    BY <2>2, <2>3
<1>9. WorkersOK'
  <2> SUFFICES ASSUME NEW j \in 1..n
               PROVE  IsWorker(workers'[j]) /\ GrepOK(workers'[j])
                        /\ (workers'[j].query.mode # "grep" /\ workers'[j].done /\ fails' = 0 =>
                               workers'[j].rows = Answer(workers'[j].query, Logs, workers'[j].limit))
    BY <1>3 DEF WorkersOK, IsWorker, GrepOK, AnswerOK
  <2>1. CASE j = i
    BY <1>4, <2>1
  <2>2. CASE j # i
    BY <1>1, <1>4, <1>6, <2>2 DEF DialogInv, WorkersOK, AnswerOK
  <2> QED
    BY <2>1, <2>2
<1> QED
  BY <1>7, <1>8, <1>9 DEF DialogInv

LEMMA AnsweredInv == ASSUME DialogInv, NEW i \in DOMAIN workers, QueryAnswered(i) PROVE DialogInv'
<1> DEFINE w == workers[i]
           log == w.query.mode = "cl" \/ (w.query.mode = "nl" /\ w.query.cls)
           seeds == log /\ Seeds(w.query, known, w.limit)
           x == [w EXCEPT !.done = TRUE, !.rows = Answer(w.query, known, w.limit),
                          !.corrections = Suggested(w.query, w.limit)]
           y == [w EXCEPT !.done = TRUE]
<1>1. /\ w.query.mode # "grep"
      /\ \/ known' = (IF seeds THEN Logs ELSE known) /\ workers' = [workers EXCEPT ![i] = x] /\ UNCHANGED fails
         \/ fails' = fails + 1 /\ workers' = [workers EXCEPT ![i] = y] /\ UNCHANGED known
      /\ UNCHANGED <<text, armed, cap, hits, options, events, cursor, fetches, preview, doubled>>
  BY DEF QueryAnswered, input, list, pane
<1>2. IsWorker(w) /\ known \in {{}, Logs} /\ fails \in Nat /\ IsList(hits) /\ IsList(events)
  BY DEF DialogInv, WorkersOK, Kinds
<1>3. w.limit \in Nat
  BY <1>2 DEF IsWorker
<1>4. IsList(Answer(w.query, known, w.limit)) /\ Answer(w.query, known, w.limit) = Answer(w.query, Logs, w.limit)
  BY <1>2, <1>3, AnswerIsAList
<1>5. Previewed'
  BY <1>1, PaneStays DEF DialogInv
<1> HIDE DEF w
<1>6. /\ IsWorker(x) /\ x.query = w.query /\ x.limit = w.limit /\ x.cancelled = w.cancelled
      /\ x.rows = Answer(w.query, known, w.limit)
  BY <1>2, <1>4 DEF IsWorker
<1>7. IsWorker(y) /\ y.query = w.query /\ y.limit = w.limit /\ y.cancelled = w.cancelled
  BY <1>2 DEF IsWorker
<1> HIDE DEF x, y, seeds
<1>8. CASE known' = (IF seeds THEN Logs ELSE known) /\ workers' = [workers EXCEPT ![i] = x] /\ UNCHANGED fails
  <2>1. GrepOK(x) /\ x.rows = Answer(x.query, Logs, x.limit) /\ fails' \in Nat /\ fails' >= fails
    BY <1>1, <1>2, <1>4, <1>6, <1>8 DEF GrepOK
  <2> QED
    BY <1>1, <1>2, <1>5, <1>6, <1>8, <2>1, ChangeInv DEF w
<1>9. CASE fails' = fails + 1 /\ workers' = [workers EXCEPT ![i] = y] /\ UNCHANGED known
  <2>1. GrepOK(y) /\ fails' \in Nat /\ fails' # 0 /\ fails' >= fails
    BY <1>1, <1>2, <1>7, <1>9 DEF GrepOK
  <2> QED
    BY <1>1, <1>2, <1>5, <1>7, <1>9, <2>1, ChangeInv DEF w
<1> QED
  BY <1>1, <1>8, <1>9

LEMMA GrepEndsInv == ASSUME DialogInv, NEW i \in DOMAIN workers, GrepEnds(i) PROVE DialogInv'
<1> DEFINE w == workers[i]
           y == [w EXCEPT !.done = TRUE]
<1>1. /\ w.query.mode = "grep" /\ workers' = [workers EXCEPT ![i] = y]
      /\ w.cancelled \/ Len(w.rows) = w.limit \/ Len(w.rows) = Len(Matches(w.query))
      /\ UNCHANGED <<text, armed, cap, known, hits, options, events, cursor, fetches, preview, doubled, fails>>
  BY DEF GrepEnds, input, list, pane
<1>2. IsWorker(w) /\ GrepOK(w) /\ known \in {{}, Logs} /\ fails \in Nat /\ IsList(hits) /\ IsList(events)
  BY DEF DialogInv, WorkersOK, Kinds
<1>3. Previewed'
  BY <1>1, PaneStays DEF DialogInv
<1> HIDE DEF w
<1>4. IsWorker(y) /\ y.query = w.query /\ y.limit = w.limit /\ y.rows = w.rows /\ y.cancelled = w.cancelled
  BY <1>2 DEF IsWorker
<1> HIDE DEF y
<1>5. w.limit \in Nat /\ Len(w.rows) \in Nat /\ Len(Matches(w.query)) \in Nat /\ w.cancelled \in BOOLEAN
  BY <1>2, MatchesAreAList DEF IsWorker, IsList
<1>6. ~w.cancelled => w.rows = First(w.limit, Matches(w.query))
  <2>1. Len(w.rows) >= Len(Matches(w.query)) => First(Len(w.rows), Matches(w.query)) = Matches(w.query)
    BY <1>5, MatchesAreAList, FirstOf
  <2>2. w.limit >= Len(Matches(w.query)) => First(w.limit, Matches(w.query)) = Matches(w.query)
    BY <1>5, MatchesAreAList, FirstOf
  <2> QED
    BY <1>1, <1>2, <1>5, <2>1, <2>2 DEF GrepOK
<1>7. GrepOK(y)
  BY <1>1, <1>2, <1>4, <1>6 DEF GrepOK
<1>8. y.query.mode = "grep" /\ fails' \in Nat /\ fails' >= fails
  BY <1>1, <1>2, <1>4
<1> QED
  BY <1>1, <1>2, <1>3, <1>4, <1>7, <1>8, ChangeInv DEF w


LEMMA GrepMatchInv == ASSUME DialogInv, NEW i \in DOMAIN workers, GrepMatch(i) PROVE DialogInv'
<1> DEFINE w == workers[i]
           n == Len(w.rows)
           M == Matches(w.query)
           found == First(n + 1, M)
           x == [w EXCEPT !.rows = found]
<1>1. /\ w.query.mode = "grep" /\ ~w.done /\ n < w.limit /\ found # w.rows
      /\ workers' = [workers EXCEPT ![i] = x]
      /\ UNCHANGED <<text, armed, cap, known, cursor, doubled, fails>>
  BY DEF GrepMatch, input, list, pane
<1>2. IsWorker(w) /\ GrepOK(w) /\ known \in {{}, Logs} /\ fails \in Nat /\ IsList(hits) /\ IsList(events)
  BY DEF DialogInv, WorkersOK, Kinds
<1>3. w.query # Empty /\ IsList(M) /\ n \in Nat /\ w.limit \in Nat /\ Len(M) \in Nat
  BY <1>2, MatchesAreAList DEF IsWorker, IsList
<1>4. IsList(found) /\ Len(found) = (IF n + 1 < Len(M) THEN n + 1 ELSE Len(M))
  <2>1. n + 1 \in Nat
    BY <1>3
  <2> HIDE DEF n, M
  <2> QED
    BY <1>3, <2>1, FirstOf
<1>5. n < Len(M) /\ Len(found) = n + 1
  <2>1. n >= Len(M) => First(n, M) = M /\ found = M
    BY <1>3, FirstOf
  <2> QED
    BY <1>1, <1>2, <1>3, <1>4, <2>1, SMTT(20) DEF GrepOK
<1>6. \/ UNCHANGED <<hits, options, events, fetches, preview>>
      \/ text = w.query /\ \E S : RenderResults(found, S)
  BY DEF GrepMatch, list, pane
<1>7. IsList(hits') /\ IsList(events') /\ Previewed' /\ (UNCHANGED hits \/ Asking(i))
  <2>1. CASE UNCHANGED <<hits, options, events, fetches, preview>>
    BY <1>1, <1>2, <2>1, PaneStays DEF DialogInv
  <2>2. CASE text = w.query /\ \E S : RenderResults(found, S)
    BY <1>2, <1>3, <1>4, <2>2, RenderPane DEF Asking
  <2> QED
    BY <1>6, <2>1, <2>2
<1> HIDE DEF w, found, n, M
<1>8. IsWorker(x) /\ x.query = w.query /\ x.limit = w.limit /\ x.rows = found /\ x.cancelled = w.cancelled
        /\ x.done = w.done
  BY <1>2, <1>4 DEF IsWorker
<1> HIDE DEF x
<1>9. x.rows = First(Len(x.rows), Matches(x.query)) /\ Len(x.rows) <= x.limit
  BY <1>1, <1>3, <1>5, <1>8 DEF found, M
<1>10. GrepOK(x) /\ x.query.mode = "grep" /\ fails' \in Nat /\ fails' >= fails
  BY <1>1, <1>2, <1>8, <1>9 DEF GrepOK
<1> QED
  BY <1>1, <1>2, <1>7, <1>8, <1>10, ChangeInv DEF w

\* The answer of a worker; the others go on.
LEMMA ResultInv == ASSUME DialogInv, NEW i \in DOMAIN workers, OnQueryResult(i) PROVE DialogInv'
<1> DEFINE w == workers[i]
           n == Len(workers)
<1>1. n \in Nat /\ DOMAIN workers = 1..n /\ i \in 1..n
  BY DEF DialogInv, Kinds, IsList
<1>2. w.done /\ workers' = RemoveAt(workers, i) /\ UNCHANGED <<text, armed, cap, known, doubled, fails>>
  BY DEF OnQueryResult
<1>3. /\ IsList(workers') /\ DOMAIN workers' = 1..(n - 1)
      /\ \A j \in 1..(n - 1) : workers'[j] = IF j < i THEN workers[j] ELSE workers[j + 1]
  <2>1. IsList(workers)
    BY DEF DialogInv, Kinds
  <2>2. /\ IsList(RemoveAt(workers, i)) /\ DOMAIN RemoveAt(workers, i) = 1..(Len(workers) - 1)
        /\ \A j \in 1..(Len(workers) - 1) : RemoveAt(workers, i)[j] = IF j < i THEN workers[j] ELSE workers[j + 1]
    BY <2>1, Removed
  <2> QED
    BY <1>2, <2>2
<1>4. \/ w.query # text /\ UNCHANGED <<hits, options, events, cursor, fetches, preview>>
      \/ w.query = text /\ RenderResults(w.rows, w.corrections) /\ cursor' = 1
  BY DEF OnQueryResult, list, pane
<1>5. IsWorker(w) /\ GrepOK(w) /\ AnswerOK(w) /\ fails \in Nat /\ IsList(hits) /\ IsList(events)
  BY DEF DialogInv, WorkersOK, Kinds
<1>6. IsList(hits') /\ IsList(events') /\ Previewed'
  BY <1>4, <1>5, PaneStays, RenderPane DEF DialogInv, IsWorker
<1>7. \A j \in 1..(n - 1) : \E k \in 1..n \ {i} : workers'[j] = workers[k] /\ k = IF j < i THEN j ELSE j + 1
  BY <1>1, <1>3
<1>8. \A k \in 1..n \ {i} : \E j \in 1..(n - 1) : workers'[j] = workers[k]
  <2> SUFFICES ASSUME NEW k \in 1..n \ {i} PROVE \E j \in 1..(n - 1) : workers'[j] = workers[k]
    OBVIOUS
  <2>1. CASE k < i
    BY <1>1, <1>3, <2>1
  <2>2. CASE k > i
    <3>1. k - 1 \in 1..(n - 1) /\ ~(k - 1 < i) /\ (k - 1) + 1 = k
      BY <1>1, <2>2
    <3> QED
      BY <1>3, <3>1
  <2> QED
    BY <1>1, <2>1, <2>2
<1>9. Kinds'
  BY <1>2, <1>3, <1>6 DEF DialogInv, Kinds
<1>10. WorkersOK'
  <2> SUFFICES ASSUME NEW j \in 1..(n - 1)
               PROVE  IsWorker(workers'[j]) /\ GrepOK(workers'[j])
                        /\ (workers'[j].query.mode # "grep" /\ workers'[j].done /\ fails' = 0 =>
                               workers'[j].rows = Answer(workers'[j].query, Logs, workers'[j].limit))
    BY <1>3 DEF WorkersOK, IsWorker, GrepOK, AnswerOK
  <2>1. PICK k \in 1..n : workers'[j] = workers[k]
    BY <1>7
  <2> QED
    BY <1>1, <1>2, <2>1 DEF DialogInv, WorkersOK, AnswerOK
<1>11. Single'
  <2> SUFFICES ASSUME ~doubled, NEW j \in 1..(n - 1), NEW k \in 1..(n - 1), workers'[j].query = workers'[k].query
               PROVE  j = k
    BY <1>2, <1>3 DEF Single
  <2>1. PICK x \in 1..n \ {i} : workers'[j] = workers[x] /\ x = IF j < i THEN j ELSE j + 1
    BY <1>7
  <2>2. PICK y \in 1..n \ {i} : workers'[k] = workers[y] /\ y = IF k < i THEN k ELSE k + 1
    BY <1>7
  <2>3. x = y
    BY <1>1, <2>1, <2>2 DEF DialogInv, Single
  <2> QED
    BY <1>1, <2>1, <2>2, <2>3
<1>12. Followed'
  <2> SUFFICES ASSUME ~doubled, ~armed, fails = 0 PROVE Followed'
    BY <1>2 DEF Followed
  <2>1. CASE w.query # text
    <3>1. UNCHANGED hits
      BY <1>4, <2>1
    <3>2. (\E j \in 1..(n - 1) : Asking(j)') <=> (\E k \in 1..n : Asking(k))
      <4>1. ASSUME NEW j \in 1..(n - 1), Asking(j)' PROVE \E k \in 1..n : Asking(k)
        BY <1>2, <1>7, <4>1 DEF Asking
      <4>2. ASSUME NEW k \in 1..n, Asking(k) PROVE \E j \in 1..(n - 1) : Asking(j)'
        <5>1. k # i
          BY <2>1, <4>2 DEF Asking
        <5> QED
          BY <1>2, <1>8, <4>2, <5>1 DEF Asking
      <4> QED
        BY <4>1, <4>2
    <3>3. \A j \in 1..(n - 1) : \E k \in 1..n : workers'[j] = workers[k]
      BY <1>7
    <3>4. CASE \E k \in 1..n : Asking(k)
      <4>1. \A k \in 1..n : Asking(k) => workers[k].limit = Limit /\ ~workers[k].cancelled
        BY <1>1, <3>4 DEF DialogInv, Followed
      <4>2. \A j \in 1..(n - 1) : Asking(j)' => workers'[j].limit = Limit' /\ ~workers'[j].cancelled
        <5>1. text' = text /\ Limit' = Limit
          BY <1>2 DEF Limit
        <5> SUFFICES ASSUME NEW j \in 1..(n - 1), workers'[j].query = text
                     PROVE  workers'[j].limit = Limit /\ ~workers'[j].cancelled
          BY <5>1 DEF Asking
        <5>2. PICK k \in 1..n : workers'[j] = workers[k]
          BY <3>3
        <5> QED
          BY <4>1, <5>2 DEF Asking
      <4> QED
        BY <1>3, <3>2, <3>4, <4>2 DEF Followed
    <3>5. CASE ~\E k \in 1..n : Asking(k)
      <4>1. hits = Complete(text)
        BY <1>1, <3>5 DEF DialogInv, Followed
      <4>2. hits' = Complete(text)'
        BY <1>2, <3>1, <4>1 DEF Complete, Limit
      <4>3. ~\E j \in 1..(n - 1) : Asking(j)'
        BY ONLY <3>2, <3>5
      <4> QED
        BY <1>3, <4>2, <4>3 DEF Followed
    <3> QED
      BY <3>4, <3>5
  <2>2. CASE w.query = text
    <3>1. ASSUME NEW j \in 1..(n - 1) PROVE ~Asking(j)'
      <4>1. PICK x \in 1..n \ {i} : workers'[j] = workers[x]
        BY <1>7
      <4>2. workers[x].query # workers[i].query
        BY <1>1 DEF DialogInv, Single
      <4> QED
        BY <1>2, <2>2, <4>1, <4>2 DEF Asking
    <3>2. w.limit = Limit /\ ~w.cancelled
      BY <1>1, <2>2 DEF DialogInv, Followed, Asking
    <3>3. hits' = w.rows /\ w.query # Empty
      BY <1>4, <1>5, <2>2 DEF RenderResults, IsWorker
    <3>4. w.rows = Complete(text)
      BY <1>2, <1>5, <2>2, <3>2, <3>3 DEF GrepOK, AnswerOK, Complete
    <3> QED
      BY <1>2, <1>3, <3>1, <3>3, <3>4 DEF Followed, Complete, Limit
  <2> QED
    BY <2>1, <2>2
<1> QED
  BY <1>6, <1>9, <1>10, <1>11, <1>12 DEF DialogInv


-----------------------------------------------------------------------------
(* The user, and the theorems.                                             *)

LEMMA DispatchInv == ASSUME DialogInv, DispatchQuery PROVE DialogInv'
<1>1. armed' = FALSE /\ UNCHANGED <<text, cap, known, cursor, fails>>
  BY DEF DispatchQuery
<1>2. CASE text = Empty
  <2>1. RenderResults(<<>>, {}) /\ UNCHANGED <<workers, doubled>>
    BY <1>2 DEF DispatchQuery
  <2>2. IsList(<<>>)
    BY DEF IsList
  <2>3. Previewed' /\ IsList(events') /\ IsList(hits')
    BY <2>1, <2>2, RenderPane DEF DialogInv, Kinds
  <2>4. hits' = <<>> /\ Complete(text)' = <<>>
    BY <1>1, <1>2, <2>1 DEF RenderResults, Complete
  <2>5. Kinds' /\ WorkersOK' /\ Single'
    BY <1>1, <2>1, <2>3 DEF DialogInv, Kinds, WorkersOK, Single, IsWorker, GrepOK, AnswerOK
  <2>6. \A i \in DOMAIN workers' : ~Asking(i)'
    BY <1>1, <1>2, <2>1 DEF DialogInv, WorkersOK, IsWorker, Asking
  <2>7. Followed'
    BY <2>4, <2>6 DEF Followed
  <2> QED
    BY <2>3, <2>5, <2>7 DEF DialogInv
<1>3. CASE text # Empty
  <2>1. RunQueryWorker(text, Limit) /\ UNCHANGED <<hits, options, events, fetches, preview>>
    BY <1>3 DEF DispatchQuery, pane
  <2>2. Limit \in Nat /\ Limit = Limit' /\ cap' \in 1..Len(Tiers) /\ armed' \in BOOLEAN
    BY <1>1, LimitIsNat DEF Limit, DialogInv, Kinds
  <2> QED
    BY <1>1, <1>3, <2>1, <2>2, RunInv
<1> QED
  BY <1>2, <1>3

LEMMA CycleCapInv == ASSUME DialogInv, CycleCap PROVE DialogInv'
<1>1. cap' = (cap % Len(Tiers)) + 1 /\ UNCHANGED <<text, armed, known, cursor, fetches, preview, fails>>
  BY DEF CycleCap, pane
<1>2. cap' \in 1..Len(Tiers)
  BY <1>1, LimitIsNat DEF DialogInv, Kinds
<1>3. CASE text = Empty
  <2>1. RenderResults(hits, {}) /\ UNCHANGED <<workers, doubled>>
    BY <1>3 DEF CycleCap
  <2>2. UNCHANGED <<hits, events>> /\ options' = {}
    BY <1>3, <2>1 DEF RenderResults
  <2>3. Previewed'
    BY <1>1, <2>2 DEF DialogInv, Previewed
  <2>4. Kinds' /\ WorkersOK' /\ Single'
    BY <1>1, <1>2, <2>1, <2>2 DEF DialogInv, Kinds, WorkersOK, Single, IsWorker, GrepOK, AnswerOK
  <2>5. \A i \in DOMAIN workers' : ~Asking(i)'
    BY <1>1, <1>3, <2>1 DEF DialogInv, WorkersOK, IsWorker, Asking
  <2>6. \A i \in DOMAIN workers : ~Asking(i)
    BY <1>3 DEF DialogInv, WorkersOK, IsWorker, Asking
  <2>7. Complete(text) = <<>> /\ Complete(text)' = <<>>
    BY <1>1, <1>3 DEF Complete
  <2>8. Followed'
    BY <1>1, <2>1, <2>2, <2>5, <2>6, <2>7 DEF DialogInv, Followed
  <2> QED
    BY <2>3, <2>4, <2>8 DEF DialogInv
<1>4. CASE text # Empty
  <2>1. RunQueryWorker(text, Tiers[cap']) /\ UNCHANGED <<hits, options, events>>
    BY <1>4 DEF CycleCap
  <2>2. Tiers[cap'] \in Nat /\ Tiers[cap'] = Limit' /\ armed' \in BOOLEAN
    BY <1>1, <1>2 DEF Limit, DialogInv, Kinds
  <2> QED
    BY <1>1, <1>2, <1>4, <2>1, <2>2, RunInv
<1> QED
  BY <1>3, <1>4

LEMMA OpenInv == ASSUME DialogInv, Open PROVE DialogInv'
<1>1. PICK q \in {p \in Queries : p.mode = "plain"} \cup {Empty} :
        /\ text' = q /\ armed' = (q # Empty)
        /\ workers' = IF q = Empty THEN <<>>
                      ELSE <<[query |-> q, limit |-> Tiers[1], rows |-> <<>>, corrections |-> {},
                              done |-> FALSE, cancelled |-> FALSE]>>
  BY DEF Open
<1>2. /\ cap' = 1 /\ doubled' = FALSE /\ hits' = <<>> /\ events' = <<>> /\ UNCHANGED <<known, fails>>
  BY DEF Open
<1> DEFINE w == [query |-> q, limit |-> Tiers[1], rows |-> <<>>, corrections |-> {}, done |-> FALSE,
                 cancelled |-> FALSE]
<1>3. IsList(<<>>) /\ IsList(<<w>>) /\ 1 \in 1..Len(Tiers) /\ Tiers[1] \in Nat
  <2> HIDE DEF w
  <2>1. IsList(<<>>) /\ 1 \in 1..Len(Tiers) /\ Tiers[1] \in Nat
    BY DEF IsList
  <2>2. <<w>> \in Seq({w})
    OBVIOUS
  <2> QED
    BY <2>1, <2>2, Lists
<1>4. q # Empty => IsWorker(w) /\ w.query = q /\ w.query.mode = "plain" /\ ~w.done
  BY <1>1, <1>3 DEF IsWorker
<1> HIDE DEF w
<1>5. workers' = (IF q = Empty THEN <<>> ELSE <<w>>) /\ DOMAIN workers' = IF q = Empty THEN {} ELSE {1}
  BY <1>1 DEF w
<1>6. Previewed'
  BY <1>2 DEF Previewed
<1>7. Kinds'
  BY <1>1, <1>2, <1>3, <1>5 DEF DialogInv, Kinds
<1>8. WorkersOK'
  <2>1. CASE q = Empty
    BY <1>5, <2>1 DEF WorkersOK
  <2>2. CASE q # Empty
    <3>1. DOMAIN workers' = {1} /\ workers'[1] = w
      BY <1>5, <2>2
    <3>2. IsWorker(w) /\ GrepOK(w) /\ w.query.mode # "grep" /\ ~w.done
      BY <1>4, <2>2 DEF GrepOK
    <3> QED
      BY <3>1, <3>2 DEF WorkersOK, IsWorker, GrepOK, AnswerOK
  <2> QED
    BY <2>1, <2>2
<1>9. Single'
  BY <1>5 DEF Single
<1>10. Followed'
  BY <1>1, <1>2, <1>5 DEF Followed, Asking, Complete
<1> QED
  BY <1>6, <1>7, <1>8, <1>9, <1>10 DEF DialogInv

LEMMA DismissInv == ASSUME DialogInv, NEW kind, NEW p, Dismiss(kind, p) PROVE DialogInv'
<1>1. UNCHANGED <<text, armed, cap, workers, known, hits, options, events, cursor, fetches, preview, doubled, fails>>
  BY DEF Dismiss, input, list, pane
<1> QED
  BY <1>1, PaneStays, FrameInv DEF DialogInv, Kinds

LEMMA UserInv == ASSUME DialogInv, User PROVE DialogInv'
<1>1. ASSUME NEW q, InputChanged(q), UNCHANGED <<cap, workers, known, list, pane, doubled, fails>> PROVE DialogInv'
  BY <1>1, InputInv
<1>2. CASE Type
  BY <1>1, <1>2 DEF Type
<1>3. CASE StepHistory
  <2>1. UNCHANGED <<cap, workers, known, list, pane, doubled, fails>>
    BY <1>3 DEF StepHistory
  <2>2. UNCHANGED <<text, armed>> \/ \E q : InputChanged(q)
    BY <1>3 DEF StepHistory
  <2>3. UNCHANGED <<text, armed>> => InputChanged(text)
    BY DEF InputChanged, DialogInv, Kinds
  <2> QED
    BY <1>1, <2>1, <2>2, <2>3
<1>4. CASE OpenInTree \/ OptionSelected
  BY <1>1, <1>4, DismissInv DEF OpenInTree, OptionSelected, TakeCorrection
<1>5. CASE ActOnHit \/ Cancel \/ RebuildIndex
  BY <1>5, DismissInv DEF ActOnHit, Cancel, RebuildIndex
<1> QED
  BY <1>2, <1>3, <1>4, <1>5, CycleCapInv, MoveHighlightInv DEF User

LEMMA DialogInit == Init => DialogInv
<1> SUFFICES ASSUME Init PROVE DialogInv
  OBVIOUS
<1>1. IsList(<<>>) /\ 1 \in 1..Len(Tiers)
  BY DEF IsList
<1>2. Kinds /\ Previewed
  BY <1>1 DEF Init, Kinds, Previewed
<1>3. DOMAIN workers = {} /\ hits = Complete(text)
  BY DEF Init, Complete
<1> QED
  BY <1>2, <1>3 DEF DialogInv, WorkersOK, Single, Followed

LEMMA DialogNext == DialogInv /\ [Next]_vars => DialogInv'
<1> SUFFICES ASSUME DialogInv, [Next]_vars PROVE DialogInv'
  OBVIOUS
<1>1. CASE UNCHANGED vars
  <2>1. UNCHANGED <<text, armed, cap, workers, known, hits, options, events, cursor, fetches, preview, doubled, fails>>
    BY <1>1 DEF vars, input, list, pane
  <2> QED
    BY <2>1, PaneStays, FrameInv DEF DialogInv, Kinds
<1>2. CASE Serve
  BY <1>2, DispatchInv, HighlightedInv, FetchedInv, AnsweredInv, GrepMatchInv, GrepEndsInv, ResultInv DEF Serve, Query
<1> QED
  BY <1>1, <1>2, UserInv, OpenInv DEF Next

LEMMA DialogInvariance == Spec => []DialogInv
BY DialogInit, DialogNext, PTL DEF Spec

\* At rest the results are those of what is in the input, whole, in whichever order
\* the queries were answered (SearchModal._on_query_result).
THEOREM ResultsFollow == Spec => []ResultsFollowQuery
<1>1. DialogInv => ResultsFollowQuery
  <2> SUFFICES ASSUME DialogInv, Rest, ~doubled, fails = 0 PROVE hits = Complete(text)
    BY DEF ResultsFollowQuery
  <2>1. ~armed /\ DOMAIN workers = {}
    BY DEF Rest
  <2> QED
    BY <2>1 DEF DialogInv, Followed
<1> QED
  BY <1>1, DialogInvariance, PTL

\* When everything has arrived the pane shows the file of the cursor
\* (SearchModal._render_preview).
THEOREM PreviewFollows == Spec => []PreviewFollowsCursor
<1>1. DialogInv => PreviewFollowsCursor
  BY DEF DialogInv, Previewed, PreviewFollowsCursor
<1> QED
  BY <1>1, DialogInvariance, PTL

=============================================================================
