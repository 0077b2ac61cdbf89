--------------------------- MODULE ChunkedJobsProofs ---------------------------
(***************************************************************************)
(* Proofs about the chunked jobs on the workspace.                          *)
(*                                                                         *)
(* SyncJob, for every number of files, targets, jobs, submits and crashes:    *)
(* what was synced stays synced (Synced), so what a state file or a job        *)
(* counts as completed can be relied on whenever it is read.  A job has each  *)
(* file of its target among the completed ones, or it is pending, in the       *)
(* batch under way, or was up to date when the job enumerated (Covered).      *)
(*                                                                         *)
(* BulkJobs, for every number of files, every size and every strategy: a       *)
(* batch takes one file at least and leaves the rest, whatever the sizes are   *)
(* (BatchLengthInRange), so no file is lost between two of them (NothingLost), *)
(* and a job on picked files never has another in its hands (Spared).         *)
(***************************************************************************)
EXTENDS MCChunkedJobs, SequencesExt, SequenceTheorems, FiniteSetTheorems,
        WellFoundedInduction, TLAPS

\* f was synced by a job of the key k.
Synced(k, f) == have[f] >= 1 /\ (k.force => local[f] >= 1)

FilesInv ==
  /\ head \in [Files -> Nat] /\ have \in [Files -> Nat] /\ local \in [Files -> Nat]
  /\ \A f \in Files : head[f] >= 1 /\ have[f] <= head[f]

JobsInv ==
  /\ saved \in [Keys -> (SUBSET Files) \cup {NoFile}]
  /\ pc \in [Jobs -> JobPC] /\ key \in [Jobs -> Keys]
  /\ pending \in [Jobs -> SUBSET Files] /\ completed \in [Jobs -> SUBSET Files]
  /\ batch \in [Jobs -> SUBSET Files]
  /\ goal \in [Jobs -> [Files -> Nat]]
  /\ submits \in Nat /\ crashes \in Nat

\* A file is in one place of a job.
Apart ==
  \A j \in Jobs :
    /\ pending[j] \cap completed[j] = {}
    /\ pc[j] = "sync" => batch[j] \cap pending[j] = {}
    /\ pc[j] \in {"new", "queued"} => pending[j] = {}

Covered(j, f) ==
  \/ f \in pending[j] \cup completed[j] \/ (pc[j] = "sync" /\ f \in batch[j])
  \/ ~key[j].force /\ have[f] >= goal[j][f]

CoverInv ==
  \A j \in Jobs :
    /\ \A f \in Files : goal[j][f] <= head[f]
    /\ pc[j] \in {"ready", "sync", "save"} => \A f \in Under[key[j].target] : Covered(j, f)

\* What is counted as completed was synced.
SyncedInv ==
  /\ \A k \in Keys : saved[k] # NoFile => \A f \in saved[k] : Synced(k, f)
  /\ \A j \in Jobs : \A f \in completed[j] : Synced(key[j], f)

IInv == FilesInv /\ JobsInv /\ Apart /\ SyncedInv /\ CoverInv

USE SyncJobAssumption DEF Keys

-----------------------------------------------------------------------------
(* The server.                                                             *)

\* A sync takes nothing back.
SpaceGrows ==
  /\ have' \in [Files -> Nat] /\ local' \in [Files -> Nat]
  /\ \A f \in Files : have[f] <= have'[f] /\ have'[f] <= head[f] /\ (local[f] >= 1 => local'[f] >= 1)

LEMMA SyncGrows ==
  ASSUME FilesInv, NEW S \in SUBSET Files, NEW force \in BOOLEAN, Sync(S, force)
  PROVE  SpaceGrows /\ \A f \in S : have'[f] = head[f] /\ (force => local'[f] = head[f])
BY DEF Sync, FilesInv, SpaceGrows

LEMMA SameGrows == ASSUME FilesInv, UNCHANGED space PROVE SpaceGrows
BY DEF FilesInv, space, SpaceGrows

LEMMA GrownFiles == ASSUME FilesInv, SpaceGrows, UNCHANGED head PROVE FilesInv'
BY DEF FilesInv, SpaceGrows

LEMMA StaysSynced ==
  ASSUME FilesInv, SpaceGrows, NEW k \in Keys, NEW f \in Files, Synced(k, f) PROVE Synced(k, f)'
BY DEF FilesInv, SpaceGrows, Synced

LEMMA StaySynced ==
  ASSUME FilesInv, JobsInv, SyncedInv, SpaceGrows, UNCHANGED <<saved, key, completed>>
  PROVE  SyncedInv'
<1>1. \A k \in Keys : saved[k] # NoFile => saved[k] \subseteq Files
  BY DEF JobsInv
<1>2. \A j \in Jobs : completed[j] \subseteq Files /\ key[j] \in Keys
  BY DEF JobsInv
<1> QED
  BY <1>1, <1>2, StaysSynced DEF SyncedInv, Synced

\* What holds of a job whose files stay as they are, when it stays where it is or stops.
LEMMA JobsStay ==
  ASSUME FilesInv, JobsInv, SpaceGrows, UNCHANGED head, CoverInv, Apart,
         UNCHANGED <<key, pending, completed, batch, goal>>,
         \A j \in Jobs : pc'[j] = pc[j] \/ pc'[j] \in {"done", "failed", "dropped"}
                         \/ (pc[j] = "new" /\ pc'[j] = "queued")
                         \/ (pc[j] = "save" /\ pc'[j] = "ready")
  PROVE  CoverInv' /\ Apart'
<1>1. Apart'
  BY DEF Apart
<1>2. CoverInv'
  <2> SUFFICES ASSUME NEW j \in Jobs
               PROVE  /\ \A f \in Files : goal'[j][f] <= head'[f]
                      /\ pc'[j] \in {"ready", "sync", "save"} =>
                           \A f \in Under[key'[j].target] : Covered(j, f)'
    BY DEF CoverInv
  <2>1. Under[key[j].target] \subseteq Files /\ \A f \in Files : goal[j][f] \in Nat
    BY DEF JobsInv
  <2>2. \A f \in Under[key[j].target] : have[f] >= goal[j][f] => have'[f] >= goal[j][f]
    BY <2>1 DEF SpaceGrows, FilesInv
  <2>3. \A f \in Files : goal'[j][f] <= head'[f]
    BY DEF CoverInv
  <2>4. \A f \in Under[key[j].target] : Covered(j, f) => Covered(j, f)' \/ pc'[j] # pc[j]
    BY <2>2 DEF Covered
  <2>5. pc'[j] # pc[j] /\ pc'[j] \in {"ready", "sync", "save"} => pc[j] = "save" /\ pc'[j] = "ready"
    OBVIOUS
  <2>6. \A f \in Under[key[j].target] : pc[j] = "save" /\ Covered(j, f) => Covered(j, f)'
    BY <2>2 DEF Covered
  <2> QED
    BY <2>3, <2>4, <2>5, <2>6 DEF CoverInv
<1> QED
  BY <1>1, <1>2

-----------------------------------------------------------------------------
(* Each action.                                                            *)

USE DEF Goto, server, space, job

LEMMA InitInv == Init => IInv
<1> SUFFICES ASSUME Init PROVE IInv
  OBVIOUS
<1>1. FilesInv
  <2>1. head = [f \in Files |-> 1] /\ have \in [Files -> {0, 1}] /\ local \in [Files -> {0, 1}]
    BY DEF Init
  <2> QED
    BY <2>1 DEF FilesInv
<1>2. JobsInv
  BY DEF Init, JobsInv, JobPC
<1>3. Apart /\ SyncedInv /\ CoverInv
  BY DEF Init, Apart, SyncedInv, CoverInv
<1> QED
  BY <1>1, <1>2, <1>3 DEF IInv

LEMMA OtherSubmitInv == ASSUME IInv, NEW f \in Files, OtherSubmit(f) PROVE IInv'
<1>1. FilesInv' /\ JobsInv'
  BY DEF OtherSubmit, IInv, FilesInv, JobsInv
<1>2. Apart' /\ SyncedInv'
  BY DEF OtherSubmit, IInv, Apart, SyncedInv, Synced
<1>3. \A g \in Files : head[g] <= head'[g]
  BY DEF OtherSubmit, IInv, FilesInv
<1>4. CoverInv'
  BY <1>3 DEF OtherSubmit, IInv, CoverInv, Covered, FilesInv, JobsInv
<1> QED
  BY <1>1, <1>2, <1>4 DEF IInv

LEMMA StoppingInv == ASSUME IInv, NEW j \in Jobs, SubmitJob(j) \/ Drop(j) PROVE IInv'
<1>1. SpaceGrows
  BY SameGrows DEF SubmitJob, Drop, IInv
<1>2. JobsInv'
  BY DEF SubmitJob, Drop, IInv, JobsInv, JobPC
<1>3. FilesInv' /\ SyncedInv'
  BY <1>1, GrownFiles, StaySynced DEF SubmitJob, Drop, IInv
<1>4. CoverInv' /\ Apart'
  BY <1>1, JobsStay DEF SubmitJob, Drop, IInv, JobsInv
<1> QED
  BY <1>2, <1>3, <1>4 DEF IInv

LEMMA PriorSynced ==
  ASSUME IInv, NEW j \in Jobs
  PROVE  Prior(j) \in SUBSET Files /\ \A f \in Prior(j) : Synced(key[j], f)
BY DEF IInv, JobsInv, SyncedInv, Prior, StateFile

LEMMA EnumerateInv == ASSUME IInv, NEW j \in Jobs, Enumerate(j) PROVE IInv'
<1>1. UNCHANGED <<head, submits, have, local, saved, key, batch, crashes>>
      /\ pc[j] = "queued" /\ pc' = [pc EXCEPT ![j] = "ready"]
      /\ completed' = [completed EXCEPT ![j] = Prior(j)]
      /\ pending' = [pending EXCEPT ![j] = Remaining(j)] /\ goal' = [goal EXCEPT ![j] = head]
  BY DEF Enumerate
<1>2. Under[key[j].target] \subseteq Files /\ Remaining(j) = Listed(key[j]) \ Prior(j)
      /\ Listed(key[j]) = {f \in Under[key[j].target] : key[j].force \/ have[f] # head[f]}
  BY DEF Remaining, Listed, IInv, JobsInv
<1>3. FilesInv'
  BY <1>1 DEF IInv, FilesInv
<1>4. JobsInv'
  <2>1. Remaining(j) \in SUBSET Files /\ Prior(j) \in SUBSET Files
    BY <1>2, PriorSynced
  <2> QED
    BY <1>1, <2>1 DEF IInv, JobsInv, JobPC, FilesInv
<1>5. Apart'
  BY <1>1, <1>2 DEF IInv, JobsInv, Apart
<1>6. SyncedInv'
  BY <1>1, PriorSynced DEF IInv, JobsInv, SyncedInv, Synced
<1>7. CoverInv'
  <2>1. \A i \in Jobs \ {j} : pc'[i] = pc[i] /\ pending'[i] = pending[i]
                              /\ completed'[i] = completed[i] /\ goal'[i] = goal[i]
    BY <1>1 DEF IInv, JobsInv
  <2>2. pc'[j] = "ready" /\ pending'[j] = Remaining(j) /\ completed'[j] = Prior(j) /\ goal'[j] = head
    BY <1>1 DEF IInv, JobsInv
  <2>3. \A f \in Files : goal'[j][f] <= head'[f]
    BY <1>1, <2>2 DEF IInv, FilesInv
  <2>4. \A f \in Under[key[j].target] : f \in pending'[j] \cup completed'[j]
                                         \/ (~key[j].force /\ have[f] = head[f])
    BY <1>2, <2>2
  <2>5. \A f \in Under[key'[j].target] : Covered(j, f)'
    BY <1>1, <1>2, <2>2, <2>4 DEF Covered, IInv, FilesInv
  <2> QED
    BY <1>1, <2>1, <2>3, <2>5 DEF IInv, CoverInv, Covered
<1> QED
  BY <1>3, <1>4, <1>5, <1>6, <1>7 DEF IInv

LEMMA EnumerateFailsInv == ASSUME IInv, NEW j \in Jobs, EnumerateFails(j) PROVE IInv'
<1>1. UNCHANGED <<head, submits, have, local, saved, key, pending, batch, goal, crashes>>
      /\ pc[j] = "queued" /\ pc' = [pc EXCEPT ![j] = "failed"]
      /\ completed' = [completed EXCEPT ![j] = Prior(j)]
  BY DEF EnumerateFails
<1>2. FilesInv'
  BY <1>1 DEF IInv, FilesInv
<1>3. JobsInv'
  BY <1>1, PriorSynced DEF IInv, JobsInv, JobPC
<1>4. Apart'
  BY <1>1 DEF IInv, JobsInv, Apart
<1>5. SyncedInv'
  BY <1>1, PriorSynced DEF IInv, JobsInv, SyncedInv, Synced
<1>6. CoverInv'
  BY <1>1 DEF IInv, JobsInv, CoverInv, Covered
<1> QED
  BY <1>2, <1>3, <1>4, <1>5, <1>6 DEF IInv

LEMMA NextBatchInv == ASSUME IInv, NEW j \in Jobs, NextBatch(j) PROVE IInv'
<1>1. PICK b \in (SUBSET pending[j]) \ {{}} :
        batch' = [batch EXCEPT ![j] = b] /\ pending' = [pending EXCEPT ![j] = @ \ b]
  BY DEF NextBatch
<1>2. UNCHANGED <<head, submits, have, local, saved, key, completed, goal, crashes>>
      /\ pc[j] = "ready" /\ pc' = [pc EXCEPT ![j] = "sync"]
  BY DEF NextBatch
<1>3. FilesInv'
  BY <1>2 DEF IInv, FilesInv
<1>4. JobsInv'
  BY <1>1, <1>2 DEF IInv, JobsInv, JobPC
<1>5. Apart'
  BY <1>1, <1>2 DEF IInv, JobsInv, Apart
<1>6. SyncedInv'
  BY <1>2 DEF IInv, SyncedInv, Synced
<1>7. CoverInv'
  BY <1>1, <1>2 DEF IInv, JobsInv, CoverInv, Covered
<1> QED
  BY <1>3, <1>4, <1>5, <1>6, <1>7 DEF IInv

LEMMA SyncBatchInv == ASSUME IInv, NEW j \in Jobs, SyncBatch(j) PROVE IInv'
<1>1. UNCHANGED <<head, submits, saved, key, pending, batch, goal, crashes>>
      /\ pc[j] = "sync" /\ pc' = [pc EXCEPT ![j] = "save"]
      /\ completed' = [completed EXCEPT ![j] = completed[j] \cup batch[j]]
      /\ Sync(batch[j], key[j].force)
  BY DEF SyncBatch, Progress
<1>2. SpaceGrows /\ \A f \in batch[j] : have'[f] = head[f] /\ (key[j].force => local'[f] = head[f])
  BY <1>1, SyncGrows, SMTT(20) DEF IInv, JobsInv
<1>3. FilesInv'
  BY <1>1, <1>2, GrownFiles DEF IInv
<1>4. JobsInv'
  BY <1>1 DEF IInv, JobsInv, JobPC
<1>5. Apart'
  BY <1>1 DEF IInv, JobsInv, Apart
<1>6. SyncedInv'
  <2>1. \A f \in batch[j] : have'[f] >= 1 /\ (key[j].force => local'[f] >= 1)
    BY <1>2 DEF IInv, JobsInv, FilesInv
  <2>2. \A k \in Keys : saved[k] # NoFile => \A f \in saved[k] : Synced(k, f)'
    BY <1>2, StaysSynced DEF IInv, JobsInv, SyncedInv
  <2>3. \A i \in Jobs : \A f \in completed[i] : Synced(key[i], f)'
    BY <1>1, <1>2, StaysSynced DEF IInv, JobsInv, SyncedInv
  <2>4. \A i \in Jobs : \A f \in completed'[i] : f \in completed[i] \/ (i = j /\ f \in batch[j])
    BY <1>1 DEF IInv, JobsInv
  <2> QED
    BY <1>1, <2>1, <2>2, <2>3, <2>4 DEF SyncedInv, Synced
<1>7. CoverInv'
  BY <1>1, <1>2 DEF IInv, JobsInv, FilesInv, CoverInv, Covered, SpaceGrows
<1> QED
  BY <1>3, <1>4, <1>5, <1>6, <1>7 DEF IInv

\* A command that fails, or dies with the process, may have been executed in part.
LEMMA PartGrows ==
  ASSUME IInv, NEW j \in Jobs, NEW S \in SUBSET batch[j], Sync(S, key[j].force) PROVE SpaceGrows
BY SyncGrows DEF IInv, JobsInv

LEMMA SyncFailsInv == ASSUME IInv, NEW j \in Jobs, SyncFails(j) PROVE IInv'
<1>1. SpaceGrows
  BY PartGrows DEF SyncFails
<1>2. JobsInv'
  BY DEF SyncFails, IInv, JobsInv, JobPC
<1>3. FilesInv' /\ SyncedInv'
  BY <1>1, GrownFiles, StaySynced DEF SyncFails, IInv
<1>4. CoverInv' /\ Apart'
  BY <1>1, JobsStay DEF SyncFails, IInv, JobsInv
<1> QED
  BY <1>2, <1>3, <1>4 DEF IInv

LEMMA CrashInv == ASSUME IInv, Crash PROVE IInv'
<1>1. SpaceGrows
  BY PartGrows, SameGrows DEF Crash, IInv
<1>2. JobsInv'
  BY DEF Crash, IInv, JobsInv, JobPC
<1>3. FilesInv' /\ SyncedInv'
  BY <1>1, GrownFiles, StaySynced DEF Crash, IInv
<1>4. CoverInv' /\ Apart'
  BY <1>1, JobsStay DEF Crash, IInv, JobsInv
<1> QED
  BY <1>2, <1>3, <1>4 DEF IInv

\* The state file is replaced by what the job has completed, or removed.
LEMMA SaveInv == ASSUME IInv, NEW j \in Jobs, Save(j) \/ Finish(j) PROVE IInv'
<1>1. SpaceGrows
  BY SameGrows DEF Save, Finish, IInv
<1>2. UNCHANGED <<head, submits, have, local, key, pending, completed, batch, goal, crashes>>
  BY DEF Save, Finish
<1>3. saved' \in {saved, [saved EXCEPT ![key[j]] = completed[j]], [saved EXCEPT ![key[j]] = NoFile]}
  BY DEF Save, Finish, StateFile
<1>4. JobsInv'
  BY <1>2, <1>3 DEF Save, Finish, IInv, JobsInv, JobPC
<1>5. FilesInv'
  BY <1>2 DEF IInv, FilesInv
<1>6. SyncedInv'
  BY <1>2, <1>3 DEF IInv, JobsInv, SyncedInv, Synced
<1>7. CoverInv' /\ Apart'
  BY <1>1, <1>2, JobsStay DEF Save, Finish, IInv, JobsInv
<1> QED
  BY <1>4, <1>5, <1>6, <1>7 DEF IInv

LEMMA DiscardInv == ASSUME IInv, NEW k \in Keys, Discard(k) PROVE IInv'
<1>1. FilesInv' /\ JobsInv'
  BY DEF Discard, IInv, FilesInv, JobsInv
<1>2. Apart' /\ CoverInv'
  BY DEF Discard, IInv, Apart, CoverInv, Covered
<1>3. SyncedInv'
  BY DEF Discard, IInv, JobsInv, SyncedInv, Synced
<1> QED
  BY <1>1, <1>2, <1>3 DEF IInv

LEMMA NextInv == IInv /\ [Next]_vars => IInv'
<1> SUFFICES ASSUME IInv, [Next]_vars PROVE IInv'
  OBVIOUS
<1>1. CASE UNCHANGED vars
  <2>1. FilesInv' /\ JobsInv'
    BY <1>1 DEF vars, IInv, FilesInv, JobsInv
  <2>2. Apart' /\ SyncedInv' /\ CoverInv'
    BY <1>1 DEF vars, IInv, Apart, SyncedInv, Synced, CoverInv, Covered
  <2> QED
    BY <2>1, <2>2 DEF IInv
<1>2. CASE \E j \in Jobs : Step(j)
  BY <1>2, StoppingInv, EnumerateInv, EnumerateFailsInv, NextBatchInv, SyncBatchInv, SyncFailsInv,
     SaveInv DEF Step
<1>3. CASE \E f \in Files : OtherSubmit(f)
  BY <1>3, OtherSubmitInv
<1>4. CASE \E k \in Keys : Discard(k)
  BY <1>4, DiscardInv
<1>5. CASE Crash
  BY <1>5, CrashInv
<1> QED
  BY <1>1, <1>2, <1>3, <1>4, <1>5 DEF Next

LEMMA Invariant == Spec => []IInv
BY InitInv, NextInv, PTL DEF Spec

-----------------------------------------------------------------------------
(* The theorems.                                                           *)

\* Every variable keeps its type, and no file is pending and completed in a job.
THEOREM TypeCorrect == Spec => []TypeOK
<1>1. IInv => TypeOK
  BY DEF IInv, FilesInv, JobsInv, Apart, TypeOK
<1> QED
  BY <1>1, Invariant, PTL

\* What a state file or a job counts as completed was synced, over every crash, resume
\* and overlapping job (sync_job.py, _save_state and _load_state).
THEOREM CompletedSynced == Spec => []CompletedWasSynced
<1>1. IInv => CompletedWasSynced
  BY DEF IInv, SyncedInv, Synced, CompletedWasSynced
<1> QED
  BY <1>1, Invariant, PTL

\* A sync that ends as done has brought every file of its target up to date, but for
\* files submitted after an interrupted run had confirmed them (sync_job.py,
\* _enumerate_chunk).
THEOREM DoneIsDone == Spec => DoneUnlessOutrun
<1> DEFINE Brought ==
      \A j \in Jobs : pc[j] # "done" /\ pc'[j] = "done" =>
        \A f \in Under[key[j].target] :
          \/ UpToDate(j, f)
          \/ head[f] > 1 /\ have[f] >= 1 /\ (key[j].force => local[f] >= 1)
<1>1. IInv /\ [Next]_vars => [Brought]_vars
  <2> SUFFICES ASSUME IInv, Next, NEW j \in Jobs, pc[j] # "done", pc'[j] = "done",
                      NEW f \in Under[key[j].target]
               PROVE  \/ UpToDate(j, f)
                      \/ head[f] > 1 /\ have[f] >= 1 /\ (key[j].force => local[f] >= 1)
    OBVIOUS
  <2>1. Finish(j)
    <3>1. \A i \in Jobs : Step(i) => i = j /\ Finish(j)
      BY DEF Step, SubmitJob, Enumerate, EnumerateFails, NextBatch, SyncBatch, SyncFails, Save, Finish,
             Drop, IInv, JobsInv
    <3>2. /\ \A g \in Files : ~OtherSubmit(g)
          /\ \A k \in Keys : ~Discard(k)
          /\ ~Crash
      BY DEF OtherSubmit, Discard, Crash, IInv, JobsInv
    <3> QED
      BY <3>1, <3>2 DEF Next
  <2>2. f \in Files /\ Covered(j, f) /\ pc[j] = "ready" /\ pending[j] = {} /\ goal[j][f] <= head[f]
        /\ goal[j][f] \in Nat /\ head[f] \in Nat /\ have[f] \in Nat /\ local[f] \in Nat
    BY <2>1 DEF Finish, Drained, IInv, JobsInv, FilesInv, CoverInv
  <2>3. CASE ~key[j].force /\ have[f] >= goal[j][f]
    BY <2>3 DEF UpToDate
  <2>4. CASE f \in completed[j]
    <3>1. have[f] >= 1 /\ (key[j].force => local[f] >= 1)
      BY <2>4 DEF IInv, SyncedInv, Synced
    <3> QED
      BY <2>2, <3>1 DEF UpToDate
  <2> QED
    BY <2>2, <2>3, <2>4 DEF Covered
<1> QED
  BY <1>1, Invariant, PTL DEF Spec, DoneUnlessOutrun

-----------------------------------------------------------------------------
(* Sequences and batches.                                                  *)

\* The smallest of some numbers.
LEMMA Smallest ==
  ASSUME NEW T, T \subseteq Nat, T # {} PROVE \E k \in T : \A j \in T : ~(j < k)
<1>1. PICK k \in T : \A j \in T : <<j, k>> \notin OpToRel(<, Nat)
  BY WFMin, NatLessThanWellFounded
<1> QED
  BY <1>1 DEF OpToRel

LEMMA SetToSeqHasAll ==
  ASSUME NEW S, IsFiniteSet(S) PROVE SetToSeq(S) \in Seq(S) /\ ToSet(SetToSeq(S)) = S
<1> DEFINE n == Cardinality(S)
           f == SetToSeq(S)
<1>1. n \in Nat /\ \E g \in [1..n -> S] : IsInjective(g)
  BY FS_CardinalityType DEF ExistsBijection, Bijection, Injection
<1>2. f \in [1..n -> S] /\ IsInjective(f)
  BY <1>1 DEF SetToSeq
<1>3. f \in Surjection(1..n, S)
  <2>1. f \in Injection(1..n, S)
    BY <1>2 DEF Injection
  <2>2. Cardinality(1..n) = n
    BY <1>1, FS_Interval
  <2> QED
    BY <2>1, <2>2, FS_Injection
<1>4. f \in Seq(S)
  BY <1>1, <1>2, SeqDef
<1>5. DOMAIN f = 1..n /\ \A i \in 1..n : f[i] \in S
  BY <1>2
<1>6. \A t \in S : \E i \in 1..n : f[i] = t
  BY <1>3 DEF Surjection
<1>7. ToSet(f) = S
  <2> HIDE DEF n, f
  <2> QED
    BY <1>5, <1>6 DEF ToSet
<1> QED
  BY <1>4, <1>7

\* An instance has operators of its own for those of the modules it extends.
LEMMA SameOperators ==
  ASSUME NEW S
  PROVE  /\ B!IsFiniteSet(S) <=> IsFiniteSet(S)
         /\ B!ToSet(S) = ToSet(S) /\ B!SetToSeq(S) = SetToSeq(S)
<1>1. B!IsFiniteSet(S) <=> IsFiniteSet(S)
  BY DEF IsFiniteSet, B!IsFiniteSet
<1>2. B!ToSet(S) = ToSet(S)
  BY DEF ToSet, B!ToSet
<1>3. B!Cardinality(S) = Cardinality(S)
  BY DEF Cardinality, B!Cardinality
<1>4. ASSUME NEW f PROVE B!IsInjective(f) <=> IsInjective(f)
  BY DEF IsInjective, B!IsInjective
<1>5. B!SetToSeq(S) = SetToSeq(S)
  BY <1>3, <1>4 DEF SetToSeq, B!SetToSeq
<1> QED
  BY <1>1, <1>2, <1>5

\* Nothing is lost where a sequence is cut.
LEMMA CutCovers ==
  ASSUME NEW S, NEW s \in Seq(S), NEW k \in 1..Len(s)
  PROVE  /\ SubSeq(s, k + 1, Len(s)) \in Seq(S)
         /\ ToSet(SubSeq(s, 1, k)) \subseteq S
         /\ ToSet(s) \subseteq ToSet(SubSeq(s, 1, k)) \cup ToSet(SubSeq(s, k + 1, Len(s)))
<1> DEFINE a == SubSeq(s, 1, k)
           b == SubSeq(s, k + 1, Len(s))
<1>1. k \in Nat /\ Len(s) \in Nat /\ \A i \in 1..Len(s) : s[i] \in S
  OBVIOUS
<1>2. a \in Seq(S) /\ Len(a) = k /\ \A i \in 1..k : a[i] = s[i]
  BY <1>1, SubSeqProperties
<1>3. b \in Seq(S) /\ Len(b) = Len(s) - k /\ \A i \in 1..(Len(s) - k) : b[i] = s[k + i]
  BY <1>1, SubSeqProperties
<1>4. ASSUME NEW i \in 1..Len(s) PROVE s[i] \in ToSet(a) \cup ToSet(b)
  <2>1. CASE i <= k
    <3>1. i \in DOMAIN a /\ a[i] = s[i]
      BY <1>1, <1>2, <2>1
    <3> QED
      BY <3>1 DEF ToSet
  <2>2. CASE i > k
    <3>1. i - k \in DOMAIN b /\ b[i - k] = s[i]
      BY <1>1, <1>3, <2>2
    <3> QED
      BY <3>1 DEF ToSet
  <2> QED
    BY <2>1, <2>2
<1>5. ToSet(a) \subseteq S
  BY <1>2 DEF ToSet
<1>6. ToSet(s) \subseteq ToSet(a) \cup ToSet(b)
  <2>1. \A x \in ToSet(s) : \E i \in 1..Len(s) : x = s[i]
    BY DEF ToSet
  <2> QED
    BY <1>4, <2>1
<1> QED
  BY <1>3, <1>5, <1>6

Typed(st) == st.mode \in {"count", "size", "single", "subdir"} /\ st.files \in Nat \ {0}

\* A batch takes one file at least and no more than there are, also when the sizes
\* are not known or one file is over the budget (chunking.py, chunk_by_size).
LEMMA BatchLengthInRange ==
  ASSUME NEW S, NEW s \in Seq(S), s # <<>>, Typed(strategy) PROVE B!BatchLength(s) \in 1..Len(s)
<1>1. Len(s) \in Nat \ {0}
  OBVIOUS
<1>2. CASE strategy.mode = "single"
  <2>1. B!BatchLength(s) = 1
    BY <1>2 DEF B!BatchLength, B!BySize
  <2> QED
    BY <1>1, <2>1
<1>3. CASE strategy.mode # "single" /\ B!BySize
  <2> DEFINE Over(k) == B!Weight(SubSeq(s, 1, k)) > strategy.bytes
             Fits(k) == (k = 1 \/ ~Over(k)) /\ (k = Len(s) \/ Over(k + 1))
             T == {k \in 1..Len(s) : k = Len(s) \/ Over(k + 1)}
  <2>1. T \subseteq Nat /\ T # {}
    BY <1>1
  <2>2. PICK k \in T : \A j \in T : ~(j < k)
    BY <2>1, Smallest
  <2>3. k = 1 \/ ~Over(k)
    <3> SUFFICES ASSUME k # 1, Over(k) PROVE FALSE
      OBVIOUS
    <3>1. k - 1 \in 1..Len(s) /\ (k - 1) + 1 = k /\ k - 1 < k
      BY <2>2, <1>1
    <3> QED
      BY <2>2, <3>1
  <2>4. \E i \in 1..Len(s) : Fits(i)
    BY <2>2, <2>3
  <2>5. B!BatchLength(s) = CHOOSE i \in 1..Len(s) : Fits(i)
    BY <1>3 DEF B!BatchLength
  <2> QED
    BY <2>4, <2>5
<1>4. CASE strategy.mode # "single" /\ ~B!BySize
  <2>1. B!BatchLength(s) = B!MinNat(strategy.files, Len(s))
    BY <1>4 DEF B!BatchLength
  <2> QED
    BY <1>1, <2>1 DEF B!MinNat, Typed
<1> QED
  BY <1>2, <1>3, <1>4

-----------------------------------------------------------------------------
(* The invariant.                                                          *)

Before == {"idle", "picker", "confirm", "queued"}

BulkTypeInv ==
  /\ op \in {"reconcile", "clean", "revert"} /\ place \in B!BulkPC /\ Typed(strategy)
  /\ opened \subseteq BulkFiles /\ preview \subseteq BulkFiles /\ picked \subseteq preview
  /\ place \in {"idle", "picker"} => picked = {}
  /\ place \in Before => wiped = {}

\* The files of a job that does not walk the subdirectories are in its batches.
NothingLost ==
  place \in {"running", "done"} /\ ~B!Walks =>
    /\ queue \in Seq(BulkFiles) /\ target \subseteq handled \cup ToSet(queue)
    /\ place = "done" => queue = <<>>

\* A job on a part of the dry run has only that part in its hands.
Spared ==
  op = "clean" /\ ~B!Whole => wiped \subseteq picked /\ (place = "running" => queue \in Seq(picked))

BulkInv == B!BulkAssumption /\ BulkTypeInv /\ NothingLost /\ Spared

USE DEF B!space, B!dialog, B!job, B!hist

LEMMA BulkInit == ASSUME B!BulkAssumption, B!Init PROVE BulkInv
<1>1. opened \subseteq BulkFiles /\ preview = {} /\ picked = {} /\ wiped = {}
  BY DEF B!Init, B!Differs
<1>2. op \in {"reconcile", "clean", "revert"} /\ place = "idle" /\ Typed(strategy)
  BY DEF B!Init, Typed, B!BySubdir
<1>3. BulkTypeInv
  BY <1>1, <1>2 DEF BulkTypeInv, B!BulkPC
<1> QED
  BY <1>1, <1>2, <1>3 DEF BulkInv, NothingLost, Spared

LEMMA DialogInv == ASSUME BulkInv, B!OpenPreview \/ B!Pick \/ B!AskRevert \/ B!Confirm PROVE BulkInv'
<1>1. UNCHANGED <<opened, op, wiped>> /\ place \in Before /\ place' \in Before
  BY DEF B!OpenPreview, B!Pick, B!AskRevert, B!Confirm, Before
<1>2. Typed(strategy)'
  BY DEF B!OpenPreview, B!Pick, B!AskRevert, B!Confirm, BulkInv, BulkTypeInv, Typed, B!BulkAssumption
<1>3. preview' \subseteq BulkFiles /\ picked' \subseteq preview' /\ (place' \in {"idle", "picker"} => picked' = {})
  BY DEF B!OpenPreview, B!Pick, B!AskRevert, B!Confirm, BulkInv, BulkTypeInv, B!Listed, B!Differs
<1>4. BulkTypeInv'
  BY <1>1, <1>2, <1>3 DEF BulkInv, BulkTypeInv, Before, B!BulkPC
<1> QED
  BY <1>1, <1>4 DEF BulkInv, BulkTypeInv, NothingLost, Spared, Before, B!Whole

LEMMA StartExplicitInv == ASSUME BulkInv, B!StartExplicit PROVE BulkInv'
<1>1. UNCHANGED <<opened, op, preview, picked, wiped>> /\ place = "queued" /\ place' = "running" /\ B!Explicit
      /\ queue' = SetToSeq(picked) /\ target' = picked /\ strategy' = B!ByDefault
  BY SameOperators DEF B!StartExplicit
<1>2. IsFiniteSet(picked)
  BY FS_Subset, SameOperators DEF BulkInv, BulkTypeInv, B!BulkAssumption
<1>3. queue' \in Seq(picked) /\ ToSet(queue') = picked
  BY <1>1, <1>2, SetToSeqHasAll
<1>4. BulkTypeInv'
  BY <1>1 DEF BulkInv, BulkTypeInv, Typed, B!ByDefault, B!BulkAssumption, B!BulkPC, Before
<1>5. queue' \in Seq(BulkFiles)
  BY <1>3, SeqMonotonic DEF BulkInv, BulkTypeInv
<1>6. NothingLost'
  BY <1>1, <1>3, <1>5 DEF NothingLost
<1>7. Spared'
  BY <1>1, <1>3 DEF Spared, BulkInv, BulkTypeInv, Before, B!Whole
<1> QED
  BY <1>4, <1>6, <1>7 DEF BulkInv

LEMMA EnumerateOpenedInv == ASSUME BulkInv, B!EnumerateOpened PROVE BulkInv'
<1>1. UNCHANGED <<opened, op, preview, picked, strategy, wiped>> /\ place = "queued" /\ place' = "running"
      /\ op = "revert" /\ target' \in {opened, {}} /\ queue' = SetToSeq(target')
  BY SameOperators DEF B!EnumerateOpened
<1>2. target' \subseteq BulkFiles /\ IsFiniteSet(target')
  BY <1>1, FS_Subset, FS_EmptySet, SameOperators DEF BulkInv, BulkTypeInv, B!BulkAssumption
<1>3. queue' \in Seq(target') /\ ToSet(queue') = target'
  BY <1>1, <1>2, SetToSeqHasAll
<1>4. queue' \in Seq(BulkFiles)
  BY <1>2, <1>3, SeqMonotonic
<1>5. BulkTypeInv'
  BY <1>1 DEF BulkInv, BulkTypeInv, Typed, B!BulkPC, Before
<1> QED
  BY <1>1, <1>3, <1>4, <1>5 DEF BulkInv, NothingLost, Spared

LEMMA EnumerateDirsInv == ASSUME BulkInv, B!EnumerateDirs PROVE BulkInv'
<1>1. UNCHANGED <<opened, op, preview, picked, strategy, wiped>> /\ place = "queued" /\ place' = "running"
      /\ B!Walks /\ B!Whole
  BY DEF B!EnumerateDirs, B!Walks, B!Explicit
<1>2. BulkTypeInv'
  BY <1>1 DEF BulkInv, BulkTypeInv, Typed, B!BulkPC, Before
<1>3. B!Walks' /\ B!Whole'
  BY <1>1 DEF B!Walks, B!Explicit, B!Whole
<1> QED
  BY <1>2, <1>3 DEF BulkInv, NothingLost, Spared

\* What a command does to files outside its list: nothing.
LEMMA RunTakes ==
  ASSUME NEW S, B!Run(S), op \in {"reconcile", "clean", "revert"}, opened \subseteq BulkFiles
  PROVE  /\ handled' = handled \cup S /\ opened' \subseteq BulkFiles
         /\ op = "clean" => wiped' \subseteq wiped \cup S
<1>1. B!Listed \subseteq BulkFiles
  BY DEF B!Listed, B!Differs
<1> QED
  BY <1>1 DEF B!Run, B!Reconcile, B!Clean, B!Revert

LEMMA RunChunkInv == ASSUME BulkInv, B!RunChunk PROVE BulkInv'
<1>1. UNCHANGED <<place, op, strategy, preview, picked, target>> /\ place = "running" /\ queue # <<>>
  BY DEF B!RunChunk
<1>2. (B!Walks' <=> B!Walks) /\ (B!Whole' <=> B!Whole)
  BY <1>1 DEF B!Walks, B!Explicit, B!Whole
<1>3. op \in {"reconcile", "clean", "revert"} /\ opened \subseteq BulkFiles
  BY DEF BulkInv, BulkTypeInv
<1>4. CASE B!Walks
  <2>1. B!Whole
    BY <1>4 DEF B!Walks, B!Explicit
  <2>2. opened' \subseteq BulkFiles
    BY <1>3, <1>4, RunTakes DEF B!RunChunk
  <2> QED
    BY <1>1, <1>2, <1>4, <2>1, <2>2 DEF BulkInv, BulkTypeInv, NothingLost, Spared, Before
<1>5. CASE ~B!Walks
  <2> DEFINE k == B!BatchLength(queue)
             b == ToSet(SubSeq(queue, 1, k))
  <2>1. B!Run(b) /\ queue' = SubSeq(queue, k + 1, Len(queue))
    BY <1>5, SameOperators DEF B!RunChunk, B!Rest
  <2>2. queue \in Seq(BulkFiles) /\ target \subseteq handled \cup ToSet(queue)
    BY <1>1, <1>5 DEF BulkInv, NothingLost
  <2>3. k \in 1..Len(queue)
    BY <1>1, <2>2, BatchLengthInRange DEF BulkInv, BulkTypeInv
  <2>4. handled' = handled \cup b /\ opened' \subseteq BulkFiles /\ (op = "clean" => wiped' \subseteq wiped \cup b)
    BY <1>3, <2>1, RunTakes
  <2>5. queue' \in Seq(BulkFiles) /\ ToSet(queue) \subseteq b \cup ToSet(queue')
    BY <2>1, <2>2, <2>3, CutCovers
  <2>6. NothingLost'
    BY <1>1, <2>2, <2>4, <2>5 DEF NothingLost
  <2>7. ASSUME op = "clean", ~B!Whole PROVE wiped' \subseteq picked /\ queue' \in Seq(picked)
    <3>1. queue \in Seq(picked) /\ wiped \subseteq picked
      BY <1>1, <2>7 DEF BulkInv, Spared
    <3>2. b \subseteq picked /\ queue' \in Seq(picked)
      BY <2>1, <2>3, <3>1, CutCovers
    <3> QED
      BY <2>4, <2>7, <3>1, <3>2
  <2>8. Spared'
    BY <1>1, <1>2, <2>7 DEF Spared
  <2>9. BulkTypeInv'
    BY <1>1, <2>4 DEF BulkInv, BulkTypeInv, Before
  <2> QED
    BY <2>6, <2>8, <2>9 DEF BulkInv
<1> QED
  BY <1>4, <1>5

LEMMA EndInv == ASSUME BulkInv, B!ChunkFails \/ B!Finish PROVE BulkInv'
<1>1. UNCHANGED <<opened, op, strategy, preview, picked, wiped, handled, target, queue>>
      /\ place = "running" /\ (place' = "failed" \/ (place' = "done" /\ queue = <<>>))
  BY DEF B!ChunkFails, B!Finish
<1>2. (B!Walks' <=> B!Walks) /\ (B!Whole' <=> B!Whole)
  BY <1>1 DEF B!Walks, B!Explicit, B!Whole
<1>3. BulkTypeInv'
  BY <1>1 DEF BulkInv, BulkTypeInv, B!BulkPC, Before
<1> QED
  BY <1>1, <1>2, <1>3 DEF BulkInv, NothingLost, Spared

LEMMA BulkUnchangedInv ==
  ASSUME BulkInv, UNCHANGED <<opened, place, B!dialog, B!job, B!hist>> PROVE BulkInv'
<1>1. (B!Walks' <=> B!Walks) /\ (B!Whole' <=> B!Whole)
  BY DEF B!Walks, B!Explicit, B!Whole
<1> QED
  BY <1>1 DEF BulkInv, BulkTypeInv, NothingLost, Spared

LEMMA BulkNext == BulkInv /\ [B!Next]_B!vars => BulkInv'
<1> SUFFICES ASSUME BulkInv, [B!Next]_B!vars PROVE BulkInv'
  OBVIOUS
<1>1. CASE UNCHANGED B!vars
  BY <1>1, BulkUnchangedInv DEF B!vars
<1>2. CASE B!OpenPreview \/ B!Pick \/ B!AskRevert \/ B!Confirm
  BY <1>2, DialogInv
<1>3. CASE B!StartExplicit \/ B!EnumerateOpened \/ B!EnumerateDirs
  BY <1>3, StartExplicitInv, EnumerateOpenedInv, EnumerateDirsInv
<1>4. CASE B!RunChunk \/ B!ChunkFails \/ B!Finish
  BY <1>4, RunChunkInv, EndInv
<1>5. CASE \E f \in BulkFiles : B!Edit(f)
  BY <1>5, BulkUnchangedInv DEF B!Edit
<1> QED
  BY <1>1, <1>2, <1>3, <1>4, <1>5 DEF B!Next

LEMMA BulkInvariant == ASSUME B!BulkAssumption PROVE B!Spec => []BulkInv
BY BulkInit, BulkNext, PTL DEF B!Spec

-----------------------------------------------------------------------------
(* The theorems.                                                           *)

\* A clean of part of the dry run discards local changes of the picked files only,
\* whatever is edited meanwhile (app.py, the picker; bulk_jobs.py, ChunkedReconcileJob).
THEOREM PickedWiped == B!Spec => []PickedIsWiped
<1>1. BulkInv => PickedIsWiped
  BY DEF BulkInv, Spared, PickedIsWiped, B!PickedIsWiped
<1> QED
  BY <1>1, BulkInvariant, BulkJobsAssumption, PTL

\* A job that ends as done has run a chunk for every file it had taken on, for every
\* strategy and all sizes, known or not (chunking.py).
THEOREM DoneHandled == B!Spec => []DoneIsHandled
<1>1. BulkInv => DoneIsHandled
  BY DEF BulkInv, NothingLost, DoneIsHandled, B!DoneIsHandled, ToSet
<1> QED
  BY <1>1, BulkInvariant, BulkJobsAssumption, PTL
================================================================================
