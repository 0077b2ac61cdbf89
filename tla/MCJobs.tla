-------------------------------- MODULE MCJobs --------------------------------
(***************************************************************************)
(* The job runner for TLC (JobRunner), and the job that says most about it:   *)
(* Submit & Resolve, where files are resolved (Merges) and the changelist is   *)
(* submitted (ResilientSubmit).  They are looked at one at a time: a          *)
(* behaviour is one of the runner, of the resolving or of the submit.         *)
(***************************************************************************)
EXTENDS JobRunner, TLC

CONSTANTS
  sync, submit, key, quit, ui,
  MaxAttempts, MaxOutages,
  Files, Cases, Mergers, MaxAsked, Nothing

VARIABLES
  change, up, step, attempt, answer, committed, blind, outages,
  opened, chunks, due, text, queued, dialog, asked, batch, merger, told, disturbed,
  subject  \* what the behaviour is about

submitVars == <<change, up, step, attempt, answer, committed, blind, outages>>
mergeVars  == <<opened, chunks, due, text, queued, dialog, asked, batch, merger, told, disturbed>>

S == INSTANCE ResilientSubmit WITH pc <- step
M == INSTANCE Merges
T == INSTANCE Merge3

ASSUME SubmitAssumption == S!SubmitAssumption
ASSUME MergesAssumption == M!MergesAssumption

-----------------------------------------------------------------------------

\* A two-chunk job next to a submit, which has a single chunk.
TwoJobs == {sync, submit}
TwoJobChunks == (sync :> 2) @@ (submit :> 1)

One(w) == <<T!Line(w)>>

\* Two conflicts next to each other, each with an empty side; a clean merge.
TwoCases ==
  {<<T!Same(One("a")), [base |-> One("b"), theirs |-> One("c"), yours |-> <<>>],
     [base |-> One("c"), theirs |-> One("b"), yours |-> <<>>], T!Same(One("d"))>>,
   <<[base |-> One("a"), theirs |-> One("b"), yours |-> One("a")]>>}

-----------------------------------------------------------------------------
(* What the others are where they begin.                                   *)

Submitted ==
  /\ change = "submitted" /\ step = "done" /\ attempt = 1 /\ answer = "committed"
  /\ committed = TRUE /\ blind = FALSE /\ up = TRUE /\ outages = 0

Resolved ==
  /\ opened = {} /\ due = {} /\ asked = 0 /\ queued = FALSE
  /\ chunks = [f \in Files |-> <<>>] /\ text = chunks
  /\ told = [f \in Files |-> Nothing] /\ disturbed = {}
  /\ merger = [m \in Mergers |-> M!Idle] /\ dialog = M!Closed /\ batch = M!NoBatch

OneInit ==
  \/ subject = "runner" /\ Init /\ Submitted /\ Resolved
  \/ subject = "submit" /\ S!Init /\ Init /\ Resolved
  \/ subject = "merges" /\ M!Init /\ Init /\ Submitted

OneNext ==
  \/ subject = "runner" /\ Next /\ UNCHANGED <<subject, submitVars, mergeVars>>
  \/ subject = "submit" /\ S!Next /\ UNCHANGED <<subject, vars, mergeVars>>
  \/ subject = "merges" /\ (M!Next \/ UNCHANGED mergeVars) /\ UNCHANGED <<subject, vars, submitVars>>

\* The fairness of each, of its own steps only: the worker and the callers of
\* submit_job and stop() of jobs.py, and the chunk of submit_job.py.
OneSpec ==
  /\ OneInit /\ [][OneNext]_<<subject, vars, submitVars, mergeVars>>
  /\ WF_vars(subject = "runner" /\ Worker)
  /\ \A j \in Jobs : WF_vars(subject = "runner" /\ (SubmitTrack(j) \/ SubmitPush(j)))
  /\ \A s \in Stoppers : WF_vars(subject = "runner" /\ (StopCheck(s) \/ Joined(s) \/ JoinTimeout(s)))
  /\ WF_submitVars(subject = "submit" /\ S!Chunk)

-----------------------------------------------------------------------------
(* What is checked of the submit and of the merges.                        *)

\* The lost acknowledgement: once an attempt was committed, the job ends as
\* failed only when every attempt was used up (submit_job.py).
LostAckIsSuccess == S!LostAckIsSuccess

\* The chunk of the submit ends, also if the server stays away (submit_job.py,
\* the retry loop of p4client.py).
ChunkEnds == S!ChunkEnds

\* Conflict markers stay in a file only while a merge of it is under way
\* (app.py, _run_3way_merge, _run_external_merge and _cancel_merge).
MarkersAreTemporary == M!MarkersAreTemporary

\* What a merge by hand left is what the user chose for each conflict, or what
\* was there before (merge3.py, merge_editor_modal.py, _write_and_accept_merge).
MergeIsWhatWasChosen == M!MergeIsWhatWasChosen
===============================================================================
