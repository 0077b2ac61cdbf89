---------------------------- MODULE ResilientSubmit ----------------------------
(***************************************************************************)
(* The submit job of p4v_tui/submit_job.py: one chunk that submits a         *)
(* changelist through the retry loop of P4Service._run_resilient, and, when  *)
(* the final error looks as if an earlier attempt had gone through, asks the *)
(* server whether the changelist is still pending.  The server may go down   *)
(* at any time, also between executing the submit and answering it.          *)
(***************************************************************************)
EXTENDS Naturals

CONSTANTS
  MaxAttempts, \* max_attempts of the submit
  MaxOutages   \* bound: how often the server goes down

\* Of the constants.
SubmitAssumption == MaxAttempts \in Nat \ {0} /\ MaxOutages \in Nat

VARIABLES
  change,    \* the changelist on the server
  up,        \* the server is up
  pc,        \* where the chunk is
  attempt,   \* attempts made so far
  answer,    \* what the server answers to this attempt
  committed, \* history: an attempt of this job was executed and committed
  blind,     \* history: the pending changelists could not be listed
  outages    \* number of outages so far

job  == <<pc, attempt, answer>>
hist == <<committed, blind>>
vars == <<change, up, job, hist, outages>>

SubmitPC == {"submit", "sent", "answered", "verify", "done", "failed"}
Ended    == {"done", "failed"}

\* committed: submittedChange; gone: the changelist is not pending any more;
\* nofile: a file of the changelist is missing, which says "no such" as well;
\* rejected: any other error of the command, like a file to be resolved.
Answers == {"committed", "gone", "nofile", "rejected"}

\* The types, and that the attempts are bounded.
TypeOK ==
  /\ change \in {"pending", "submitted", "deleted"} /\ up \in BOOLEAN
  /\ pc \in SubmitPC /\ attempt \in 0..MaxAttempts /\ answer \in Answers \cup {"none"}
  /\ committed \in BOOLEAN /\ blind \in BOOLEAN /\ outages \in 0..MaxOutages

Init ==
  /\ change = "pending" /\ up \in BOOLEAN
  /\ pc = "submit" /\ attempt = 0 /\ answer = "none"
  /\ committed = FALSE /\ blind = FALSE /\ outages = 0

-----------------------------------------------------------------------------
(* One attempt.                                                            *)

\* Mutant of Counted: an attempt that is lost does not count.
NotCounted == attempt

Counted == attempt + 1

Exhausted == Counted >= MaxAttempts

\* The connection was lost: the loop reconnects and tries again, or raises.
Lose ==
  /\ attempt' = Counted
  /\ pc' = IF Exhausted THEN "failed" ELSE "submit"
  /\ answer' = "none"

Send ==
  /\ pc = "submit" /\ up
  /\ pc' = "sent"
  /\ UNCHANGED <<change, up, attempt, answer, hist, outages>>

ConnectFails ==
  /\ pc = "submit" /\ ~up
  /\ Lose
  /\ UNCHANGED <<change, up, hist, outages>>

Commit ==
  /\ pc = "sent" /\ change = "pending"
  /\ change' = "submitted"
  /\ committed' = TRUE
  /\ answer' = "committed"
  /\ pc' = "answered"
  /\ UNCHANGED <<up, attempt, blind, outages>>

Refuse ==
  /\ pc = "sent"
  /\ answer' \in IF change = "pending" THEN {"nofile", "rejected"} ELSE {"gone"}
  /\ pc' = "answered"
  /\ UNCHANGED <<change, up, attempt, hist, outages>>

\* Mutant of LooksAlready: every error is reported.
NeverLooksAlready == FALSE

\* The final error says "no such" or "already submitted".
LooksAlready == answer \in {"gone", "nofile"}

Receive ==
  /\ pc = "answered"
  /\ attempt' = attempt + 1
  /\ pc' = IF answer = "committed" THEN "done" ELSE IF LooksAlready THEN "verify" ELSE "failed"
  /\ UNCHANGED <<change, up, answer, hist, outages>>

-----------------------------------------------------------------------------
(* _is_already_submitted_recovery.                                         *)

StillPending == change = "pending"

Verify ==
  /\ pc = "verify" /\ up
  /\ pc' = IF StillPending THEN "failed" ELSE "done"
  /\ UNCHANGED <<change, up, attempt, answer, hist, outages>>

\* pending_changes swallows the error and returns an empty list, in which the
\* changelist is not found.
VerifyFails ==
  /\ pc = "verify" /\ ~up
  /\ blind' = TRUE
  /\ pc' = "done"
  /\ UNCHANGED <<change, up, attempt, answer, committed, outages>>

Chunk ==
  \/ Send \/ ConnectFails \/ Commit \/ Refuse \/ Receive \/ Verify \/ VerifyFails

-----------------------------------------------------------------------------
(* The server, and other sessions of the user.                             *)

ServerDown ==
  /\ up /\ outages < MaxOutages
  /\ up' = FALSE
  /\ outages' = outages + 1
  /\ IF pc \in {"sent", "answered"} THEN Lose ELSE UNCHANGED job
  /\ UNCHANGED <<change, hist>>

ServerUp ==
  /\ ~up
  /\ up' = TRUE
  /\ UNCHANGED <<change, job, hist, outages>>

\* The changelist is submitted or deleted from elsewhere.
OtherSession ==
  /\ change = "pending" /\ up
  /\ change' \in {"submitted", "deleted"}
  /\ UNCHANGED <<up, job, hist, outages>>

Next ==
  \/ Chunk
  \/ ServerDown \/ ServerUp \/ OtherSession
  \/ pc \in Ended /\ UNCHANGED vars

Spec == Init /\ [][Next]_vars

\* The worker goes on; the server need not come back.
FairSpec == Spec /\ WF_vars(Chunk)

-----------------------------------------------------------------------------
(* Properties.                                                             *)

\* The lost acknowledgement: if an attempt was committed, the job ends as
\* failed only when every attempt was used up, however many attempts lost
\* their connection and whoever else touched the changelist.
LostAckIsSuccess == pc = "failed" /\ committed => attempt = MaxAttempts

\* A submit that is reported as done is not pending any more, if the server
\* could be asked; so an error that only looks like a lost acknowledgement is
\* reported.  (It may have been deleted elsewhere.)
DoneIsNotPending == [][pc # "done" /\ pc' = "done" /\ ~blind' => change # "pending"]_vars

\* The job never holds the worker for ever, also if the server stays away.
ChunkEnds == <>(pc \in Ended)

\* What _is_already_submitted_recovery says of itself: when it cannot verify it
\* reports failure.  (The error never reaches it.)
FailureWhenUnverified == blind => pc # "done"
==============================================================================
