---------------------------- MODULE SearchIndex ----------------------------
(***************************************************************************)
(* The Fast Search index: the jobs of p4v_tui/search_jobs.py that build and *)
(* update it, the SQLite table of p4v_tui/search_index.py they write, and    *)
(* the handlers of p4v_tui/app.py that start them at launch and on Ctrl+R.   *)
(*                                                                         *)
(* A chunk is split where it asks the server and where it commits, so that   *)
(* others submit, the user presses Ctrl+R and the process dies in between.   *)
(* The chunks of two jobs do not overlap, but they alternate: the job runner *)
(* has one worker.                                                           *)
(*                                                                         *)
(* The history variable gap records why the index may lack a file, or keep a *)
(* dead one, although nobody looks for it any more: some answer was cut off  *)
(* or never came, or the index was wiped.                                    *)
(***************************************************************************)
EXTENDS Naturals, FiniteSets

CONSTANTS
  Files,       \* depot paths
  Subdirs,     \* the top-level subdirectories of the depots
  Dir,         \* Dir[f]: the one that holds f
  Rank,        \* Rank[f]: the place of f in the order of the server's answers
  PageSize,    \* the most rows of an answer: -m
  MaxPages,    \* the most pages an update plans
  Jobs,        \* IndexBuildJob and IndexUpdateJob objects, of all sessions
  MaxChange,   \* bound: change numbers
  NoState      \* the state file does not exist

\* Of the constants.
SearchIndexAssumption ==
  /\ Dir \in [Files -> Subdirs]
  /\ Rank \in [Files -> Nat]
  /\ PageSize \in Nat \ {0} /\ MaxPages \in Nat \ {0} /\ MaxChange \in Nat
  /\ NoState \notin [pending : SUBSET Subdirs, start : Nat]

VARIABLES
  counter,   \* the server's change counter
  changed,   \* changed[f]: the change that made the head revision; 0: none
  live,      \* the files that are not deleted at head
  rows,      \* the paths in the table files
  last,      \* meta last_indexed_change
  complete,  \* meta build_complete
  saved,     \* the state file of the build
  up,        \* the application is running
  job,       \* job[j]: where job j is and what it holds
  detached,  \* jobs whose connection is to a database file that was removed
  gap        \* history: why the row of f may be wrong

server == <<counter, changed, live>>
table  == <<rows, last, complete>>
vars   == <<server, table, saved, up, job, detached, gap>>

Resting == {"free", "queued", "ready", "capped", "ended"}
Busy    == {"dirs", "listed", "anchored"}
Reasons == {"none", "listing", "cap", "error", "tail", "wiped", "leftover"}

\* A job.  todo is _pending of a build and pages the number of _pending_pages
\* of an update; since is _build_start_change or _last_change_before, and
\* target _delta_target_change.  The last answer was for the subdirectory at;
\* got and gone are the live and the dead files in it.
JobState == [pc : Resting \cup Busy, kind : {"build", "update"},
             todo : SUBSET Subdirs, pages : 0 .. MaxPages, since : Nat, target : Nat,
             at : Subdirs \cup {NoState}, got : SUBSET Files, gone : SUBSET Files]

Fresh == [pc |-> "free", kind |-> "build", todo |-> {}, pages |-> 0, since |-> 0,
          target |-> 0, at |-> NoState, got |-> {}, gone |-> {}]

\* The types, and that at most one chunk is under way.
TypeOK ==
  /\ counter \in Nat /\ changed \in [Files -> Nat] /\ live \subseteq Files
  /\ rows \subseteq Files /\ last \in Nat /\ complete \in {"none", "0", "1"}
  /\ saved \in [pending : SUBSET Subdirs, start : Nat] \cup {NoState}
  /\ up \in BOOLEAN
  /\ job \in [Jobs -> JobState]
  /\ detached \subseteq Jobs /\ gap \in [Files -> Reasons]
  /\ \A i, j \in Jobs : job[i].pc \in Busy /\ job[j].pc \in Busy => i = j

\* Some files were submitted; there is no index.
Init ==
  /\ live \in SUBSET Files /\ counter = 1
  /\ changed = [f \in Files |-> IF f \in live THEN 1 ELSE 0]
  /\ rows = {} /\ last = 0 /\ complete = "none" /\ saved = NoState /\ up = FALSE
  /\ job = [j \in Jobs |-> Fresh]
  /\ detached = {} /\ gap = [f \in Files |-> "none"]

At(j, l) == job[j].pc = l

\* The worker of the job runner is between two chunks.
Idle == \A j \in Jobs : job[j].pc \notin Busy

\* Job j is pulled when it is at l.
Pulled(j, k, l) == Idle /\ At(j, l) /\ job[j].kind = k

Goto(j, l) == job' = [job EXCEPT ![j].pc = l]

\* A job is over, with whatever it held.
End(j) == job' = [job EXCEPT ![j] = [Fresh EXCEPT !.pc = "ended"]]

\* The gaps of the files in S have reason r.
Blamed(S, r) == [f \in Files |-> IF f \in S THEN r ELSE gap[f]]

-----------------------------------------------------------------------------
(* The p4 server.                                                          *)

\* Somebody adds, edits or deletes a file.
OtherSubmit(f) ==
  /\ counter < MaxChange
  /\ counter' = counter + 1
  /\ changed' = [changed EXCEPT ![f] = counter + 1]
  /\ \/ live' = live \cup {f}
     \/ f \in live /\ live' = live \ {f}
  /\ UNCHANGED <<table, saved, up, job, detached, gap>>

\* files -m: the first rows of the answer.
Page(S) == {f \in S : Cardinality({g \in S : Rank[g] < Rank[f]}) < PageSize}

\* dirs: the subdirectories with a file that is not deleted.
LiveDirs == {Dir[f] : f \in live}

\* files @>n.
Delta(n) == {f \in Files : changed[f] > n}

-----------------------------------------------------------------------------
(* The table and the state file.                                           *)

\* What the jobs do to the table is lost when their connection is to the file
\* that was removed.
Attached(j) == j \notin detached

\* upsert_files, then delete_files: every row is a transaction of its own.
WriteRow(j) ==
  /\ At(j, "listed")
  /\ \/ \E f \in job[j].got :
          /\ rows' = IF Attached(j) THEN rows \cup {f} ELSE rows
          /\ job' = [job EXCEPT ![j].got = @ \ {f}]
          /\ gap' = Blamed({f}, IF Attached(j) THEN "none" ELSE "wiped")
     \/ /\ job[j].got = {}
        /\ \E f \in job[j].gone :
             /\ rows' = IF Attached(j) THEN rows \ {f} ELSE rows
             /\ job' = [job EXCEPT ![j].gone = @ \ {f}]
             /\ gap' = Blamed({f}, IF Attached(j) THEN "none" ELSE "wiped")
  /\ UNCHANGED <<server, last, complete, saved, up, detached>>

\* The chunk has written its answer.
Written(j, k) == At(j, "listed") /\ job[j].kind = k /\ job[j].got = {} /\ job[j].gone = {}

\* _save_state, whose failure is ignored.
Save(state) == saved' = state \/ UNCHANGED saved

-----------------------------------------------------------------------------
(* IndexBuildJob.                                                          *)

\* _enumerate: a state that was saved is resumed ...
Resume(j) ==
  /\ Pulled(j, "build", "queued") /\ saved # NoState
  /\ job' = [job EXCEPT ![j].todo = saved.pending, ![j].since = saved.start,
                        ![j].pc = "ready"]
  /\ UNCHANGED <<server, table, saved, up, detached, gap>>

\* ... and otherwise the subdirectories are listed.  Depots whose listing
\* fails are passed over.
ListDirs(j) ==
  /\ Pulled(j, "build", "queued") /\ saved = NoState
  /\ \E ds \in SUBSET LiveDirs : job' = [job EXCEPT ![j].todo = ds, ![j].pc = "dirs"]
  /\ UNCHANGED <<server, table, saved, up, detached, gap>>

\* The cursor is taken before any file is listed; it is 0 when that fails.
SnapshotCursor(j) ==
  /\ At(j, "dirs")
  /\ \E c \in {counter, 0} :
       /\ job' = [job EXCEPT ![j].since = c, ![j].pc = "ready"]
       /\ Save([pending |-> job[j].todo, start |-> c])
  /\ gap' = [f \in Files |->
               IF f \in live /\ Dir[f] \notin job[j].todo THEN "listing"
               ELSE IF f \in rows \ live THEN "leftover" ELSE gap[f]]
  /\ UNCHANGED <<server, table, up, detached>>

\* The rows is_deleted_at_head does not drop.
Kept(S) == S \cap live

\* _index_one_subdir: files -m is answered, or fails and counts as empty.
ListFiles(j) ==
  /\ Pulled(j, "build", "ready")
  /\ \E d \in job[j].todo :
       LET all == {f \in Files : Dir[f] = d /\ changed[f] > 0}
       IN  \/ /\ job' = [job EXCEPT ![j].at = d, ![j].got = Kept(Page(all)), ![j].pc = "listed"]
              /\ gap' = Blamed((all \cap live) \ Page(all), "cap")
           \/ /\ job' = [job EXCEPT ![j].at = d, ![j].pc = "listed"]
              /\ gap' = Blamed(all \cap live, "error")
  /\ UNCHANGED <<server, table, saved, up, detached>>

Left(j) == job[j].todo \ {job[j].at}

\* The subdirectory leaves the queue only after its rows are committed.
PopSubdir(j) ==
  /\ Written(j, "build")
  /\ Save([pending |-> Left(j), start |-> job[j].since])
  /\ job' = [job EXCEPT ![j].todo = Left(j), ![j].at = NoState, ![j].pc = "ready"]
  /\ UNCHANGED <<server, table, up, detached, gap>>

\* The database has become too large.
Capped(j) ==
  /\ Pulled(j, "build", "ready") /\ job[j].todo # {} /\ rows # {}
  /\ Goto(j, "capped")
  /\ UNCHANGED <<server, table, saved, up, detached, gap>>

FinalizeStopped(j) ==
  /\ Pulled(j, "build", "capped")
  /\ complete' = IF Attached(j) THEN "0" ELSE complete
  /\ End(j)
  /\ UNCHANGED <<server, rows, last, saved, up, detached, gap>>

\* Mutant of Cursor: the cursor is read when the build is finished.
CursorAtEnd(j) == counter

Cursor(j) == job[j].since

\* _finalize_complete: the cursor is set first ...
Anchor(j) ==
  /\ Pulled(j, "build", "ready") /\ job[j].todo = {}
  /\ last' = IF Attached(j) THEN Cursor(j) ELSE last
  /\ Goto(j, "anchored")
  /\ UNCHANGED <<server, rows, complete, saved, up, detached, gap>>

\* ... then the index is complete, and the state file is removed if that works.
Complete(j) ==
  /\ At(j, "anchored")
  /\ complete' = IF Attached(j) THEN "1" ELSE complete
  /\ Save(NoState)
  /\ End(j)
  /\ UNCHANGED <<server, rows, last, up, detached, gap>>

Build(j) ==
  \/ Resume(j) \/ ListDirs(j) \/ SnapshotCursor(j) \/ ListFiles(j) \/ PopSubdir(j)
  \/ Capped(j) \/ FinalizeStopped(j) \/ Anchor(j) \/ Complete(j)

-----------------------------------------------------------------------------
(* IndexUpdateJob.                                                         *)

\* The pages that are planned for a delta of n changes.
Planned(n) ==
  LET budget == (n + PageSize - 1) \div PageSize
  IN  IF budget > MaxPages THEN MaxPages ELSE budget

\* _plan: the cursor is compared with the counter, which may not be available.
Plan(j) ==
  /\ Pulled(j, "update", "queued")
  /\ \E c \in {counter, last} :
       job' = [job EXCEPT ![j].since = last, ![j].target = c, ![j].pc = "ready",
                          ![j].pages = IF c > last THEN Planned(c - last) ELSE 0]
  /\ UNCHANGED <<server, table, saved, up, detached, gap>>

\* Mutant of Gone: dead files of a delta are not taken out.
NothingGone(S) == {}

Gone(S) == S \ live

\* _index_page: every page asks for the same rows; a failure counts as none.
ListDelta(j) ==
  /\ Pulled(j, "update", "ready") /\ job[j].pages > 0
  /\ LET all == Delta(job[j].since)
     IN  \/ /\ job' = [job EXCEPT ![j].got = Kept(Page(all)), ![j].gone = Gone(Page(all)),
                                  ![j].pc = "listed"]
            /\ gap' = Blamed(all \ Page(all), "tail")
         \/ /\ Goto(j, "listed")
            /\ gap' = Blamed(all, "error")
  /\ UNCHANGED <<server, table, saved, up, detached>>

PageDone(j) ==
  /\ Written(j, "update")
  /\ job' = [job EXCEPT ![j].pages = @ - 1, ![j].pc = "ready"]
  /\ UNCHANGED <<server, table, saved, up, detached, gap>>

\* _finalize.
Advance(j) ==
  /\ Pulled(j, "update", "ready") /\ job[j].pages = 0
  /\ last' = IF job[j].target > job[j].since /\ Attached(j) THEN job[j].target ELSE last
  /\ End(j)
  /\ UNCHANGED <<server, rows, complete, saved, up, detached, gap>>

Update(j) == Plan(j) \/ ListDelta(j) \/ PageDone(j) \/ Advance(j)

\* A chunk raises: the database is locked, full or was closed under it.
ChunkFails(j) ==
  /\ job[j].pc \in Busy \/ (Idle /\ job[j].pc \in {"queued", "ready", "capped"})
  /\ End(j)
  /\ UNCHANGED <<server, table, saved, up, detached, gap>>

-----------------------------------------------------------------------------
(* The application.                                                        *)

\* submit_job of a build or of an update.
Enqueue(j, k) ==
  /\ At(j, "free")
  /\ job' = [job EXCEPT ![j].kind = k, ![j].pc = "queued"]

\* _init_search_index: an update if a build was completed, else a build.
Launch(j) ==
  /\ ~up /\ up' = TRUE
  /\ Enqueue(j, IF complete = "1" THEN "update" ELSE "build")
  /\ UNCHANGED <<server, table, saved, detached, gap>>

\* _rebuild_search_index: the database is closed and removed, a new one is
\* opened and a build is queued.  A job in the middle of a chunk may have
\* reopened the old file before it was removed; any other opens the new one.
Rebuild(j) ==
  /\ up
  /\ Enqueue(j, "build")
  /\ rows' = {} /\ last' = 0 /\ complete' = "none"
  /\ gap' = Blamed(rows, "wiped")
  /\ \E S \in SUBSET {i \in Jobs : job[i].pc \in Busy} : detached' = detached \cup S
  /\ UNCHANGED <<server, saved, up>>

\* The process ends, at any point: SQLite and the state file are consistent.
Exit ==
  /\ up /\ up' = FALSE
  /\ job' = [j \in Jobs |-> IF At(j, "free") THEN job[j] ELSE [Fresh EXCEPT !.pc = "ended"]]
  /\ detached' = {}
  /\ UNCHANGED <<server, table, saved, gap>>

Worker == \E j \in Jobs : Build(j) \/ Update(j) \/ WriteRow(j) \/ ChunkFails(j)

Next ==
  \/ \E f \in Files : OtherSubmit(f)
  \/ Worker
  \/ \E j \in Jobs : Launch(j) \/ Rebuild(j)
  \/ Exit

Spec == Init /\ [][Next]_vars

-----------------------------------------------------------------------------
(* Properties.                                                             *)

\* No launch will look for f again: the build is complete and the cursor has
\* passed the last change of f.
Settled(f) == complete = "1" /\ changed[f] > 0 /\ changed[f] <= last

\* A live file is found by a search once the cursor has passed it, whoever
\* submitted meanwhile, however the jobs were interrupted and alternated, but
\* for files that an answer or a wipe is known to have left out.
SettledIsIndexed ==
  \A f \in live : Settled(f) => f \in rows \/ gap[f] # "none"

\* A deleted file is no longer found once the cursor has passed its deletion.
SettledIsEvicted ==
  \A f \in Files \ live : Settled(f) /\ f \in rows => gap[f] # "none"
==============================================================================
