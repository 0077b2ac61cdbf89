------------------------------- MODULE MCSearch -------------------------------
(***************************************************************************)
(* Fast Search for TLC: the dialog (SearchDialog) and the index behind it     *)
(* (SearchIndex).  They are looked at one at a time: in each behaviour one of *)
(* them begins where nothing can happen in it any more.                     *)
(***************************************************************************)
EXTENDS SearchDialog, TLC

CONSTANTS
  f1, f2, f3, c1,
  a, b, A, B, Indexed, Subdirs, Dir, Rank, PageSize, MaxPages, Jobs, MaxChange, NoState

VARIABLES counter, changed, live, rows, last, complete, saved, up, job, detached, gap

indexVars == <<counter, changed, live, rows, last, complete, saved, up, job, detached, gap>>

I == INSTANCE SearchIndex WITH Files <- Indexed

ASSUME SearchAssumption == I!SearchIndexAssumption

-----------------------------------------------------------------------------
(* The instance of SearchDialog.                                           *)

ThreeFiles == {f1, f2, f3}
Of(dir, name, user, time, gone) ==
  [dir |-> dir, name |-> name, user |-> user, type |-> "t", time |-> time, gone |-> gone]
ThreeRows ==
  f1 :> Of(<<"a">>, <<"b">>, "u", 1, FALSE) @@ f2 :> Of(<<"b">>, <<"c">>, "v", 2, FALSE)
  @@ f3 :> Of(<<"b">>, <<"d">>, "v", 3, TRUE)
OneLog == {c1}
LogRow == c1 :> [words |-> <<"b">>, user |-> "u", time |-> 5]

Ask(mode, words, user) ==
  [mode |-> mode, words |-> words, user |-> user, type |-> "", regex |-> <<>>, cls |-> FALSE,
   since |-> 0, until |-> 0]
Grep  == Ask("grep", <<"b">>, "")
Asked ==
  {Ask("plain", <<"b">>, ""), Ask("plain", <<"e">>, ""), Ask("plain", <<"c", "b">>, ""),
   Ask("plain", <<>>, "v"), Grep, Ask("cl", <<"b">>, ""),
   [Ask("nl", <<"b">>, "u") EXCEPT !.cls = TRUE, !.since = 1]}
TwoEdits == {<<<<"e">>, <<"c">>>>}
Found    == [q \in {Grep} |-> <<f2, f1>>]
OneOrTwo == <<1, 2>>

-----------------------------------------------------------------------------
(* The instance of SearchIndex: one file in each of two subdirectories, in    *)
(* the order of paths, so that a page holds the files of one of them.        *)

DirOf     == (a :> A) @@ (b :> B)
PathOrder == (a :> 1) @@ (b :> 2)

-----------------------------------------------------------------------------

NothingToAsk ==
  /\ text = Empty /\ armed = FALSE /\ cap = 1 /\ recent = <<>> /\ place = 0
  /\ workers = <<>> /\ known = {} /\ doubled = FALSE
  /\ result = [kind |-> "none", path |-> Nothing]
  /\ hits = <<>> /\ options = {} /\ row = Nothing /\ cursor = 1 /\ events = <<>>
  /\ fetches = {} /\ preview = Blank /\ cache = <<>>
  /\ moves = MaxMoves /\ fails = 0

NothingToIndex ==
  /\ live = {} /\ counter = MaxChange /\ changed = [f \in Indexed |-> 0]
  /\ rows = {} /\ last = 0 /\ complete = "none" /\ saved = NoState /\ up = FALSE
  /\ job = [j \in Jobs |-> [I!Fresh EXCEPT !.pc = "ended"]]
  /\ detached = {} /\ gap = [f \in Indexed |-> "none"]

OneInit == (Init /\ NothingToIndex) \/ (I!Init /\ NothingToAsk)

OneNext ==
  \/ Next /\ UNCHANGED indexVars
  \/ I!Next /\ UNCHANGED vars

OneSpec == OneInit /\ [][OneNext]_<<vars, indexVars>>

\* A live file is found by a search once the cursor of the index has passed it
\* (search_jobs.py).
SettledIsIndexed == I!SettledIsIndexed

\* A deleted file is no longer found once the cursor has passed its deletion
\* (search_jobs.py).
SettledIsEvicted == I!SettledIsEvicted
===============================================================================
