---------------------------- MODULE ConnPoolProofs ----------------------------
(***************************************************************************)
(* Proofs about ConnPool, for every number of callers, connections, permits   *)
(* and parameters.  CInv strengthens the properties: which steps of a call    *)
(* hold a connection (LeaseInv), that connect and disconnect exclude each     *)
(* other (LockInv), that generations only grow (IdleInv), when the            *)
(* parameters of a connection may differ from the current ones (ParamsInv),   *)
(* where the open sockets are (DrainInv) and the broken ones (BrokenInv).     *)
(* On it rest two counting arguments: connections in the pool or leased       *)
(* (PermitsInv), and the attempts that dead sockets can cost a call           *)
(* (RestartInv).  Of what a call must come to, two parts are proved: it is     *)
(* never stuck (NobodyStuck), and each of its steps leaves fewer (StepsLeft). *)
(***************************************************************************)
EXTENDS ConnPool, FiniteSetTheorems, WellFoundedInduction, TLAPS

\* A call holds a connection between the pool and its release.
LeaseInv ==
  \A t \in Callers : lease[t] # None <=> pc[t] \in {"connect", "run", "release"}

LockInv ==
  \A a, b \in Admins : admin[a] # "idle" /\ admin[b] # "idle" => a = b

IdleInv ==
  /\ \A c \in idle : conn[c].gen = gen
  /\ \A c \in Conns : conn[c].gen <= gen

Configuring == \E a \in Admins : admin[a] \in {"configure", "bump"}

ParamsInv ==
  Configuring \/ \A c \in idle \cup Leased : conn[c].gen = gen => conn[c].params = params

DrainInv ==
  /\ Open \subseteq idle \cup Leased
  /\ (\E a \in Admins : admin[a] = "drain") => ~active
  /\ ~active => idle \cap Open = {} \/ \E a \in Admins : admin[a] = "drain"

\* A broken connection is about to be discarded, unless grep swallowed it.
BrokenInv ==
  /\ \A t \in Callers : kind[t] \in Kinds \cup {"run"}
  /\ "grep" \notin Kinds =>
       /\ idle \cap broken = {}
       /\ \A t \in Callers :
            lease[t] \in broken => pc[t] = "release" /\ outcome[t] = "lost"

CInv == TypeOK /\ ExclusiveLease /\ LeaseInv /\ LockInv /\ IdleInv
          /\ ParamsInv /\ DrainInv /\ BrokenInv

USE DEF pool, config, call, result, lifecyc, server

-----------------------------------------------------------------------------
(* Lemmas about the pool.                                                  *)

\* Disposing of connections closes them and changes nothing else.
LEMMA DisposeEffect ==
  ASSUME TypeOK, NEW S, Dispose(S)
  PROVE  /\ conn' \in [Conns -> Conn] /\ alive' \in SUBSET Conns /\ broken' \in SUBSET Conns
         /\ \A c \in Conns : /\ conn'[c].gen = conn[c].gen
                             /\ conn'[c].params = conn[c].params
                             /\ conn'[c].connected => conn[c].connected /\ c \notin S
         /\ broken' \subseteq broken
<1>1. conn \in [Conns -> Conn]
  BY DEF TypeOK
<1>2. ASSUME NEW c \in Conns
      PROVE  /\ conn'[c] \in Conn /\ conn'[c].gen = conn[c].gen
             /\ conn'[c].params = conn[c].params
             /\ conn'[c].connected => conn[c].connected /\ c \notin S
  <2>1. CASE c \in S
    BY <1>1, <2>1 DEF Dispose, Conn
  <2>2. CASE c \notin S
    BY <1>1, <2>2 DEF Dispose, Conn
  <2> QED
    BY <2>1, <2>2
<1>3. conn' \in [Conns -> Conn]
  BY <1>2 DEF Dispose
<1> QED
  BY <1>2, <1>3 DEF TypeOK, Dispose

\* A lease takes a connection that nobody else has, of the current generation
\* and with the current parameters, and leaves no other one open that was not.
LEMMA LeaseEffect ==
  ASSUME CInv, NEW t \in Callers, LeaseIdle(t) \/ LeaseNew(t), UNCHANGED config
  PROVE  \E c \in Conns :
           /\ lease' = [lease EXCEPT ![t] = c] /\ c \notin Leased
           /\ idle' \subseteq idle /\ c \notin idle'
           /\ conn' \in [Conns -> Conn] /\ alive' \in SUBSET Conns /\ broken' \in SUBSET Conns
           /\ broken' \subseteq broken /\ ("grep" \notin Kinds => c \notin broken')
           /\ conn'[c].gen = gen /\ (conn'[c].params = params \/ Configuring)
           /\ \A d \in Conns \ {c} :
                /\ conn'[d].gen = conn[d].gen /\ conn'[d].params = conn[d].params
                /\ conn'[d].connected => conn[d].connected /\ (d \in idle => d \in idle')
<1>1. CASE LeaseIdle(t)
  <2>1. PICK c \in Leasable, stale \in SUBSET {d \in idle : conn[d].gen # gen} :
          lease' = [lease EXCEPT ![t] = c] /\ idle' = Popped(c, stale) /\ Dispose(stale)
    BY <1>1 DEF LeaseIdle
  <2>2. c \in Conns /\ c \in idle /\ conn[c].gen = gen /\ c \notin stale
    BY <2>1 DEF Leasable, CInv, TypeOK
  <2>3. c \notin Leased
    BY <2>2 DEF CInv, ExclusiveLease, Leased
  <2>4. /\ conn' \in [Conns -> Conn] /\ alive' \in SUBSET Conns /\ broken' \in SUBSET Conns
        /\ \A d \in Conns : /\ conn'[d].gen = conn[d].gen
                            /\ conn'[d].params = conn[d].params
                            /\ conn'[d].connected => conn[d].connected /\ d \notin stale
        /\ broken' \subseteq broken
    BY <2>1, DisposeEffect DEF CInv
  <2>5. conn[c].params = params \/ Configuring
    BY <2>2 DEF CInv, ParamsInv
  <2>6. "grep" \notin Kinds => c \notin broken'
    BY <2>2, <2>4 DEF CInv, BrokenInv
  <2>7. idle' = idle \ ({c} \cup stale)
    BY <2>1 DEF Popped
  <2> QED
    BY <2>1, <2>2, <2>3, <2>4, <2>5, <2>6, <2>7
<1>2. CASE LeaseNew(t)
  <2>1. PICK c \in Conns \ (idle \cup Leased) :
          /\ lease' = [lease EXCEPT ![t] = c] /\ idle' = {}
          /\ conn' = [d \in Conns |->
                        IF d = c THEN New
                        ELSE IF d \in idle THEN [conn[d] EXCEPT !.connected = FALSE] ELSE conn[d]]
          /\ alive' = alive \ (idle \cup {c})
          /\ broken' = broken \ (idle \cup {c})
    BY <1>2 DEF LeaseNew
  <2>2. New \in Conn /\ New.gen = gen /\ New.params = params /\ ~New.connected
    BY DEF CInv, TypeOK, New, Conn
  <2>3. conn \in [Conns -> Conn]
    BY DEF CInv, TypeOK
  <2>4. ASSUME NEW d \in Conns \ {c}
        PROVE  /\ conn'[d] \in Conn
               /\ conn'[d].gen = conn[d].gen /\ conn'[d].params = conn[d].params
               /\ conn'[d].connected => conn[d].connected /\ d \notin idle
    <3>1. CASE d \in idle
      BY <2>1, <2>3, <3>1 DEF Conn
    <3>2. CASE d \notin idle
      BY <2>1, <2>3, <3>2
    <3> QED
      BY <3>1, <3>2
  <2>5. conn'[c] = New
    BY <2>1
  <2>6. conn' \in [Conns -> Conn]
    BY <2>1, <2>2, <2>4, <2>5
  <2>7. alive' \in SUBSET Conns /\ broken' \in SUBSET Conns /\ broken' \subseteq broken /\ c \notin broken'
    BY <2>1 DEF CInv, TypeOK
  <2> QED
    BY <2>1, <2>2, <2>4, <2>5, <2>6, <2>7
<1> QED
  BY <1>1, <1>2

\* A release pools a connection only of the current generation, while the
\* backend is active and the call met no connection error; else it closes it.
LEMMA ReturnEffect ==
  ASSUME CInv, NEW t \in Callers, pc[t] = "release", Return(t)
  PROVE  /\ lease[t] \in Conns
         /\ idle' \subseteq idle \cup {lease[t]} /\ idle \subseteq idle'
         /\ lease[t] \in idle' => active /\ conn[lease[t]].gen = gen /\ outcome[t] # "lost"
         /\ conn' \in [Conns -> Conn] /\ alive' \in SUBSET Conns /\ broken' \in SUBSET Conns
         /\ broken' \subseteq broken
         /\ \A d \in Conns : /\ conn'[d].gen = conn[d].gen /\ conn'[d].params = conn[d].params
                             /\ conn'[d].connected => conn[d].connected
         /\ lease[t] \notin idle' => ~conn'[lease[t]].connected
<1>1. lease[t] \in Conns /\ lease[t] \notin idle
  BY DEF CInv, TypeOK, LeaseInv, ExclusiveLease
<1>2. CASE ~Discarded(t) /\ Poolable(lease[t])
  BY <1>1, <1>2 DEF Return, Discarded, Poolable, CInv, TypeOK
<1>3. CASE ~(~Discarded(t) /\ Poolable(lease[t]))
  <2>1. Dispose({lease[t]}) /\ idle' = idle
    BY <1>3 DEF Return
  <2> QED
    BY <1>1, <2>1, DisposeEffect DEF CInv
<1> QED
  BY <1>2, <1>3

-----------------------------------------------------------------------------
(* Every action preserves the invariant: one lemma per action, one step per  *)
(* conjunct that the action can disturb, the others together in the last.    *)

LEMMA CallStep ==
  ASSUME NEW t \in Callers, NEW k \in Kinds, CInv, Call(t, k)
  PROVE  CInv'
<1>1. k \in CallKinds
  BY ConnPoolAssumption
<1>2. TypeOK'
  BY <1>1 DEF CInv, Call, TypeOK, CallPC, Outcome, Goto
<1>3. LeaseInv'
  BY DEF CInv, Call, LeaseInv, Goto
<1>4. BrokenInv'
  BY DEF CInv, Call, BrokenInv, Goto, Discarded
<1>5. ExclusiveLease' /\ LockInv' /\ IdleInv' /\ ParamsInv' /\ DrainInv'
  BY DEF CInv, Call, ExclusiveLease, LockInv, IdleInv, ParamsInv, DrainInv, Configuring,
     Leased, Open
<1> QED
  BY <1>2, <1>3, <1>4, <1>5 DEF CInv

LEMMA EnsureStep ==
  ASSUME NEW t \in Callers, CInv, Ensure(t)
  PROVE  CInv'
<1>1. TypeOK'
  BY DEF CInv, Ensure, TypeOK, CallPC, AdminPC, Outcome, Conn, CallKinds, Goto
<1>2. LeaseInv'
  BY DEF CInv, Ensure, LeaseInv, Goto
<1>3. DrainInv'
  BY DEF CInv, Ensure, DrainInv, Leased, Open, ConnectLocked
<1>4. BrokenInv'
  BY DEF CInv, Ensure, BrokenInv, Goto, Discarded
<1>5. ExclusiveLease' /\ LockInv' /\ IdleInv' /\ ParamsInv'
  BY DEF CInv, Ensure, ExclusiveLease, LockInv, IdleInv, ParamsInv, Configuring, Leased
<1> QED
  BY <1>1, <1>2, <1>3, <1>4, <1>5 DEF CInv

LEMMA TakePermitStep ==
  ASSUME NEW t \in Callers, CInv, TakePermit(t)
  PROVE  CInv'
<1>1. TypeOK'
  BY DEF CInv, TakePermit, PermitFree, TypeOK, CallPC, AdminPC, Outcome, Conn, CallKinds, Goto
<1>2. LeaseInv'
  BY DEF CInv, TakePermit, PermitFree, LeaseInv, Goto
<1>3. BrokenInv'
  BY DEF CInv, TakePermit, PermitFree, BrokenInv, Goto, Discarded
<1>4. ExclusiveLease' /\ LockInv' /\ IdleInv' /\ ParamsInv' /\ DrainInv'
  BY DEF CInv, TakePermit, ExclusiveLease, LockInv, IdleInv, ParamsInv, DrainInv,
     Configuring, Leased, Open
<1> QED
  BY <1>1, <1>2, <1>3, <1>4 DEF CInv

LEMMA AcquireStep ==
  ASSUME NEW t \in Callers, CInv, Acquire(t)
  PROVE  CInv'
<1>1. PICK c \in Conns :
        /\ lease' = [lease EXCEPT ![t] = c] /\ c \notin Leased
        /\ idle' \subseteq idle /\ c \notin idle'
        /\ conn' \in [Conns -> Conn] /\ alive' \in SUBSET Conns /\ broken' \in SUBSET Conns
        /\ broken' \subseteq broken /\ ("grep" \notin Kinds => c \notin broken')
        /\ conn'[c].gen = gen /\ (conn'[c].params = params \/ Configuring)
        /\ \A d \in Conns \ {c} :
             /\ conn'[d].gen = conn[d].gen /\ conn'[d].params = conn[d].params
             /\ conn'[d].connected => conn[d].connected /\ (d \in idle => d \in idle')
  BY LeaseEffect DEF Acquire
<1>2. lease[t] = None /\ lease \in [Callers -> Conns \cup {None}] /\ c # None /\ idle \subseteq Conns
  BY ConnPoolAssumption DEF CInv, Acquire, TypeOK, LeaseInv
<1>3. Leased' = Leased \cup {c}
  BY <1>1, <1>2 DEF Leased
<1>4. TypeOK'
  BY <1>1, <1>2, <1>3 DEF CInv, Acquire, TypeOK, CallPC, Goto
<1>5. ExclusiveLease'
  BY <1>1, <1>2, <1>3 DEF CInv, Acquire, ExclusiveLease, Leased
<1>6. LeaseInv'
  BY <1>1, <1>2, <1>3 DEF CInv, Acquire, LeaseInv, TypeOK, Goto
<1>7. IdleInv'
  BY <1>1, <1>2, <1>3 DEF CInv, Acquire, IdleInv, TypeOK
<1>8. ParamsInv'
  BY <1>1, <1>2, <1>3 DEF CInv, Acquire, ParamsInv, Configuring, Leased
<1>9. DrainInv'
  BY <1>1, <1>2, <1>3 DEF CInv, Acquire, DrainInv, Open
<1>10. BrokenInv'
  BY <1>1, <1>2, <1>3 DEF CInv, Acquire, BrokenInv, TypeOK, Goto
<1>11. LockInv'
  BY DEF CInv, Acquire, LockInv
<1> QED
  BY <1>4, <1>5, <1>6, <1>7, <1>8, <1>9, <1>10, <1>11 DEF CInv

LEMMA ConnectStep ==
  ASSUME NEW t \in Callers, CInv, Connect(t)
  PROVE  CInv'
<1>1. lease[t] \in Conns /\ lease[t] # None /\ lease[t] \in Leased /\ lease[t] \notin idle
  BY ConnPoolAssumption DEF CInv, Connect, TypeOK, LeaseInv, ExclusiveLease, Leased
<1>2. TypeOK'
  BY <1>1 DEF CInv, Connect, TypeOK, CallPC, Conn, Goto
<1>3. LeaseInv'
  BY DEF CInv, Connect, LeaseInv, Goto
<1>4. IdleInv'
  BY DEF CInv, Connect, IdleInv
<1>5. ParamsInv'
  BY DEF CInv, Connect, ParamsInv, Leased, Configuring
<1>6. DrainInv'
  BY <1>1 DEF CInv, Connect, TypeOK, Conn, DrainInv, Leased, Open
<1>7. BrokenInv'
  BY DEF CInv, Connect, BrokenInv, Goto, Discarded
<1>8. ExclusiveLease' /\ LockInv'
  BY DEF CInv, Connect, ExclusiveLease, LockInv
<1> QED
  BY <1>2, <1>3, <1>4, <1>5, <1>6, <1>7, <1>8 DEF CInv

LEMMA ConnectFailsStep ==
  ASSUME NEW t \in Callers, CInv, ConnectFails(t)
  PROVE  CInv'
<1>1. lease[t] \in Conns /\ lease[t] # None /\ lease[t] \in Leased /\ lease[t] \notin idle
  BY ConnPoolAssumption DEF CInv, ConnectFails, TypeOK, LeaseInv, ExclusiveLease, Leased
<1>2. TypeOK'
  BY <1>1 DEF CInv, ConnectFails, TypeOK, CallPC, Outcome, Goto
<1>3. LeaseInv'
  BY DEF CInv, ConnectFails, LeaseInv, Goto
<1>4. BrokenInv'
  BY <1>1 DEF CInv, ConnectFails, TypeOK, ExclusiveLease, BrokenInv, Goto
<1>5. ExclusiveLease' /\ LockInv' /\ IdleInv' /\ ParamsInv' /\ DrainInv'
  BY DEF CInv, ConnectFails, ExclusiveLease, LockInv, IdleInv, ParamsInv, DrainInv,
     Configuring, Leased, Open
<1> QED
  BY <1>2, <1>3, <1>4, <1>5 DEF CInv

LEMMA RunAnsweredStep ==
  ASSUME NEW t \in Callers, CInv, RunAnswered(t)
  PROVE  CInv'
<1>1. TypeOK'
  BY DEF CInv, RunAnswered, TypeOK, CallPC, AdminPC, Outcome, Conn, CallKinds, Goto
<1>2. LeaseInv'
  BY DEF CInv, RunAnswered, LeaseInv, Goto
<1>3. BrokenInv'
  BY DEF CInv, RunAnswered, BrokenInv, Goto, Discarded
<1>4. ExclusiveLease' /\ LockInv' /\ IdleInv' /\ ParamsInv' /\ DrainInv'
  BY DEF CInv, RunAnswered, ExclusiveLease, LockInv, IdleInv, ParamsInv, DrainInv,
     Configuring, Leased, Open
<1> QED
  BY <1>1, <1>2, <1>3, <1>4 DEF CInv

LEMMA RunLostStep ==
  ASSUME NEW t \in Callers, CInv, RunLost(t)
  PROVE  CInv'
<1>1. lease[t] \in Conns /\ lease[t] # None /\ lease[t] \in Leased /\ lease[t] \notin idle
  BY ConnPoolAssumption DEF CInv, RunLost, TypeOK, LeaseInv, ExclusiveLease, Leased
<1>2. TypeOK'
  BY <1>1 DEF CInv, RunLost, TypeOK, CallPC, Outcome, Goto
<1>3. LeaseInv'
  BY DEF CInv, RunLost, LeaseInv, Goto
<1>4. BrokenInv'
  BY <1>1, ConnPoolAssumption DEF CInv, RunLost, TypeOK, ExclusiveLease, BrokenInv, Goto
<1>5. ExclusiveLease' /\ LockInv' /\ IdleInv' /\ ParamsInv' /\ DrainInv'
  BY DEF CInv, RunLost, ExclusiveLease, LockInv, IdleInv, ParamsInv, DrainInv, Configuring,
     Leased, Open
<1> QED
  BY <1>2, <1>3, <1>4, <1>5 DEF CInv

LEMMA ReleaseStep ==
  ASSUME NEW t \in Callers, CInv, Release(t)
  PROVE  CInv'
<1>1. /\ lease[t] \in Conns
      /\ idle' \subseteq idle \cup {lease[t]} /\ idle \subseteq idle'
      /\ lease[t] \in idle' => active /\ conn[lease[t]].gen = gen /\ outcome[t] # "lost"
      /\ conn' \in [Conns -> Conn] /\ alive' \in SUBSET Conns /\ broken' \in SUBSET Conns
      /\ broken' \subseteq broken
      /\ \A d \in Conns : /\ conn'[d].gen = conn[d].gen /\ conn'[d].params = conn[d].params
                          /\ conn'[d].connected => conn[d].connected
      /\ lease[t] \notin idle' => ~conn'[lease[t]].connected
  BY ReturnEffect DEF Release
<1>2. /\ lease' = [lease EXCEPT ![t] = None] /\ pc' = [pc EXCEPT ![t] = pc'[t]]
      /\ pc'[t] \in {"acquire", "ensure", "idle"} /\ UNCHANGED <<config, call, result, lifecyc, server>>
  BY DEF CInv, TypeOK, Release, Goto
<1>3. /\ Leased' = Leased \ {lease[t]} /\ lease[t] \in Leased /\ Leased \subseteq Conns
      /\ \A u \in Callers \ {t} : lease'[u] = lease[u] /\ lease[u] # lease[t] /\ pc'[u] = pc[u]
  BY <1>1, <1>2, ConnPoolAssumption DEF CInv, TypeOK, ExclusiveLease, Leased
<1>4. TypeOK'
  BY <1>1, <1>2 DEF CInv, Release, Returned, TypeOK, CallPC
<1>5. ExclusiveLease'
  BY <1>1, <1>2, <1>3, ConnPoolAssumption DEF CInv, ExclusiveLease, TypeOK, Leased
<1>6. LeaseInv'
  BY <1>1, <1>2, <1>3 DEF CInv, LeaseInv, TypeOK
<1>7. IdleInv'
  BY <1>1, <1>2, <1>3 DEF CInv, IdleInv, TypeOK
<1>8. ParamsInv'
  <2>1. idle' \cup Leased' \subseteq idle \cup Leased /\ idle \cup Leased \subseteq Conns
    BY <1>1, <1>3 DEF CInv, TypeOK
  <2>2. Configuring' <=> Configuring
    BY <1>2 DEF Configuring
  <2> QED
    BY <1>1, <1>2, <2>1, <2>2 DEF CInv, ParamsInv
<1>9. DrainInv'
  BY <1>1, <1>2, <1>3 DEF CInv, DrainInv, Open
<1>10. BrokenInv'
  <2>1. UNCHANGED <<kind, outcome>> /\ lease'[t] \notin broken'
    BY <1>1, <1>2, ConnPoolAssumption DEF CInv, TypeOK
  <2>2. "grep" \notin Kinds => idle' \cap broken' = {}
    BY <1>1 DEF CInv, BrokenInv
  <2> QED
    BY <1>1, <1>3, <2>1, <2>2 DEF CInv, BrokenInv
<1>11. LockInv'
  BY DEF CInv, Release, LockInv
<1> QED
  BY <1>4, <1>5, <1>6, <1>7, <1>8, <1>9, <1>10, <1>11 DEF CInv

LEMMA ConnectCallStep ==
  ASSUME NEW a \in Admins, NEW p \in Profiles, CInv, ConnectCall(a, p)
  PROVE  CInv'
<1>1. TypeOK'
  BY ConnPoolAssumption DEF CInv, ConnectCall, TypeOK, AdminPC
<1>2. LockInv'
  BY DEF CInv, ConnectCall, ConnectLocked, LockInv
<1>3. ParamsInv'
  BY DEF CInv, ConnectCall, ConnectLocked, ParamsInv, Leased, Configuring
<1>4. DrainInv'
  BY DEF CInv, ConnectCall, ConnectLocked, DrainInv, Leased, Open
<1>5. ExclusiveLease' /\ LeaseInv' /\ IdleInv' /\ BrokenInv'
  BY DEF CInv, ConnectCall, ExclusiveLease, LeaseInv, IdleInv, BrokenInv
<1> QED
  BY <1>1, <1>2, <1>3, <1>4, <1>5 DEF CInv

LEMMA SetFieldStep ==
  ASSUME NEW a \in Admins, CInv, SetField(a)
  PROVE  CInv'
<1>1. TypeOK'
  BY DEF CInv, SetField, Differing, Params, TypeOK, CallPC, AdminPC, Outcome, Conn,
     CallKinds, Goto
<1>2. LockInv'
  BY DEF CInv, SetField, Differing, Params, LockInv, ConnectLocked
<1>3. ParamsInv'
  BY DEF CInv, SetField, Differing, Params, ParamsInv, Leased, Configuring
<1>4. DrainInv'
  BY DEF CInv, SetField, Differing, Params, DrainInv, Leased, Open, ConnectLocked
<1>5. ExclusiveLease' /\ LeaseInv' /\ IdleInv' /\ BrokenInv'
  BY DEF CInv, SetField, ExclusiveLease, LeaseInv, IdleInv, BrokenInv
<1> QED
  BY <1>1, <1>2, <1>3, <1>4, <1>5 DEF CInv

LEMMA BumpStep ==
  ASSUME NEW a \in Admins, CInv, Bump(a)
  PROVE  CInv'
<1>1. idle' = {} /\ Dispose(idle)
  BY DEF Bump
<1>2. /\ conn' \in [Conns -> Conn] /\ alive' \in SUBSET Conns /\ broken' \in SUBSET Conns
      /\ \A d \in Conns : /\ conn'[d].gen = conn[d].gen /\ conn'[d].params = conn[d].params
                          /\ conn'[d].connected => conn[d].connected /\ d \notin idle
      /\ broken' \subseteq broken
  BY <1>1, DisposeEffect DEF CInv
<1>3. TypeOK'
  BY <1>1, <1>2 DEF CInv, Bump, TypeOK, AdminPC, Bumped
<1>4. ExclusiveLease'
  BY <1>1, <1>2 DEF CInv, Bump, ExclusiveLease, Bumped
<1>5. LockInv'
  BY DEF CInv, Bump, LockInv, ConnectLocked
<1>6. IdleInv'
  <2>1. gen \in Nat /\ gen' = gen + 1 /\ \A c \in Conns : conn[c].gen \in Nat /\ conn[c].gen <= gen
    BY DEF CInv, Bump, Bumped, TypeOK, Conn, IdleInv
  <2>2. \A c \in Conns : conn'[c].gen <= gen'
    BY <1>2, <2>1
  <2> QED
    BY <1>1, <2>2 DEF IdleInv
<1>7. ParamsInv'
  BY <1>1, <1>2 DEF CInv, Bump, ParamsInv, Leased, Configuring, TypeOK, IdleInv, Bumped
<1>8. DrainInv'
  BY <1>1, <1>2 DEF CInv, Bump, DrainInv, TypeOK, Leased, Open, LockInv, Bumped
<1>9. BrokenInv'
  BY <1>1, <1>2 DEF CInv, Bump, BrokenInv, TypeOK, Bumped
<1>10. LeaseInv'
  BY DEF CInv, Bump, LeaseInv
<1> QED
  BY <1>3, <1>4, <1>5, <1>6, <1>7, <1>8, <1>9, <1>10 DEF CInv

LEMMA ConnectReturnStep ==
  ASSUME NEW a \in Admins, CInv, ConnectReturn(a)
  PROVE  CInv'
<1>1. TypeOK'
  BY DEF CInv, ConnectReturn, TypeOK, CallPC, AdminPC, Outcome, Conn, CallKinds, Goto
<1>2. LockInv'
  BY DEF CInv, ConnectReturn, LockInv, ConnectLocked
<1>3. ParamsInv'
  BY DEF CInv, ConnectReturn, ParamsInv, Leased, Configuring
<1>4. DrainInv'
  BY DEF CInv, ConnectReturn, TypeOK, LockInv, DrainInv, Leased, Open
<1>5. ExclusiveLease' /\ LeaseInv' /\ IdleInv' /\ BrokenInv'
  BY DEF CInv, ConnectReturn, ExclusiveLease, LeaseInv, IdleInv, BrokenInv
<1> QED
  BY <1>1, <1>2, <1>3, <1>4, <1>5 DEF CInv

LEMMA DisconnectStep ==
  ASSUME NEW a \in Admins, CInv, Disconnect(a)
  PROVE  CInv'
<1>1. TypeOK'
  <2>1. active' \in BOOLEAN
    BY DEF Disconnect
  <2>2. admins' \in Nat /\ admin' \in [Admins -> AdminPC]
    BY DEF CInv, Disconnect, TypeOK, AdminPC
  <2> QED
    BY <2>1, <2>2 DEF CInv, Disconnect, TypeOK
<1>2. LockInv'
  BY DEF CInv, Disconnect, ConnectLocked, LockInv
<1>3. ParamsInv'
  BY DEF CInv, Disconnect, ConnectLocked, ParamsInv, Leased, Configuring
<1>4. DrainInv'
  BY DEF CInv, Disconnect, TypeOK, ConnectLocked, DrainInv, Leased, Open
<1>5. ExclusiveLease' /\ LeaseInv' /\ IdleInv' /\ BrokenInv'
  BY DEF CInv, Disconnect, ExclusiveLease, LeaseInv, IdleInv, BrokenInv
<1> QED
  BY <1>1, <1>2, <1>3, <1>4, <1>5 DEF CInv

LEMMA DrainStep ==
  ASSUME NEW a \in Admins, CInv, Drain(a)
  PROVE  CInv'
<1>1. idle' = {} /\ Dispose(idle)
  BY DEF Drain
<1>2. /\ conn' \in [Conns -> Conn] /\ alive' \in SUBSET Conns /\ broken' \in SUBSET Conns
      /\ \A d \in Conns : /\ conn'[d].gen = conn[d].gen /\ conn'[d].params = conn[d].params
                          /\ conn'[d].connected => conn[d].connected /\ d \notin idle
      /\ broken' \subseteq broken
  BY <1>1, DisposeEffect DEF CInv
<1>3. TypeOK'
  BY <1>1, <1>2 DEF CInv, Drain, TypeOK, AdminPC
<1>4. ExclusiveLease'
  BY <1>1, <1>2 DEF CInv, Drain, ExclusiveLease
<1>5. LockInv'
  BY DEF CInv, Drain, LockInv, ConnectLocked
<1>6. IdleInv'
  BY <1>1, <1>2 DEF CInv, Drain, IdleInv, TypeOK
<1>7. ParamsInv'
  BY <1>1, <1>2 DEF CInv, Drain, ParamsInv, Leased, Configuring, TypeOK, IdleInv
<1>8. DrainInv'
  BY <1>1, <1>2 DEF CInv, Drain, DrainInv, TypeOK, Leased, Open, LockInv
<1>9. BrokenInv'
  BY <1>1, <1>2 DEF CInv, Drain, BrokenInv, TypeOK
<1>10. LeaseInv'
  BY DEF CInv, Drain, LeaseInv
<1> QED
  BY <1>3, <1>4, <1>5, <1>6, <1>7, <1>8, <1>9, <1>10 DEF CInv

LEMMA ServerDownStep ==
  ASSUME CInv, ServerDown
  PROVE  CInv'
<1>1. TypeOK'
  <2>1. sawDown' \in [Callers -> BOOLEAN]
    BY DEF ServerDown
  <2>2. up' \in BOOLEAN
    BY DEF ServerDown
  <2>3. outages' \in Nat /\ alive' \in SUBSET Conns
    BY DEF CInv, ServerDown, TypeOK
  <2> QED
    BY <2>1, <2>2, <2>3 DEF CInv, ServerDown, TypeOK
<1>2. ExclusiveLease' /\ LeaseInv' /\ LockInv' /\ IdleInv' /\ ParamsInv' /\ DrainInv' /\ BrokenInv'
  BY DEF CInv, ServerDown, ExclusiveLease, LeaseInv, LockInv, IdleInv, ParamsInv, DrainInv,
     BrokenInv, Configuring, Leased, Open
<1> QED
  BY <1>1, <1>2 DEF CInv

LEMMA ServerUpStep ==
  ASSUME CInv, ServerUp
  PROVE  CInv'
<1>1. TypeOK'
  BY DEF CInv, ServerUp, TypeOK, CallPC, AdminPC, Outcome, Conn, CallKinds, Goto
<1>2. ExclusiveLease' /\ LeaseInv' /\ LockInv' /\ IdleInv' /\ ParamsInv' /\ DrainInv' /\ BrokenInv'
  BY DEF CInv, ServerUp, ExclusiveLease, LeaseInv, LockInv, IdleInv, ParamsInv, DrainInv,
     BrokenInv, Configuring, Leased, Open
<1> QED
  BY <1>1, <1>2 DEF CInv

-----------------------------------------------------------------------------
(* The invariant.                                                          *)

\* The template connection is idle, of generation 0 and not connected.
LEMMA InitInv == ASSUME Init PROVE CInv
<1>1. TypeOK
  BY ConnPoolAssumption DEF Init, TypeOK, CallPC, AdminPC, Outcome, Conn, CallKinds
<1>2. ExclusiveLease /\ LeaseInv /\ LockInv
  BY ConnPoolAssumption DEF Init, ExclusiveLease, LeaseInv, LockInv
<1>3. IdleInv /\ ParamsInv
  BY ConnPoolAssumption DEF Init, IdleInv, ParamsInv, Leased
<1>4. DrainInv /\ BrokenInv
  BY ConnPoolAssumption DEF Init, DrainInv, BrokenInv, Open, Leased
<1> QED
  BY <1>1, <1>2, <1>3, <1>4 DEF CInv

\* Every step of a call, of a connect or a disconnect and of the server
\* preserves it.
LEMMA NextInv == ASSUME CInv, [Next]_vars PROVE CInv'
<1>1. ASSUME NEW t \in Callers, Proceed(t) PROVE CInv'
  BY <1>1, EnsureStep, TakePermitStep, AcquireStep, ConnectStep, ConnectFailsStep,
     RunAnsweredStep, RunLostStep, ReleaseStep DEF Proceed
<1>2. ASSUME NEW t \in Callers, NEW k \in Kinds, Call(t, k) PROVE CInv'
  BY <1>2, CallStep
<1>3. ASSUME NEW a \in Admins, Switch(a) PROVE CInv'
  BY <1>3, SetFieldStep, BumpStep, ConnectReturnStep, DrainStep DEF Switch
<1>4. ASSUME NEW a \in Admins, Disconnect(a) PROVE CInv'
  BY <1>4, DisconnectStep
<1>5. ASSUME NEW a \in Admins, NEW p \in Profiles, ConnectCall(a, p) PROVE CInv'
  BY <1>5, ConnectCallStep
<1>6. CASE ServerDown \/ ServerUp
  BY <1>6, ServerDownStep, ServerUpStep
<1>7. ASSUME UNCHANGED vars PROVE CInv'
  <2>1. TypeOK' /\ ExclusiveLease' /\ LeaseInv' /\ LockInv' /\ IdleInv'
    BY <1>7 DEF vars, CInv, TypeOK, ExclusiveLease, LeaseInv, LockInv, IdleInv
  <2>2. ParamsInv' /\ DrainInv' /\ BrokenInv'
    BY <1>7 DEF vars, CInv, ParamsInv, DrainInv, BrokenInv, Leased, Open, Configuring
  <2> QED
    BY <2>1, <2>2 DEF CInv
<1> QED
  BY <1>1, <1>2, <1>3, <1>4, <1>5, <1>6, <1>7 DEF Next, Quiet

LEMMA Invariance == Spec => []CInv
BY InitInv, NextInv, PTL DEF Spec

-----------------------------------------------------------------------------
(* The permits.  A connection is built only when the pool is empty, so that   *)
(* those in it and those leased are never more than the threads inside.      *)

GatedInside == {t \in Callers : Inside(t) /\ kind[t] \in Gated}

Sockets == idle \cup Leased

Bound == Permits + Cardinality(Probers)

PermitsInv ==
  /\ permits + Cardinality(GatedInside) = Permits
  /\ \A t \in Callers : kind[t] = "version" /\ pc[t] # "idle" => t \in Probers /\ Inside(t)
  /\ IsFiniteSet(Sockets) /\ Cardinality(Sockets) <= Bound

\* The image of a finite set has no more members than the set.
LEMMA ImageBound ==
  ASSUME NEW f, NEW S, IsFiniteSet(S)
  PROVE  /\ IsFiniteSet({f[x] : x \in S})
         /\ Cardinality({f[x] : x \in S}) <= Cardinality(S)
<1> DEFINE T == {f[x] : x \in S}
           g == [x \in S |-> f[x]]
<1>1. g \in Surjection(S, T)
  BY DEF Surjection
<1> HIDE DEF T, g
<1>2. IsFiniteSet(T) /\ Cardinality(T) <= Cardinality(S)
  BY <1>1, FS_Surjection
<1> QED
  BY <1>2 DEF T

\* The sets of threads that the argument counts are finite.
LEMMA ThreadsFinite ==
  /\ IsFiniteSet(Probers) /\ Cardinality(Probers) \in Nat
  /\ \A S \in SUBSET Callers : IsFiniteSet(S) /\ Cardinality(S) \in Nat
<1>1. \A S \in SUBSET Callers : IsFiniteSet(S)
  BY ConnPoolAssumption, FS_Subset
<1> QED
  BY <1>1, ConnPoolAssumption, FS_CardinalityType

\* Threads inside hold a permit or ask for the version: they are no more than both together.
LEMMA InsideBound ==
  ASSUME TypeOK, PermitsInv
  PROVE  /\ IsFiniteSet(GatedInside \cup Probers)
         /\ Cardinality(GatedInside \cup Probers) \in Nat /\ Bound \in Nat
         /\ Cardinality(GatedInside \cup Probers) <= Bound
         /\ \A u \in Callers : Inside(u) => u \in GatedInside \cup Probers
<1> DEFINE H == GatedInside \cup Probers
<1>1. /\ IsFiniteSet(GatedInside) /\ Cardinality(GatedInside) \in Nat
      /\ IsFiniteSet(Probers) /\ Cardinality(Probers) \in Nat
  BY ThreadsFinite DEF GatedInside
<1>2. /\ IsFiniteSet(H)
      /\ Cardinality(H) = Cardinality(GatedInside) + Cardinality(Probers)
                            - Cardinality(GatedInside \cap Probers)
  BY <1>1, FS_Union
<1>3. Cardinality(GatedInside \cap Probers) \in Nat
  BY ThreadsFinite, ConnPoolAssumption
<1>4. Cardinality(H) \in Nat
  BY <1>2, FS_CardinalityType
<1>5. permits \in Nat /\ permits + Cardinality(GatedInside) = Permits
  BY DEF TypeOK, PermitsInv
<1>6. Cardinality(H) <= Bound /\ Bound \in Nat
  BY <1>1, <1>2, <1>3, <1>4, <1>5, ConnPoolAssumption DEF Bound
<1>7. ASSUME NEW u \in Callers, Inside(u) PROVE u \in H
  <2>1. kind[u] \in Gated \/ kind[u] = "version"
    BY DEF TypeOK, Gated
  <2>2. kind[u] = "version" => u \in Probers
    BY <1>7 DEF PermitsInv, Inside
  <2> QED
    BY <1>7, <2>1, <2>2 DEF GatedInside
<1> QED
  BY <1>2, <1>4, <1>6, <1>7

\* Threads that hold a connection are inside.
LEMMA HoldersBound ==
  ASSUME TypeOK, PermitsInv, NEW f \in [Callers -> Conns \cup {None}], NEW t \in Callers,
         t \in GatedInside \cup Probers,
         \A u \in Callers \ {t} : f[u] # None => Inside(u)
  PROVE  /\ IsFiniteSet({f[u] : u \in Callers} \ {None})
         /\ Cardinality({f[u] : u \in Callers} \ {None}) <= Bound
<1> DEFINE H == GatedInside \cup Probers
           T == {f[u] : u \in Callers} \ {None}
           I == {f[u] : u \in H}
<1>1. IsFiniteSet(H) /\ Cardinality(H) \in Nat /\ Cardinality(H) <= Bound /\ Bound \in Nat
  BY InsideBound
<1>2. T \subseteq I
  <2>1. ASSUME NEW u \in Callers, f[u] # None PROVE u \in H
    BY <2>1, InsideBound
  <2> QED
    BY <2>1
<1>3. IsFiniteSet(I) /\ Cardinality(I) <= Cardinality(H) /\ Cardinality(I) \in Nat
  BY <1>1, ImageBound, FS_CardinalityType
<1>4. IsFiniteSet(T) /\ Cardinality(T) <= Cardinality(I) /\ Cardinality(T) \in Nat
  BY <1>2, <1>3, FS_Subset, FS_CardinalityType
<1> QED
  BY <1>1, <1>3, <1>4

\* A smaller set keeps the bound.
LEMMA FewerSockets ==
  ASSUME PermitsInv, NEW S \in SUBSET Sockets
  PROVE  IsFiniteSet(S) /\ Cardinality(S) <= Bound
<1>1. IsFiniteSet(S) /\ Cardinality(S) <= Cardinality(Sockets)
  BY FS_Subset DEF PermitsInv
<1>2. Cardinality(S) \in Nat /\ Cardinality(Sockets) \in Nat /\ Bound \in Nat
  BY <1>1, ThreadsFinite, ConnPoolAssumption, FS_CardinalityType DEF PermitsInv, Bound
<1> QED
  BY <1>1, <1>2 DEF PermitsInv

\* An unchanged set of threads, and no more connections than before.
LEMMA PermitsKept ==
  ASSUME PermitsInv, UNCHANGED <<permits>>, GatedInside' = GatedInside, Sockets' \subseteq Sockets,
         \A t \in Callers : kind'[t] = "version" /\ pc'[t] # "idle" => t \in Probers /\ Inside(t)'
  PROVE  PermitsInv'
<1>1. Bound' = Bound
  BY DEF Bound
<1> QED
  BY <1>1, FewerSockets DEF PermitsInv

\* A call enters the semaphore.
LEMMA TakePermitKeeps ==
  ASSUME NEW t \in Callers, CInv, PermitsInv, TakePermit(t)
  PROVE  PermitsInv'
<1>1. kind[t] \in Gated /\ t \notin GatedInside
  BY DEF CInv, TypeOK, TakePermit, PermitsInv, GatedInside, Inside, Gated
<1>2. GatedInside' = GatedInside \cup {t}
  BY <1>1 DEF CInv, TypeOK, TakePermit, Goto, GatedInside, Inside
<1>3. Cardinality(GatedInside') = Cardinality(GatedInside) + 1
  BY <1>1, <1>2, ThreadsFinite, FS_AddElement DEF GatedInside
<1>4. Cardinality(GatedInside) \in Nat /\ permits \in Nat /\ permits' = permits - 1
  BY ThreadsFinite DEF GatedInside, CInv, TypeOK, TakePermit
<1>5. permits' + Cardinality(GatedInside') = Permits
  BY <1>3, <1>4, ConnPoolAssumption DEF PermitsInv
<1>6. \A u \in Callers : kind'[u] = "version" /\ pc'[u] # "idle" => u \in Probers /\ Inside(u)'
  BY <1>1 DEF CInv, TypeOK, TakePermit, Goto, PermitsInv, Inside, Gated
<1>7. Sockets' = Sockets /\ Bound' = Bound
  BY DEF TakePermit, Sockets, Leased, Bound
<1> QED
  BY <1>5, <1>6, <1>7 DEF PermitsInv

\* A connection is taken from the pool, or built when the pool has none.
LEMMA AcquireKeeps ==
  ASSUME NEW t \in Callers, CInv, PermitsInv, Acquire(t)
  PROVE  PermitsInv'
<1>1. PICK c \in Conns :
        /\ lease' = [lease EXCEPT ![t] = c] /\ c \notin Leased /\ idle' \subseteq idle
  BY LeaseEffect DEF Acquire
<1>2. lease \in [Callers -> Conns \cup {None}] /\ c # None
  BY <1>1, ConnPoolAssumption DEF CInv, TypeOK
<1>3. pc[t] = "acquire" /\ lease[t] = None
  BY ConnPoolAssumption DEF CInv, TypeOK, Acquire, LeaseInv
<1>4. Leased' = Leased \cup {c}
  BY <1>1, <1>2, <1>3 DEF Leased
<1>5. GatedInside' = GatedInside /\ t \in GatedInside \cup Probers
  <2>1. GatedInside' = GatedInside
    BY <1>3 DEF CInv, TypeOK, Acquire, Goto, GatedInside, Inside
  <2>2. kind[t] \in Gated \/ kind[t] = "version"
    BY DEF CInv, TypeOK, Gated
  <2> QED
    BY <1>3, <2>1, <2>2 DEF PermitsInv, GatedInside, Inside
<1>6. \A u \in Callers : kind'[u] = "version" /\ pc'[u] # "idle" => u \in Probers /\ Inside(u)'
  BY <1>3 DEF CInv, TypeOK, Acquire, Goto, PermitsInv, Inside
<1>7. CASE Sockets' \subseteq Sockets
  BY <1>5, <1>6, <1>7, PermitsKept DEF Acquire
<1>8. CASE LeaseNew(t)
  <2>1. idle' = {}
    BY <1>8 DEF LeaseNew
  <2>2. lease' \in [Callers -> Conns \cup {None}]
    BY <1>1, <1>2
  <2>3. \A u \in Callers \ {t} : lease'[u] # None => Inside(u)
    BY <1>1, <1>2 DEF CInv, LeaseInv, Inside
  <2>4. /\ IsFiniteSet({lease'[u] : u \in Callers} \ {None})
        /\ Cardinality({lease'[u] : u \in Callers} \ {None}) <= Bound
    BY <1>5, <2>2, <2>3, HoldersBound DEF CInv
  <2>5. Sockets' = {lease'[u] : u \in Callers} \ {None}
    BY <2>1 DEF Sockets, Leased
  <2>6. Bound' = Bound /\ permits' = permits
    BY DEF Bound, Acquire
  <2> QED
    BY <1>5, <1>6, <2>4, <2>5, <2>6 DEF PermitsInv
<1>9. CASE LeaseIdle(t)
  <2>1. PICK d \in Leasable : lease' = [lease EXCEPT ![t] = d]
    BY <1>9 DEF LeaseIdle
  <2>2. d = c
    BY <1>1, <1>2, <2>1
  <2>3. c \in idle
    BY <2>1, <2>2 DEF Leasable
  <2> QED
    BY <1>1, <1>4, <1>7, <2>3 DEF Sockets
<1> QED
  BY <1>8, <1>9 DEF Acquire

\* A call leaves the semaphore, or keeps its permit for the second command.
LEMMA ReleaseKeeps ==
  ASSUME NEW t \in Callers, CInv, PermitsInv, Release(t)
  PROVE  PermitsInv'
<1>1. lease[t] \in Conns /\ idle' \subseteq idle \cup {lease[t]} /\ lease' = [lease EXCEPT ![t] = None]
  BY ReturnEffect DEF Release
<1>2. Sockets' \subseteq Sockets
  <2>1. Leased' \subseteq Leased /\ lease[t] \in Leased
    BY <1>1, ConnPoolAssumption DEF CInv, TypeOK, Leased
  <2> QED
    BY <1>1, <2>1 DEF Sockets
<1>3. /\ pc[t] = "release" /\ kind' = kind /\ pc \in [Callers -> CallPC]
      /\ pc' = [pc EXCEPT ![t] = IF Saves(t) THEN "acquire" ELSE IF Retries(t) THEN "ensure" ELSE "idle"]
  BY DEF CInv, TypeOK, Release, Goto
<1>4. \A u \in Callers : kind'[u] = "version" /\ pc'[u] # "idle" => u \in Probers /\ Inside(u)'
  BY <1>3 DEF PermitsInv, Inside, Saves, Retries
<1>5. CASE kind[t] \in Gated /\ ~Saves(t)
  <2>1. t \in GatedInside /\ GatedInside' = GatedInside \ {t}
    BY <1>3, <1>5 DEF GatedInside, Inside
  <2>2. /\ IsFiniteSet(GatedInside) /\ Cardinality(GatedInside) \in Nat
        /\ Cardinality(GatedInside') = Cardinality(GatedInside) - 1
    BY <2>1, ThreadsFinite, FS_RemoveElement, ZenonT(40) DEF GatedInside
  <2>3. permits \in Nat /\ permits' = permits + 1
    BY <1>5 DEF CInv, TypeOK, Release, Returned
  <2>4. permits' + Cardinality(GatedInside') = Permits
    BY <2>2, <2>3 DEF PermitsInv
  <2>5. IsFiniteSet(Sockets') /\ Cardinality(Sockets') <= Bound /\ Bound' = Bound
    BY <1>2, FewerSockets DEF Bound
  <2> QED
    BY <1>4, <2>4, <2>5 DEF PermitsInv
<1>6. CASE ~(kind[t] \in Gated /\ ~Saves(t))
  <2>1. GatedInside' = GatedInside
    BY <1>3, <1>6 DEF GatedInside, Inside
  <2>2. permits' = permits
    BY <1>6 DEF Release
  <2> QED
    BY <1>2, <1>4, <2>1, <2>2, PermitsKept
<1> QED
  BY <1>5, <1>6

\* No other step of a call moves a permit or a connection.
LEMMA CallKeeps ==
  ASSUME NEW t \in Callers, CInv, PermitsInv,
         \/ \E k \in Kinds : Call(t, k)
         \/ Ensure(t) \/ Connect(t) \/ ConnectFails(t) \/ RunAnswered(t) \/ RunLost(t)
  PROVE  PermitsInv'
<1>1. UNCHANGED <<permits, idle, lease>>
  BY DEF Call, Ensure, Connect, ConnectFails, RunAnswered, RunLost
<1>2. Sockets' = Sockets
  BY <1>1 DEF Sockets, Leased
<1>3. pc \in [Callers -> CallPC] /\ kind \in [Callers -> CallKinds]
  BY DEF CInv, TypeOK
<1>4. CASE \E k \in Kinds : Call(t, k)
  <2>1. PICK k \in Kinds : Call(t, k)
    BY <1>4
  <2>2. /\ pc[t] = "idle" /\ kind' = [kind EXCEPT ![t] = k] /\ (k = "version" => t \in Probers)
        /\ pc' = [pc EXCEPT ![t] = IF k \in Ensured THEN "ensure"
                                   ELSE IF k \in Gated THEN "permit" ELSE "acquire"]
    BY <2>1 DEF Call, Goto
  <2>3. k \in CallKinds
    BY ConnPoolAssumption
  <2>4. GatedInside' = GatedInside
    BY <1>3, <2>2, <2>3 DEF GatedInside, Inside, Gated, Ensured
  <2>5. \A u \in Callers : kind'[u] = "version" /\ pc'[u] # "idle" => u \in Probers /\ Inside(u)'
    BY <1>3, <2>2 DEF PermitsInv, Inside, Gated, Ensured
  <2> QED
    BY <1>1, <1>2, <2>4, <2>5, PermitsKept
<1>5. CASE Ensure(t) \/ Connect(t) \/ ConnectFails(t) \/ RunAnswered(t) \/ RunLost(t)
  <2>1. /\ kind' = kind /\ \A u \in Callers \ {t} : pc'[u] = pc[u]
        /\ \/ pc[t] = "ensure" /\ pc'[t] = "permit"
           \/ pc[t] \in {"connect", "run"} /\ pc'[t] \in {"run", "release"}
    BY <1>3, <1>5 DEF Ensure, Connect, ConnectFails, RunAnswered, RunLost, Goto
  <2>2. GatedInside' = GatedInside
    BY <2>1 DEF GatedInside, Inside
  <2>3. \A u \in Callers : kind'[u] = "version" /\ pc'[u] # "idle" => u \in Probers /\ Inside(u)'
    BY <2>1 DEF PermitsInv, Inside
  <2> QED
    BY <1>1, <1>2, <2>2, <2>3, PermitsKept
<1> QED
  BY <1>4, <1>5

\* The permits and the pool through every step.
LEMMA PermitsInductive == ASSUME CInv, PermitsInv, [Next]_vars PROVE PermitsInv'
<1>1. ASSUME NEW t \in Callers, Proceed(t) PROVE PermitsInv'
  BY <1>1, TakePermitKeeps, AcquireKeeps, ReleaseKeeps, CallKeeps DEF Proceed
<1>2. ASSUME NEW t \in Callers, NEW k \in Kinds, Call(t, k) PROVE PermitsInv'
  BY <1>2, CallKeeps
<1>3. ASSUME UNCHANGED <<kind, pc, lease, permits>>, idle' \subseteq idle PROVE PermitsInv'
  <2>1. GatedInside' = GatedInside /\ Sockets' \subseteq Sockets
    BY <1>3 DEF GatedInside, Inside, Sockets, Leased
  <2>2. \A u \in Callers : kind'[u] = "version" /\ pc'[u] # "idle" => u \in Probers /\ Inside(u)'
    BY <1>3 DEF PermitsInv, Inside
  <2> QED
    BY <1>3, <2>1, <2>2, PermitsKept
<1>4. ASSUME NEW a \in Admins, Switch(a) \/ Disconnect(a) \/ \E p \in Profiles : ConnectCall(a, p)
      PROVE  PermitsInv'
  BY <1>3, <1>4 DEF Switch, SetField, Bump, ConnectReturn, Drain, Disconnect, ConnectCall
<1>5. CASE ServerDown \/ ServerUp \/ UNCHANGED vars
  BY <1>3, <1>5 DEF ServerDown, ServerUp, vars
<1> QED
  BY <1>1, <1>2, <1>4, <1>5 DEF Next, Quiet

\* At the beginning one connection is in the pool and all permits are free.
LEMMA PermitsInit == ASSUME Init PROVE PermitsInv
<1>1. GatedInside = {} /\ Leased = {}
  BY DEF Init, GatedInside, Inside, Leased
<1>2. PICK c \in Conns : idle = {c}
  BY DEF Init
<1>3. Sockets = {c}
  BY <1>1, <1>2 DEF Sockets
<1>4. IsFiniteSet(Sockets) /\ Cardinality(Sockets) = 1 /\ Cardinality(GatedInside) = 0
  BY <1>1, <1>3, FS_Singleton, FS_EmptySet
<1>5. 1 <= Bound
  BY ThreadsFinite, ConnPoolAssumption DEF Bound
<1> QED
  BY <1>4, <1>5, ConnPoolAssumption DEF Init, PermitsInv

LEMMA PermitsInvariance == Spec => [](CInv /\ PermitsInv)
BY InitInv, NextInv, PermitsInit, PermitsInductive, PTL DEF Spec

-----------------------------------------------------------------------------
(* The retries.  While the server stays up sockets only die out: a dead one   *)
(* costs a call an attempt and is discarded.                                *)

Dead == {c \in Sockets : conn[c].connected /\ c \notin alive}

Holding == {"connect", "run", "release"}

\* The attempts of the call of t that are over.
Spent(t) == IF pc[t] \in Holding THEN attempt[t] - 1 ELSE attempt[t]

\* A thread that runs a command has a connection that was opened.
OpenedInv == \A t \in Callers : pc[t] = "run" => conn[lease[t]].connected

\* What holds of a call of t that has not seen the server down.
Steady(t) ==
  /\ pc[t] # "idle" => up
  /\ pc[t] # "idle" /\ kind[t] = "run" => Spent(t) + Cardinality(Dead) <= Bound
  /\ pc[t] = "release" /\ kind[t] = "run" /\ outcome[t] = "lost" => lease[t] \in Dead
  /\ pc[t] = "idle" /\ kind[t] = "run" => outcome[t] # "lost"

RestartInv == OpenedInv /\ \A t \in Callers : ~sawDown[t] => Steady(t)

RInv == CInv /\ PermitsInv /\ RestartInv

LEMMA DeadFinite ==
  ASSUME PermitsInv
  PROVE  /\ IsFiniteSet(Dead) /\ Cardinality(Dead) \in Nat /\ Cardinality(Dead) <= Bound
         /\ \A S \in SUBSET Dead :
              IsFiniteSet(S) /\ Cardinality(S) \in Nat /\ Cardinality(S) <= Cardinality(Dead)
<1>1. Dead \in SUBSET Sockets
  BY DEF Dead
<1>2. IsFiniteSet(Dead) /\ Cardinality(Dead) <= Bound
  BY <1>1, FewerSockets
<1> QED
  BY <1>2, FS_Subset, FS_CardinalityType

\* A step of the server apart, no socket dies.
LEMMA NobodyDies ==
  ASSUME CInv, [Next]_vars, ~ServerDown
  PROVE  Dead' \subseteq Dead
<1>1. ASSUME UNCHANGED <<conn, alive>>, Sockets' \subseteq Sockets PROVE Dead' \subseteq Dead
  BY <1>1 DEF Dead
<1>2. ASSUME NEW S \in SUBSET Conns, Dispose(S), Sockets' \subseteq Sockets PROVE Dead' \subseteq Dead
  <2>1. \A c \in Conns : conn'[c].connected => conn[c].connected /\ c \notin S
    BY <1>2, DisposeEffect DEF CInv
  <2>2. alive' = alive \ S /\ Sockets \subseteq Conns
    BY <1>2, ConnPoolAssumption DEF Dispose, Sockets, Leased, CInv, TypeOK
  <2> QED
    BY <1>2, <2>1, <2>2 DEF Dead
<1>3. ASSUME NEW t \in Callers, Acquire(t) PROVE Dead' \subseteq Dead
  <2>1. lease \in [Callers -> Conns \cup {None}] /\ lease[t] = None /\ idle \subseteq Conns
        /\ Sockets \subseteq Conns
    BY <1>3, ConnPoolAssumption DEF CInv, TypeOK, Acquire, LeaseInv, Sockets, Leased
  <2>2. CASE LeaseIdle(t)
    <3>1. PICK c \in Leasable, stale \in SUBSET {d \in idle : conn[d].gen # gen} :
            lease' = [lease EXCEPT ![t] = c] /\ idle' = Popped(c, stale) /\ Dispose(stale)
      BY <2>2 DEF LeaseIdle
    <3>2. Leased' \subseteq Leased \cup {c} /\ c \in idle /\ idle' \subseteq idle
      BY <2>1, <3>1 DEF Leased, Leasable, Popped
    <3> QED
      BY <1>2, <2>1, <3>1, <3>2 DEF Sockets
  <2>3. CASE LeaseNew(t)
    <3>1. PICK c \in Conns \ (idle \cup Leased) :
            /\ lease' = [lease EXCEPT ![t] = c] /\ idle' = {}
            /\ conn' = [d \in Conns |->
                          IF d = c THEN New
                          ELSE IF d \in idle THEN [conn[d] EXCEPT !.connected = FALSE] ELSE conn[d]]
            /\ alive' = alive \ (idle \cup {c})
      BY <2>3 DEF LeaseNew
    <3>2. Sockets' \subseteq Sockets \cup {c}
      BY <2>1, <3>1 DEF Sockets, Leased
    <3>3. conn'[c].connected = FALSE
      BY <3>1 DEF New
    <3>4. ASSUME NEW d \in Dead' PROVE d \in Dead
      <4>1. d \in Sockets /\ d # c /\ d \in Conns
        BY <2>1, <3>2, <3>3, <3>4 DEF Dead
      <4>2. d \notin idle
        <5>1. ASSUME d \in idle PROVE FALSE
          <6>1. conn[d] \in Conn /\ conn'[d] = [conn[d] EXCEPT !.connected = FALSE]
            BY <3>1, <4>1, <5>1 DEF CInv, TypeOK
          <6> QED
            BY <3>4, <6>1 DEF Dead, Conn
        <5> QED
          BY <5>1
      <4> QED
        BY <3>1, <3>4, <4>1, <4>2 DEF Dead
    <3> QED
      BY <3>4
  <2> QED
    BY <1>3, <2>2, <2>3 DEF Acquire
<1>4. ASSUME NEW t \in Callers, Release(t) PROVE Dead' \subseteq Dead
  <2>1. lease[t] \in Conns /\ idle' \subseteq idle \cup {lease[t]} /\ lease' = [lease EXCEPT ![t] = None]
    BY <1>4, ReturnEffect DEF Release
  <2>2. Sockets' \subseteq Sockets
    <3>1. Leased' \subseteq Leased /\ lease[t] \in Leased
      BY <2>1, ConnPoolAssumption DEF CInv, TypeOK, Leased
    <3> QED
      BY <2>1, <3>1 DEF Sockets
  <2> QED
    BY <1>1, <1>2, <1>4, <2>1, <2>2 DEF Release, Return
<1>5. ASSUME NEW t \in Callers, Connect(t) PROVE Dead' \subseteq Dead
  <2>1. lease[t] \in Conns /\ conn \in [Conns -> Conn] /\ Sockets' = Sockets /\ Sockets \subseteq Conns
    BY <1>5, ConnPoolAssumption DEF CInv, TypeOK, Connect, LeaseInv, Sockets, Leased
  <2>2. \A d \in Conns \ {lease[t]} : conn'[d] = conn[d] /\ (d \in alive' <=> d \in alive)
    BY <1>5, <2>1 DEF Connect
  <2>3. lease[t] \in Dead' => lease[t] \in Dead
    BY <1>5, <2>1 DEF Connect, Dead
  <2> QED
    BY <2>1, <2>2, <2>3 DEF Dead
<1>6. ASSUME NEW t \in Callers,
             \/ \E k \in Kinds : Call(t, k)
             \/ Ensure(t) \/ TakePermit(t) \/ ConnectFails(t) \/ RunAnswered(t) \/ RunLost(t)
      PROVE  Dead' \subseteq Dead
  BY <1>1, <1>6 DEF Call, Ensure, TakePermit, ConnectFails, RunAnswered, RunLost, Sockets, Leased
<1>7. ASSUME NEW a \in Admins, Bump(a) \/ Drain(a) PROVE Dead' \subseteq Dead
  <2>1. idle' = {} /\ lease' = lease /\ Dispose(idle) /\ idle \in SUBSET Conns
    BY <1>7 DEF Bump, Drain, CInv, TypeOK
  <2>2. Sockets' \subseteq Sockets
    BY <2>1 DEF Sockets, Leased
  <2> QED
    BY <1>2, <2>1, <2>2
<1>8. ASSUME NEW a \in Admins,
             SetField(a) \/ ConnectReturn(a) \/ Disconnect(a) \/ \E p \in Profiles : ConnectCall(a, p)
      PROVE  Dead' \subseteq Dead
  BY <1>1, <1>8 DEF SetField, ConnectReturn, Disconnect, ConnectCall, Sockets, Leased
<1>9. CASE ServerUp \/ UNCHANGED vars
  BY <1>1, <1>9 DEF ServerUp, vars, Sockets, Leased
<1> QED
  BY <1>3, <1>4, <1>5, <1>6, <1>7, <1>8, <1>9 DEF Next, Quiet, Proceed, Switch

\* The steps of others leave a call alone, and the connection that it holds.
LEMMA OtherStep ==
  ASSUME CInv, [Next]_vars, ~ServerDown, NEW u \in Callers, pc'[u] = pc[u]
  PROVE  /\ kind'[u] = kind[u] /\ outcome'[u] = outcome[u] /\ attempt'[u] = attempt[u]
         /\ sawDown'[u] = sawDown[u] /\ lease'[u] = lease[u] /\ (up => up')
         /\ lease[u] # None => /\ conn'[lease[u]] = conn[lease[u]]
                               /\ lease[u] \in alive' <=> lease[u] \in alive
<1> DEFINE Kept ==
      /\ kind'[u] = kind[u] /\ outcome'[u] = outcome[u] /\ attempt'[u] = attempt[u]
      /\ sawDown'[u] = sawDown[u] /\ lease'[u] = lease[u] /\ (up => up')
      /\ lease[u] # None => /\ conn'[lease[u]] = conn[lease[u]]
                            /\ lease[u] \in alive' <=> lease[u] \in alive
<1>1. /\ pc \in [Callers -> CallPC] /\ kind \in [Callers -> CallKinds]
      /\ outcome \in [Callers -> Outcome] /\ attempt \in [Callers -> Nat]
      /\ sawDown \in [Callers -> BOOLEAN] /\ lease \in [Callers -> Conns \cup {None}]
      /\ lease[u] \notin idle
      /\ \A t \in Callers : lease[t] = lease[u] /\ lease[t] # None => t = u
      /\ lease[u] # None => lease[u] \in Conns \cap Leased
  BY DEF CInv, TypeOK, ExclusiveLease, Leased
<1>2. ASSUME NEW S \in SUBSET Conns, Dispose(S), lease[u] \notin S, lease[u] # None
      PROVE  conn'[lease[u]] = conn[lease[u]] /\ (lease[u] \in alive' <=> lease[u] \in alive)
  BY <1>1, <1>2 DEF Dispose
<1>3. ASSUME NEW t \in Callers, Acquire(t) PROVE Kept
  <2>1. t # u
    BY <1>1, <1>3 DEF Acquire, Goto
  <2>2. CASE LeaseIdle(t)
    <3>1. PICK c \in Leasable, stale \in SUBSET {d \in idle : conn[d].gen # gen} :
            lease' = [lease EXCEPT ![t] = c] /\ Dispose(stale)
      BY <2>2 DEF LeaseIdle
    <3>2. stale \in SUBSET Conns /\ lease[u] \notin stale
      BY <1>1, <3>1 DEF CInv, TypeOK
    <3>3. lease'[u] = lease[u] /\ attempt'[u] = attempt[u]
      BY <1>1, <1>3, <2>1, <3>1 DEF Acquire
    <3> QED
      BY <1>1, <1>2, <1>3, <3>1, <3>2, <3>3 DEF Acquire
  <2>3. CASE LeaseNew(t)
    <3>1. PICK c \in Conns \ (idle \cup Leased) :
            /\ lease' = [lease EXCEPT ![t] = c]
            /\ conn' = [d \in Conns |->
                          IF d = c THEN New
                          ELSE IF d \in idle THEN [conn[d] EXCEPT !.connected = FALSE] ELSE conn[d]]
            /\ alive' = alive \ (idle \cup {c})
      BY <2>3 DEF LeaseNew
    <3>2. lease'[u] = lease[u] /\ attempt'[u] = attempt[u]
      BY <1>1, <1>3, <2>1, <3>1 DEF Acquire
    <3>3. lease[u] # None => lease[u] \in Conns /\ lease[u] # c /\ lease[u] \notin idle
      BY <1>1, <3>1
    <3> QED
      BY <1>1, <1>3, <3>1, <3>2, <3>3 DEF Acquire
  <2> QED
    BY <1>3, <2>2, <2>3 DEF Acquire
<1>4. ASSUME NEW t \in Callers, Release(t) PROVE Kept
  <2>1. t # u
    BY <1>1, <1>4 DEF Release, Goto
  <2>2. lease[t] \in Conns /\ lease[t] # lease[u]
    BY <1>1, <1>4, <2>1, ReturnEffect, ConnPoolAssumption DEF Release
  <2>3. lease[u] # None => conn'[lease[u]] = conn[lease[u]] /\ (lease[u] \in alive' <=> lease[u] \in alive)
    BY <1>2, <1>4, <2>2 DEF Release, Return
  <2> QED
    BY <1>1, <1>4, <2>1, <2>3 DEF Release
<1>5. ASSUME NEW t \in Callers, Connect(t) PROVE Kept
  <2>1. t # u /\ lease[t] # None
    BY <1>1, <1>5, ConnPoolAssumption DEF Connect, Goto, CInv, LeaseInv
  <2>2. lease[t] # lease[u] /\ lease[t] \in Conns
    BY <1>1, <2>1
  <2> QED
    BY <1>1, <1>5, <2>1, <2>2 DEF Connect
<1>6. ASSUME NEW t \in Callers,
             \/ \E k \in Kinds : Call(t, k)
             \/ Ensure(t) \/ TakePermit(t) \/ ConnectFails(t) \/ RunAnswered(t) \/ RunLost(t)
      PROVE  Kept
  <2>1. t # u
    BY <1>1, <1>6 DEF Call, Ensure, TakePermit, ConnectFails, RunAnswered, RunLost, Goto, Ensured
  <2> QED
    BY <1>1, <1>6, <2>1 DEF Call, Ensure, TakePermit, ConnectFails, RunAnswered, RunLost
<1>7. ASSUME NEW a \in Admins, Bump(a) \/ Drain(a) PROVE Kept
  <2>1. Dispose(idle) /\ idle \in SUBSET Conns
    BY <1>7 DEF Bump, Drain, CInv, TypeOK
  <2> QED
    BY <1>1, <1>2, <1>7, <2>1 DEF Bump, Drain
<1>8. ASSUME NEW a \in Admins,
             SetField(a) \/ ConnectReturn(a) \/ Disconnect(a) \/ \E p \in Profiles : ConnectCall(a, p)
      PROVE  Kept
  BY <1>8 DEF SetField, ConnectReturn, Disconnect, ConnectCall
<1>9. CASE ServerUp \/ UNCHANGED vars
  BY <1>9 DEF ServerUp, vars
<1> QED
  BY <1>3, <1>4, <1>5, <1>6, <1>7, <1>8, <1>9 DEF Next, Quiet, Proceed, Switch

\* So a call that stays where it is remains steady,
LEMMA SteadyStays ==
  ASSUME RInv, [Next]_vars, ~ServerDown, NEW u \in Callers, pc'[u] = pc[u]
  PROVE  /\ pc'[u] = "run" => conn'[lease'[u]].connected
         /\ ~sawDown'[u] => Steady(u)'
<1>1. /\ kind'[u] = kind[u] /\ outcome'[u] = outcome[u] /\ attempt'[u] = attempt[u]
      /\ sawDown'[u] = sawDown[u] /\ lease'[u] = lease[u] /\ (up => up')
      /\ lease[u] # None => /\ conn'[lease[u]] = conn[lease[u]]
                            /\ lease[u] \in alive' <=> lease[u] \in alive
  BY OtherStep DEF RInv
<1>2. pc[u] \in {"connect", "run", "release"} => lease[u] # None /\ lease[u] \in Conns
  BY ConnPoolAssumption DEF RInv, CInv, TypeOK, LeaseInv
<1>3. PermitsInv' /\ Dead' \subseteq Dead /\ Bound' = Bound
  BY NobodyDies, PermitsInductive DEF RInv, Bound
<1>4. /\ Cardinality(Dead') \in Nat /\ Cardinality(Dead) \in Nat
      /\ Cardinality(Dead') <= Cardinality(Dead) /\ Bound \in Nat
  BY <1>3, DeadFinite, ThreadsFinite, ConnPoolAssumption DEF RInv, Bound
<1>5. pc'[u] = "run" => conn'[lease'[u]].connected
  BY <1>1, <1>2 DEF RInv, RestartInv, OpenedInv
<1>6. ASSUME ~sawDown'[u] PROVE Steady(u)'
  <2>1. Steady(u) /\ attempt[u] \in Nat
    BY <1>1, <1>6 DEF RInv, RestartInv, CInv, TypeOK
  <2>2. Spent(u)' = Spent(u) /\ Spent(u) \in Int
    BY <1>1, <2>1 DEF Spent
  <2>3. pc'[u] # "idle" /\ kind'[u] = "run" => Spent(u)' + Cardinality(Dead') <= Bound'
    BY <1>1, <1>3, <1>4, <2>1, <2>2 DEF Steady
  <2>4. pc'[u] = "release" /\ kind'[u] = "run" /\ outcome'[u] = "lost" => lease'[u] \in Dead'
    <3>1. SUFFICES ASSUME pc'[u] = "release", kind'[u] = "run", outcome'[u] = "lost"
                   PROVE  lease'[u] \in Dead'
      OBVIOUS
    <3>2. lease[u] \in Dead /\ lease[u] # None
      BY <1>1, <1>2, <2>1, <3>1 DEF Steady
    <3>3. lease[u] \in Sockets'
      BY <1>1, <3>2 DEF Sockets, Leased
    <3> QED
      BY <1>1, <3>2, <3>3 DEF Dead
  <2> QED
    BY <1>1, <2>1, <2>3, <2>4 DEF Steady
<1> QED
  BY <1>5, <1>6

\* a call that begins has no attempt behind it,
LEMMA SteadyCall ==
  ASSUME RInv, [Next]_vars, NEW t \in Callers, NEW k \in Kinds, Call(t, k)
  PROVE  /\ pc'[t] # "run"
         /\ ~sawDown'[t] => Steady(t)'
<1>1. /\ pc'[t] \in {"ensure", "permit", "acquire"} /\ attempt'[t] = 0 /\ outcome'[t] = "none"
      /\ sawDown'[t] = ~up /\ up' = up
  BY DEF RInv, CInv, TypeOK, Call, Goto
<1>2. ~ServerDown
  BY DEF Call, ServerDown
<1>3. PermitsInv' /\ Bound' = Bound
  BY PermitsInductive DEF RInv, Bound
<1>4. Dead' \subseteq Dead
  BY <1>2, NobodyDies DEF RInv
<1>5. Cardinality(Dead') \in Nat /\ Cardinality(Dead) \in Nat /\ Bound \in Nat
      /\ Cardinality(Dead') <= Cardinality(Dead) /\ Cardinality(Dead) <= Bound
  BY <1>3, <1>4, DeadFinite, ThreadsFinite, ConnPoolAssumption DEF RInv, Bound
<1>6. Spent(t)' = 0
  BY <1>1 DEF Spent, Holding
<1>7. Spent(t)' + Cardinality(Dead') <= Bound'
  BY <1>3, <1>5, <1>6
<1> QED
  BY <1>1, <1>7 DEF Steady

\* and one that goes on spends an attempt only when it discards a dead socket.
LEMMA SteadyProceeds ==
  ASSUME RInv, [Next]_vars, NEW t \in Callers, Proceed(t), Bound < MaxAttempts
  PROVE  /\ pc'[t] = "run" => conn'[lease'[t]].connected
         /\ ~sawDown'[t] => Steady(t)'
<1>1. /\ pc \in [Callers -> CallPC] /\ kind \in [Callers -> CallKinds] /\ kind' = kind
      /\ outcome \in [Callers -> Outcome] /\ attempt \in [Callers -> Nat]
      /\ lease \in [Callers -> Conns \cup {None}] /\ sawDown' = sawDown /\ up' = up
      /\ conn \in [Conns -> Conn] /\ pc[t] # "idle"
  BY DEF RInv, CInv, TypeOK, Proceed, Ensure, TakePermit, Acquire, Connect, ConnectFails,
     RunAnswered, RunLost, Release
<1>2. ~ServerDown
  BY DEF Proceed, Ensure, TakePermit, Acquire, Connect, ConnectFails, RunAnswered, RunLost,
     Release, ServerDown
<1>3. PermitsInv' /\ Dead' \subseteq Dead /\ Bound' = Bound
  BY <1>2, NobodyDies, PermitsInductive DEF RInv, Bound
<1>4. /\ Cardinality(Dead') \in Nat /\ Cardinality(Dead) \in Nat
      /\ Cardinality(Dead') <= Cardinality(Dead) /\ Bound \in Nat /\ MaxAttempts \in Nat
  BY <1>3, DeadFinite, ThreadsFinite, ConnPoolAssumption DEF RInv, Bound
<1>5. pc[t] \in Holding => lease[t] # None /\ lease[t] \in Conns /\ lease[t] \in Sockets
  BY <1>1, ConnPoolAssumption DEF RInv, CInv, LeaseInv, Holding, Sockets, Leased
<1>6. ASSUME ~sawDown'[t], pc'[t] # "idle", Spent(t)' = Spent(t),
             pc'[t] = "release" /\ kind[t] = "run" /\ outcome'[t] = "lost" => lease'[t] \in Dead'
      PROVE  Steady(t)'
  <2>1. Steady(t) /\ Spent(t) \in Int
    BY <1>1, <1>6 DEF RInv, RestartInv, Spent
  <2>2. kind[t] = "run" => Spent(t)' + Cardinality(Dead') <= Bound'
    BY <1>1, <1>3, <1>4, <1>6, <2>1 DEF Steady
  <2> QED
    BY <1>1, <1>6, <2>1, <2>2 DEF Steady
<1>7. CASE Ensure(t) \/ TakePermit(t)
  <2>1. pc'[t] \in {"permit", "acquire"} /\ attempt' = attempt /\ pc[t] \in {"ensure", "permit"}
    BY <1>1, <1>7 DEF Ensure, TakePermit, Goto
  <2> QED
    BY <1>6, <2>1 DEF Spent, Holding
<1>8. CASE Acquire(t)
  <2>1. pc[t] = "acquire" /\ pc'[t] = "connect" /\ attempt'[t] = attempt[t] + 1
    BY <1>1, <1>8 DEF Acquire, Goto
  <2>2. Spent(t)' = Spent(t)
    BY <1>1, <2>1 DEF Spent, Holding
  <2> QED
    BY <1>6, <2>1, <2>2
<1>9. CASE Connect(t)
  <2>1. pc[t] = "connect" /\ pc'[t] = "run" /\ attempt' = attempt /\ lease' = lease
        /\ conn' = [conn EXCEPT ![lease[t]].connected = TRUE]
    BY <1>1, <1>9 DEF Connect, Goto
  <2>2. conn'[lease'[t]].connected
    BY <1>1, <1>5, <2>1 DEF Holding, Conn
  <2>3. Spent(t)' = Spent(t)
    BY <1>1, <2>1 DEF Spent, Holding
  <2> QED
    BY <1>6, <2>1, <2>2, <2>3
<1>10. CASE ConnectFails(t)
  <2>1. pc'[t] = "release" /\ ~up
    BY <1>1, <1>10 DEF ConnectFails, Goto
  <2>2. sawDown'[t]
    BY <1>1, <2>1 DEF RInv, RestartInv, Steady, CInv, TypeOK
  <2> QED
    BY <2>1, <2>2
<1>11. CASE RunAnswered(t)
  <2>1. pc[t] = "run" /\ pc'[t] = "release" /\ attempt' = attempt /\ outcome'[t] # "lost"
    BY <1>1, <1>11 DEF RunAnswered, Goto
  <2>2. Spent(t)' = Spent(t)
    BY <1>1, <2>1 DEF Spent, Holding
  <2> QED
    BY <1>6, <2>1, <2>2
<1>12. CASE RunLost(t)
  <2>1. pc[t] = "run" /\ pc'[t] = "release" /\ attempt' = attempt /\ lease[t] \notin alive
        /\ UNCHANGED <<conn, alive, lease, idle>>
    BY <1>1, <1>12 DEF RunLost, Goto
  <2>2. lease'[t] \in Dead'
    BY <1>5, <2>1 DEF RInv, RestartInv, OpenedInv, Dead, Sockets, Leased, Holding
  <2>3. Spent(t)' = Spent(t)
    BY <1>1, <2>1 DEF Spent, Holding
  <2> QED
    BY <1>6, <2>1, <2>2, <2>3
<1>13. CASE Release(t)
  <2>1. /\ pc[t] = "release" /\ UNCHANGED <<attempt, outcome>> /\ lease' = [lease EXCEPT ![t] = None]
        /\ pc'[t] = IF Saves(t) THEN "acquire" ELSE IF Retries(t) THEN "ensure" ELSE "idle"
        /\ Return(t)
    BY <1>1, <1>13 DEF Release, Goto
  <2>2. CASE ~(kind[t] = "run" /\ outcome[t] = "lost")
    <3>1. kind[t] = "run" => pc'[t] = "idle" /\ outcome'[t] # "lost"
      BY <2>1, <2>2 DEF Saves, Retries
    <3>2. Steady(t) => Steady(t)'
      BY <1>1, <2>1, <3>1 DEF Steady
    <3> QED
      BY <1>1, <2>1, <3>2 DEF RInv, RestartInv
  <2>3. CASE kind[t] = "run" /\ outcome[t] = "lost" /\ ~sawDown[t]
    <3>1. Steady(t) /\ lease[t] \in Dead
      BY <1>1, <2>1, <2>3 DEF RInv, RestartInv, Steady
    <3>2. Spent(t) = attempt[t] - 1 /\ attempt[t] \in Nat
      BY <1>1, <2>1 DEF Spent, Holding
    <3>3. lease[t] \notin Dead'
      <4>1. Dispose({lease[t]})
        BY <2>1, <2>3 DEF Return, Discarded
      <4>2. ~conn'[lease[t]].connected
        BY <1>5, <2>1, <4>1, DisposeEffect DEF RInv, CInv, Holding
      <4> QED
        BY <4>2 DEF Dead
    <3>4. /\ IsFiniteSet(Dead) /\ Dead' \in SUBSET (Dead \ {lease[t]})
          /\ IsFiniteSet(Dead \ {lease[t]})
          /\ Cardinality(Dead \ {lease[t]}) = Cardinality(Dead) - 1
      BY <1>3, <3>1, <3>3, DeadFinite, FS_RemoveElement DEF RInv
    <3>5. Cardinality(Dead') <= Cardinality(Dead) - 1
      BY <3>4, FS_Subset
    <3>6. attempt[t] + Cardinality(Dead') <= Bound
      BY <1>1, <1>4, <2>1, <2>3, <3>1, <3>2, <3>5 DEF Steady
    <3>7. Retries(t) /\ ~Saves(t)
      BY <1>4, <2>3, <3>2, <3>6 DEF Retries, Saves
    <3>8. pc'[t] = "ensure" /\ Spent(t)' = attempt[t]
      BY <2>1, <3>7 DEF Spent, Holding
    <3>9. up'
      BY <1>1, <2>1, <3>1 DEF Steady
    <3>10. Spent(t)' + Cardinality(Dead') <= Bound'
      BY <1>3, <3>6, <3>8
    <3> QED
      BY <3>8, <3>9, <3>10 DEF Steady
  <2> QED
    BY <1>1, <2>1, <2>2, <2>3
<1> QED
  BY <1>7, <1>8, <1>9, <1>10, <1>11, <1>12, <1>13 DEF Proceed

\* When the server goes down every call under way has seen it.
LEMMA SteadyDown ==
  ASSUME RInv, ServerDown, NEW u \in Callers
  PROVE  /\ pc'[u] = "run" => conn'[lease'[u]].connected
         /\ ~sawDown'[u] => Steady(u)'
<1>1. /\ UNCHANGED <<pc, conn, lease, kind, outcome>>
      /\ sawDown'[u] = (sawDown[u] \/ pc[u] # "idle")
  BY DEF ServerDown
<1> QED
  BY <1>1 DEF RInv, RestartInv, OpenedInv, Steady

LEMMA RestartInductive ==
  ASSUME RInv, [Next]_vars, Bound < MaxAttempts
  PROVE  RInv'
<1>1. ASSUME NEW u \in Callers
      PROVE  /\ pc'[u] = "run" => conn'[lease'[u]].connected
             /\ ~sawDown'[u] => Steady(u)'
  <2>1. CASE ServerDown
    BY <2>1, SteadyDown
  <2>2. CASE ~ServerDown /\ pc'[u] = pc[u]
    BY <2>2, SteadyStays
  <2>3. CASE ~ServerDown /\ pc'[u] # pc[u]
    <3>1. \A t \in Callers : Proceed(t) \/ (\E k \in Kinds : Call(t, k)) => t = u
      BY <2>3 DEF Proceed, Call, Ensure, TakePermit, Acquire, Connect, ConnectFails, RunAnswered,
         RunLost, Release, Goto, RInv, CInv, TypeOK
    <3>2. Proceed(u) \/ \E k \in Kinds : Call(u, k)
      BY <2>3, <3>1 DEF Next, Quiet, vars, Switch, SetField, Bump, ConnectReturn, Drain,
         Disconnect, ConnectCall, ServerUp
    <3> QED
      BY <3>2, SteadyProceeds, SteadyCall
  <2> QED
    BY <2>1, <2>2, <2>3
<1>2. CInv' /\ PermitsInv'
  BY NextInv, PermitsInductive DEF RInv
<1> QED
  BY <1>1, <1>2 DEF RInv, RestartInv, OpenedInv

LEMMA RestartInit == ASSUME Init PROVE RInv
<1>1. RestartInv
  BY DEF Init, RestartInv, OpenedInv, Steady
<1> QED
  BY <1>1, InitInv, PermitsInit DEF RInv

-----------------------------------------------------------------------------
(* Nobody is stuck.  A call waits for a permit, for the lock of connect() or   *)
(* for a connection; what it waits for is held by somebody who can go on.    *)

\* The guard of the next step of a call, and of the next step under the lock.
CanProceed(t) ==
  \/ pc[t] = "ensure" /\ (active \/ ~ConnectLocked)
  \/ pc[t] = "permit" /\ PermitFree
  \/ pc[t] = "acquire" /\ (Leasable # {} \/ Conns \ (idle \cup Leased) # {})
  \/ pc[t] \in {"connect", "run", "release"}

CanSwitch(a) ==
  /\ admin[a] # "idle"
  /\ admin[a] = "configure" => \E f \in Differing(a) : \A g \in Differing(a) : f <= g

NobodyStuck ==
  \A t \in Callers : pc[t] # "idle" =>
    \/ CanProceed(t)
    \/ pc[t] = "permit" /\ \E u \in GatedInside : CanProceed(u)
    \/ pc[t] = "ensure" /\ \E a \in Admins : CanSwitch(a)

\* configure() has a parameter left to write until it bumps the generation.
ConfigureInv == \A a \in Admins : admin[a] = "configure" => Differing(a) # {}

LEMMA ConfigureInductive ==
  ASSUME CInv, ConfigureInv, [Next]_vars
  PROVE  ConfigureInv'
<1>1. ASSUME NEW b \in Admins, NEW p \in Profiles, ConnectCall(b, p) PROVE ConfigureInv'
  <2>1. /\ admin' = [admin EXCEPT ![b] = IF p = params THEN "connect" ELSE "configure"]
        /\ target' = [target EXCEPT ![b] = p] /\ params' = params
        /\ \A a \in Admins : admin[a] = "idle"
    BY <1>1 DEF ConnectCall, ConnectLocked, config
  <2>2. params \in Params /\ p \in Params /\ admin \in [Admins -> AdminPC] /\ target \in [Admins -> Params]
    BY ConnPoolAssumption DEF CInv, TypeOK
  <2>3. p # params => \E f \in Fields : params[f] # p[f]
    BY <2>2 DEF Params
  <2> QED
    BY <2>1, <2>2, <2>3 DEF ConfigureInv, Differing
<1>2. ASSUME NEW b \in Admins, SetField(b) PROVE ConfigureInv'
  <2>1. PICK f \in Differing(b) :
          /\ params' = [params EXCEPT ![f] = target[b][f]]
          /\ admin' = [admin EXCEPT ![b] = IF Differing(b) = {f} THEN "bump" ELSE "configure"]
    BY <1>2 DEF SetField
  <2>2. /\ params \in Params /\ admin \in [Admins -> AdminPC] /\ target' = target /\ f \in Fields
        /\ \A a \in Admins \ {b} : admin[a] = "idle"
    BY <1>2 DEF CInv, TypeOK, LockInv, SetField, Differing
  <2>3. \A g \in Differing(b) \ {f} : params'[g] # target'[b][g]
    BY <2>1, <2>2 DEF Differing, Params
  <2>4. Differing(b) # {f} => Differing(b)' # {}
    BY <2>1, <2>3 DEF Differing
  <2> QED
    BY <2>1, <2>2, <2>4 DEF ConfigureInv
<1>3. ASSUME UNCHANGED <<params, target>>, \A a \in Admins : admin'[a] = "configure" => admin[a] = "configure"
      PROVE  ConfigureInv'
  BY <1>3 DEF ConfigureInv, Differing
<1>4. ASSUME NEW b \in Admins, Bump(b) \/ ConnectReturn(b) \/ Drain(b) \/ Disconnect(b)
      PROVE  ConfigureInv'
  BY <1>3, <1>4 DEF Bump, ConnectReturn, Drain, Disconnect, CInv, TypeOK
<1>5. ASSUME NEW t \in Callers, Proceed(t) \/ \E k \in Kinds : Call(t, k) PROVE ConfigureInv'
  BY <1>3, <1>5 DEF Proceed, Call, Ensure, TakePermit, Acquire, Connect, ConnectFails, RunAnswered,
     RunLost, Release
<1>6. CASE ServerDown \/ ServerUp \/ UNCHANGED vars
  BY <1>3, <1>6 DEF ServerDown, ServerUp, vars
<1> QED
  BY <1>1, <1>2, <1>4, <1>5, <1>6 DEF Next, Quiet, Switch

\* Every set of natural numbers that is not empty has a least element.
LEMMA Least ==
  ASSUME NEW Holds \in SUBSET Nat, Holds # {}
  PROVE  \E n \in Holds : \A m \in Holds : n <= m
<1> DEFINE R == {ss \in Nat \X Nat : ss[1] < ss[2]}
<1>1. IsWellFoundedOn(R, Nat)
  BY NatLessThanWellFounded DEF OpToRel
<1>2. PICK n \in Holds : \A m \in Holds : <<m, n>> \notin R
  <2> HIDE DEF R
  <2> QED BY <1>1, WFMin
<1>3. ASSUME NEW m \in Holds PROVE ~(m < n)
  BY <1>2
<1> QED
  BY <1>3

\* Who has the lock of connect() can go on: of the parameters to write one is the first.
LEMMA LockHolderMoves ==
  ASSUME CInv, ConfigureInv, ConnectLocked
  PROVE  \E a \in Admins : CanSwitch(a)
<1>1. PICK a \in Admins : admin[a] # "idle"
  BY DEF ConnectLocked
<1>2. Differing(a) \subseteq Nat
  BY ConnPoolAssumption DEF Differing, Fields
<1>3. \A S \in SUBSET Nat : S # {} => \E n \in S : \A m \in S : n <= m
  BY Least
<1>4. CanSwitch(a)
  BY <1>1, <1>2, <1>3 DEF CanSwitch, ConfigureInv
<1> QED
  BY <1>4

\* With a connection object for each thread that may be inside, _acquire finds one.
LEMMA AcquireFinds ==
  ASSUME CInv, PermitsInv, IsFiniteSet(Conns), Cardinality(Conns) >= Bound,
         NEW t \in Callers, pc[t] = "acquire"
  PROVE  CanProceed(t)
<1> SUFFICES ASSUME Leasable = {}, Conns \subseteq idle \cup Leased PROVE FALSE
  BY DEF CanProceed
<1> DEFINE H == GatedInside \cup Probers
           I == {lease[u] : u \in H \ {t}}
<1>1. idle = {}
  BY DEF CInv, IdleInv, Leasable
<1>2. /\ IsFiniteSet(H) /\ Cardinality(H) \in Nat /\ Cardinality(H) <= Bound /\ Bound \in Nat
      /\ t \in H
  BY InsideBound DEF CInv, Inside
<1>3. IsFiniteSet(H \ {t}) /\ Cardinality(H \ {t}) = Cardinality(H) - 1
  BY <1>2, FS_RemoveElement
<1>4. Leased \subseteq I
  <2>1. ASSUME NEW u \in Callers, lease[u] # None PROVE u \in H \ {t}
    BY <2>1, InsideBound DEF CInv, LeaseInv, Inside
  <2> QED
    BY <2>1 DEF Leased
<1>5. Conns \subseteq I
  BY <1>1, <1>4
<1>6. IsFiniteSet(I) /\ Cardinality(I) <= Cardinality(H \ {t})
  BY <1>3, ImageBound
<1>7. Cardinality(Conns) <= Cardinality(I) /\ Cardinality(Conns) \in Nat /\ Cardinality(I) \in Nat
  BY <1>5, <1>6, FS_Subset, FS_CardinalityType
<1> QED
  BY <1>2, <1>3, <1>6, <1>7

LEMMA NobodyStuckHolds ==
  ASSUME CInv, PermitsInv, ConfigureInv, IsFiniteSet(Conns), Cardinality(Conns) >= Bound
  PROVE  NobodyStuck
<1> SUFFICES ASSUME NEW t \in Callers, pc[t] # "idle", ~CanProceed(t)
             PROVE  \/ pc[t] = "permit" /\ \E u \in GatedInside : CanProceed(u)
                    \/ pc[t] = "ensure" /\ \E a \in Admins : CanSwitch(a)
  BY DEF NobodyStuck
<1>1. pc[t] \in {"ensure", "permit"}
  BY AcquireFinds DEF CanProceed, CInv, TypeOK, CallPC
<1>2. CASE pc[t] = "ensure"
  BY <1>2, LockHolderMoves DEF CanProceed
<1>3. CASE pc[t] = "permit"
  <2>1. permits = 0 /\ Permits # 0
    BY <1>3, ConnPoolAssumption DEF CanProceed, PermitFree, CInv, TypeOK
  <2>2. GatedInside # {}
    BY <2>1, FS_EmptySet DEF PermitsInv
  <2>3. PICK u \in GatedInside : TRUE
    BY <2>2
  <2>4. CanProceed(u)
    BY <2>3, AcquireFinds DEF GatedInside, Inside, CanProceed
  <2> QED
    BY <1>3, <2>4
<1> QED
  BY <1>1, <1>2, <1>3

-----------------------------------------------------------------------------
(* A call gets shorter.  What is left of it is counted by its attempts, and    *)
(* within an attempt by the steps to its end.                               *)

\* The steps from here to the end of an attempt, more than any step that takes an attempt adds.
Rank ==
  [l \in CallPC |->
     CASE l = "ensure" -> 7 [] l = "permit" -> 6 [] l = "acquire" -> 5
       [] l = "connect" -> 10 [] l = "run" -> 9 [] l = "release" -> 8 [] OTHER -> 0]

\* A save takes a second connection when there is only one attempt.
StepsLeft(t) == 8 * (MaxAttempts + 1 - attempt[t]) + Rank[pc[t]]

CallsShorten ==
  [][\A t \in Callers : pc[t] # "idle" =>
       /\ StepsLeft(t) \in Nat
       /\ StepsLeft(t)' <= StepsLeft(t)
       /\ Proceed(t) => StepsLeft(t)' < StepsLeft(t)]_vars

AttemptInv ==
  \A t \in Callers :
    /\ attempt[t] <= MaxAttempts + 1
    /\ pc[t] \in {"ensure", "permit", "acquire"} => attempt[t] <= MaxAttempts

\* A step of a call changes nothing of what is counted for the others.
LEMMA ProceedAlone ==
  ASSUME TypeOK, NEW t \in Callers, Proceed(t), NEW u \in Callers \ {t}
  PROVE  pc'[u] = pc[u] /\ attempt'[u] = attempt[u]
BY DEF TypeOK, Proceed, Goto, Ensure, TakePermit, Acquire, Connect, ConnectFails, RunAnswered,
   RunLost, Release

\* Its own count goes down, with every step and every new attempt.
LEMMA ProceedShortens ==
  ASSUME TypeOK, AttemptInv, NEW t \in Callers, Proceed(t)
  PROVE  /\ StepsLeft(t) \in Nat
         /\ StepsLeft(t)' <= StepsLeft(t) /\ StepsLeft(t)' < StepsLeft(t)
         /\ attempt'[t] <= MaxAttempts + 1
         /\ pc'[t] \in {"ensure", "permit", "acquire"} => attempt'[t] <= MaxAttempts
<1>1. /\ MaxAttempts \in Nat \ {0} /\ attempt[t] \in Nat /\ attempt[t] <= MaxAttempts + 1
      /\ pc[t] \in {"ensure", "permit", "acquire"} => attempt[t] <= MaxAttempts
  BY ConnPoolAssumption DEF TypeOK, AttemptInv
<1>2. /\ Rank["ensure"] = 7 /\ Rank["permit"] = 6 /\ Rank["acquire"] = 5 /\ Rank["connect"] = 10
      /\ Rank["run"] = 9 /\ Rank["release"] = 8 /\ Rank["idle"] = 0
  BY DEF Rank, CallPC
<1>3. \/ pc[t] = "ensure" /\ pc'[t] = "permit" /\ attempt'[t] = attempt[t]
      \/ pc[t] = "permit" /\ pc'[t] = "acquire" /\ attempt'[t] = attempt[t]
      \/ pc[t] = "acquire" /\ pc'[t] = "connect" /\ attempt'[t] = attempt[t] + 1
      \/ pc[t] = "connect" /\ pc'[t] \in {"run", "release"} /\ attempt'[t] = attempt[t]
      \/ pc[t] = "run" /\ pc'[t] = "release" /\ attempt'[t] = attempt[t]
      \/ /\ pc[t] = "release" /\ attempt'[t] = attempt[t]
         /\ \/ pc'[t] = "idle"
            \/ pc'[t] = "acquire" /\ attempt[t] = 1
            \/ pc'[t] = "ensure" /\ attempt[t] < MaxAttempts
  BY DEF TypeOK, Proceed, Goto, Ensure, TakePermit, Acquire, Connect, ConnectFails, RunAnswered,
     RunLost, Release, Saves, Retries
<1> QED
  BY <1>1, <1>2, <1>3 DEF StepsLeft

LEMMA AttemptInductive ==
  ASSUME TypeOK, AttemptInv, [Next]_vars
  PROVE  AttemptInv'
<1>1. ASSUME NEW t \in Callers, Proceed(t) PROVE AttemptInv'
  <2> SUFFICES ASSUME NEW u \in Callers
               PROVE  /\ attempt'[u] <= MaxAttempts + 1
                      /\ pc'[u] \in {"ensure", "permit", "acquire"} => attempt'[u] <= MaxAttempts
    BY DEF AttemptInv
  <2>1. CASE u = t
    BY <1>1, <2>1, ProceedShortens
  <2>2. CASE u # t
    BY <1>1, <2>2, ProceedAlone DEF AttemptInv
  <2> QED
    BY <2>1, <2>2
<1>2. ASSUME NEW t \in Callers, NEW k \in Kinds, Call(t, k) PROVE AttemptInv'
  BY <1>2, ConnPoolAssumption DEF TypeOK, AttemptInv, Call, Goto
<1>3. ASSUME UNCHANGED <<pc, attempt>> PROVE AttemptInv'
  BY <1>3 DEF AttemptInv
<1>4. CASE \E a \in Admins : Switch(a) \/ Disconnect(a) \/ \E p \in Profiles : ConnectCall(a, p)
  BY <1>3, <1>4 DEF Switch, SetField, Bump, ConnectReturn, Drain, Disconnect, ConnectCall
<1>5. CASE ServerDown \/ ServerUp \/ UNCHANGED vars
  BY <1>3, <1>5 DEF ServerDown, ServerUp, vars
<1> QED
  BY <1>1, <1>2, <1>4, <1>5 DEF Next, Quiet

LEMMA NextShortens ==
  ASSUME TypeOK, AttemptInv, [Next]_vars, NEW t \in Callers, pc[t] # "idle"
  PROVE  /\ StepsLeft(t) \in Nat
         /\ StepsLeft(t)' <= StepsLeft(t)
         /\ Proceed(t) => StepsLeft(t)' < StepsLeft(t)
<1>1. StepsLeft(t) \in Nat
  BY ConnPoolAssumption DEF TypeOK, AttemptInv, StepsLeft, Rank, CallPC
<1>2. Proceed(t) => StepsLeft(t)' < StepsLeft(t)
  BY ProceedShortens
<1>3. pc'[t] = pc[t] /\ attempt'[t] = attempt[t] => StepsLeft(t)' = StepsLeft(t)
  BY DEF StepsLeft
<1>4. \/ Proceed(t)
      \/ pc'[t] = pc[t] /\ attempt'[t] = attempt[t]
  <2>1. ASSUME NEW u \in Callers, Proceed(u), u # t PROVE pc'[t] = pc[t] /\ attempt'[t] = attempt[t]
    BY <2>1, ProceedAlone
  <2>2. ASSUME NEW u \in Callers, NEW k \in Kinds, Call(u, k)
        PROVE  pc'[t] = pc[t] /\ attempt'[t] = attempt[t]
    BY <2>2 DEF TypeOK, Call, Goto
  <2>3. CASE \E a \in Admins : Switch(a) \/ Disconnect(a) \/ \E p \in Profiles : ConnectCall(a, p)
    BY <2>3 DEF Switch, SetField, Bump, ConnectReturn, Drain, Disconnect, ConnectCall
  <2>4. CASE ServerDown \/ ServerUp \/ UNCHANGED vars
    BY <2>4 DEF ServerDown, ServerUp, vars
  <2> QED
    BY <2>1, <2>2, <2>3, <2>4 DEF Next, Quiet
<1>5. Proceed(t) => StepsLeft(t)' <= StepsLeft(t)
  BY ProceedShortens
<1>6. \A n \in Nat : n <= n
  OBVIOUS
<1>7. StepsLeft(t)' <= StepsLeft(t)
  BY <1>1, <1>3, <1>4, <1>5, <1>6
<1> QED
  BY <1>1, <1>2, <1>7

-----------------------------------------------------------------------------
(* The theorems.                                                           *)

\* The state of the pool and of the calls is always well-typed.
THEOREM TypeCorrect == Spec => []TypeOK
BY Invariance, PTL DEF CInv

\* _acquire and _release never hand one connection to two threads.
THEOREM Exclusive == Spec => []ExclusiveLease
BY Invariance, PTL DEF CInv

\* After configure() no connection to the old target is leased as current.
THEOREM NeverStale == Spec => []NoStaleTarget
<1>1. CInv => NoStaleTarget
  BY DEF CInv, IdleInv, ParamsInv, Configuring, NoStaleTarget
<1> QED
  BY <1>1, Invariance, PTL

\* The permits in use are those of the calls inside, and there are never more
\* sockets open than permits and threads that ask for the version.
THEOREM PermitsBound == Spec => []PermitsBoundSockets
<1>1. ASSUME CInv, PermitsInv PROVE PermitsBoundSockets
  <2>1. Open \in SUBSET Sockets
    BY <1>1 DEF CInv, DrainInv, Sockets
  <2> QED
    BY <1>1, <2>1, FewerSockets DEF PermitsInv, PermitsBoundSockets, GatedInside, Bound
<1> QED
  BY <1>1, PermitsInvariance, PTL

\* With more attempts than there can be sockets, no call of _run_resilient gives up
\* with a connection error that began when the server was up for good.
THEOREM Outlives ==
  ASSUME Permits + Cardinality(Probers) < MaxAttempts
  PROVE  Spec => []OutlivesRestart
<1>1. Bound < MaxAttempts
  BY DEF Bound
<1>2. RInv /\ [Next]_vars => RInv'
  BY <1>1, RestartInductive
<1>3. RInv => OutlivesRestart
  BY DEF RInv, RestartInv, Steady, OutlivesRestart
<1> QED
  BY <1>2, <1>3, RestartInit, PTL DEF Spec

\* disconnect() leaves no socket open but those of calls that are under way.
THEOREM Drained == Spec => []DrainedAfterDisconnect
<1>1. CInv => DrainedAfterDisconnect
  BY DEF CInv, DrainInv, DrainedAfterDisconnect, ConnectLocked, Open
<1> QED
  BY <1>1, Invariance, PTL

\* A connection that met a connection error is never idle again, unless
\* grep_stream, which swallows the error, is among the calls.
THEOREM NeverRepooled ==
  ASSUME "grep" \notin Kinds
  PROVE  Spec => []BrokenNotRepooled
<1>1. CInv => BrokenNotRepooled
  BY DEF CInv, BrokenInv, BrokenNotRepooled
<1> QED
  BY <1>1, Invariance, PTL

\* No call hangs on another for good: with a connection object for each permit and for each
\* thread that asks for the version, a call can go on, or waits for a permit of a call that
\* can, or for a connect() or disconnect() that can.  (_acquire, _call_sem, _connect_lock.)
THEOREM CallsNeverStuck ==
  ASSUME IsFiniteSet(Conns), Cardinality(Conns) >= Permits + Cardinality(Probers)
  PROVE  Spec => []NobodyStuck
<1>1. Cardinality(Conns) >= Bound
  BY DEF Bound
<1>2. Init => ConfigureInv
  BY DEF Init, ConfigureInv
<1>3. CInv /\ ConfigureInv /\ [Next]_vars => ConfigureInv'
  BY ConfigureInductive
<1>4. CInv /\ PermitsInv /\ ConfigureInv => NobodyStuck
  BY <1>1, NobodyStuckHolds
<1> QED
  BY <1>2, <1>3, <1>4, PermitsInvariance, PTL DEF Spec

\* No call retries for ever: each of its steps leaves less of it to go, in attempts and in
\* steps of an attempt, and nothing that anybody else does gives it more.  (_run_resilient.)
THEOREM CallsGetShorter == Spec => CallsShorten
<1>1. Init => AttemptInv
  BY ConnPoolAssumption DEF Init, AttemptInv
<1>2. TypeOK /\ AttemptInv /\ [Next]_vars => AttemptInv'
  BY AttemptInductive
<1>3. TypeOK /\ AttemptInv /\ [Next]_vars =>
        [\A t \in Callers : pc[t] # "idle" =>
           /\ StepsLeft(t) \in Nat
           /\ StepsLeft(t)' <= StepsLeft(t)
           /\ Proceed(t) => StepsLeft(t)' < StepsLeft(t)]_vars
  BY NextShortens
<1> QED
  BY <1>1, <1>2, <1>3, TypeCorrect, PTL DEF Spec, CallsShorten
==============================================================================
