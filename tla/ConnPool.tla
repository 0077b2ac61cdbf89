------------------------------- MODULE ConnPool -------------------------------
(***************************************************************************)
(* How p4 commands reach the server: P4Service (its connect lock, its call   *)
(* permits and its retry loop) on top of _PythonBackend (a pool of           *)
(* connections, each leased to one thread at a time), in                     *)
(* p4v_tui/p4client.py, and a server that may go down and come back.         *)
(*                                                                         *)
(* A critical section of _pool_lock is one action.  _connect_lock is held    *)
(* over several actions by connect and disconnect, whose writes of the       *)
(* connection parameters and of _active take no other lock.  A connection    *)
(* that has left the pool belongs to one thread, so its disconnect is part   *)
(* of the action that removes it.                                            *)
(***************************************************************************)
EXTENDS Naturals, FiniteSets

CONSTANTS
  Callers,     \* threads that issue p4 commands
  Admins,      \* threads that call P4Service.connect and disconnect
  Probers,     \* those of them that ask for the version
  Kinds,       \* the kinds of calls made: a subset of CallKinds
  Conns,       \* identities of connection objects
  NFields,     \* how many parameters configure() sets, one after the other
  Profiles,    \* the parameters a connect() may ask for
  Env,         \* those the environment gives
  Permits,     \* max_concurrent_calls
  MaxAttempts, \* max_attempts of the retry loop
  MaxCalls,    \* bound: calls made by one thread
  MaxOutages,  \* bound: how often the server goes down
  MaxAdmin,    \* bound: connect and disconnect calls
  None

\* run:     _run_resilient, a tagged or text command with retries
\* form:    a form call or fetch_client_view: connected first, no retry
\* save:    a form is fetched and saved back under one permit
\* login:   login_status, which connects on its own and does not retry
\* grep:    grep_stream, which swallows the errors of the command
\* version: version_info, outside the permits
CallKinds == {"run", "form", "save", "login", "grep", "version"}
Ensured   == {"run", "form", "save", "grep"}
Gated     == CallKinds \ {"version"}

Fields == 1..NFields
Params == [Fields -> Nat]

ASSUME ConnPoolAssumption ==
  /\ Probers \subseteq Callers /\ IsFiniteSet(Callers)
  /\ Kinds \subseteq CallKinds
  /\ NFields \in Nat
  /\ Profiles \subseteq Params
  /\ Env \in Params
  /\ Permits \in Nat \ {0}
  /\ MaxAttempts \in Nat \ {0}
  /\ MaxCalls \in Nat /\ MaxOutages \in Nat /\ MaxAdmin \in Nat
  /\ None \notin Conns
  /\ Conns # {}

VARIABLES
  params,   \* params[f]: _port, _user, _client, _charset
  gen,      \* _gen
  active,   \* _active
  idle,     \* the connections in _idle
  conn,     \* conn[c]: the attributes of connection c
  alive,    \* the connections whose socket reaches the server
  permits,  \* free permits of _call_sem
  pc,       \* pc[t]: where the call of thread t is
  kind,     \* kind[t]: its kind
  lease,    \* lease[t]: the connection leased to t
  outcome,  \* outcome[t]: how the last attempt or call of t went
  attempt,  \* attempt[t]: the attempts made, or the commands of a save
  admin,    \* admin[a]: where the lifecycle call of a is
  target,   \* target[a]: the parameters a is switching to
  up,       \* the server is up
  broken,   \* history: connections on which a call met a connection error
  sawDown,  \* history: the server was down at some time during the call of t
  calls,    \* calls[t]: number of calls made
  outages,  \* number of outages so far
  admins    \* number of lifecycle calls so far

pool    == <<idle, conn, alive, broken>>
config  == <<params, gen, active>>
call    == <<kind, calls, sawDown>>
result  == <<outcome, attempt>>
lifecyc == <<admin, target, admins>>
server  == <<up, outages>>
vars    == <<pool, config, call, result, lifecyc, server, pc, lease, permits>>

CallPC  == {"idle", "ensure", "permit", "acquire", "connect", "run", "release"}
AdminPC == {"idle", "configure", "bump", "connect", "drain"}
Outcome == {"none", "ok", "error", "lost"}
Conn    == [gen : Nat, params : Params, connected : BOOLEAN]

TypeOK ==
  /\ params \in Params /\ gen \in Nat /\ active \in BOOLEAN
  /\ idle \in SUBSET Conns /\ alive \in SUBSET Conns /\ broken \in SUBSET Conns
  /\ conn \in [Conns -> Conn]
  /\ permits \in Nat
  /\ pc \in [Callers -> CallPC]
  /\ kind \in [Callers -> CallKinds]
  /\ lease \in [Callers -> Conns \cup {None}]
  /\ outcome \in [Callers -> Outcome]
  /\ attempt \in [Callers -> Nat]
  /\ admin \in [Admins -> AdminPC]
  /\ target \in [Admins -> Params]
  /\ up \in BOOLEAN /\ sawDown \in [Callers -> BOOLEAN]
  /\ calls \in [Callers -> Nat] /\ outages \in Nat /\ admins \in Nat

New == [gen |-> gen, params |-> params, connected |-> FALSE]

\* The constructor seeds the pool with a template connection built from the
\* environment; nothing is connected yet.
Init ==
  /\ params = Env /\ gen = 0 /\ active = FALSE
  /\ \E c \in Conns : idle = {c}
  /\ conn = [c \in Conns |-> [gen |-> 0, params |-> Env, connected |-> FALSE]]
  /\ alive = {} /\ broken = {}
  /\ permits = Permits
  /\ pc = [t \in Callers |-> "idle"]
  /\ kind = [t \in Callers |-> "run"]
  /\ lease = [t \in Callers |-> None]
  /\ outcome = [t \in Callers |-> "none"]
  /\ attempt = [t \in Callers |-> 0]
  /\ admin = [a \in Admins |-> "idle"]
  /\ target = [a \in Admins |-> Env]
  /\ up = TRUE
  /\ sawDown = [t \in Callers |-> FALSE]
  /\ calls = [t \in Callers |-> 0]
  /\ outages = 0 /\ admins = 0

ConnectLocked == \E a \in Admins : admin[a] # "idle"

-----------------------------------------------------------------------------
(* The pool.                                                               *)

Leased == {lease[t] : t \in Callers} \ {None}

\* _safe_disconnect of connections that nobody can reach any more.
Dispose(S) ==
  /\ conn' = [c \in Conns |-> IF c \in S THEN [conn[c] EXCEPT !.connected = FALSE] ELSE conn[c]]
  /\ alive' = alive \ S
  /\ broken' = broken \ S

Leasable == {c \in idle : conn[c].gen = gen}

Popped(c, stale) == idle \ ({c} \cup stale)

\* _acquire: the connections popped before one of this generation are stale.
LeaseIdle(t) ==
  \E c \in Leasable, stale \in SUBSET {d \in idle : conn[d].gen # gen} :
    /\ lease' = [lease EXCEPT ![t] = c]
    /\ idle' = Popped(c, stale)
    /\ Dispose(stale)

\* _acquire when none is left.  _new_p4 reads the parameters one by one, with
\* _pool_lock held, which configure() does not take to write them: until it
\* has bumped the generation the connection may mix two profiles.
LeaseNew(t) ==
  /\ Leasable = {}
  /\ \E c \in Conns \ (idle \cup Leased) :
       /\ lease' = [lease EXCEPT ![t] = c]
       /\ idle' = {}
       /\ conn' = [d \in Conns |->
                     IF d = c THEN New
                     ELSE IF d \in idle THEN [conn[d] EXCEPT !.connected = FALSE] ELSE conn[d]]
       /\ alive' = alive \ (idle \cup {c})
       /\ broken' = broken \ (idle \cup {c})

Poolable(c) == active /\ conn[c].gen = gen /\ Cardinality(idle) < Permits

\* Mutant of Discarded: the socket that met a connection error is kept.
NeverDiscarded(t) == FALSE

\* The connection error left the with block of _connection.
Discarded(t) == outcome[t] = "lost"

\* _release.
Return(t) ==
  IF ~Discarded(t) /\ Poolable(lease[t])
  THEN idle' = idle \cup {lease[t]} /\ UNCHANGED <<conn, alive, broken>>
  ELSE Dispose({lease[t]}) /\ UNCHANGED idle

-----------------------------------------------------------------------------
(* A call of thread t.                                                     *)

Goto(t, l) == pc' = [pc EXCEPT ![t] = l]

Call(t, k) ==
  /\ pc[t] = "idle" /\ calls[t] < MaxCalls
  /\ k = "version" => t \in Probers
  /\ Goto(t, IF k \in Ensured THEN "ensure" ELSE IF k \in Gated THEN "permit" ELSE "acquire")
  /\ kind' = [kind EXCEPT ![t] = k]
  /\ calls' = [calls EXCEPT ![t] = @ + 1]
  /\ sawDown' = [sawDown EXCEPT ![t] = ~up]
  /\ outcome' = [outcome EXCEPT ![t] = "none"]
  /\ attempt' = [attempt EXCEPT ![t] = 0]
  /\ UNCHANGED <<pool, config, lifecyc, server, lease, permits>>

\* The backend is connected when the call looks, or is connected now, under
\* _connect_lock.
Ensure(t) ==
  /\ pc[t] = "ensure"
  /\ active \/ ~ConnectLocked
  /\ active' = TRUE
  /\ Goto(t, "permit")
  /\ UNCHANGED <<pool, call, result, lifecyc, server, params, gen, lease, permits>>

PermitFree == permits > 0

TakePermit(t) ==
  /\ pc[t] = "permit" /\ PermitFree
  /\ permits' = permits - 1
  /\ Goto(t, "acquire")
  /\ UNCHANGED <<pool, config, call, result, lifecyc, server, lease>>

Acquire(t) ==
  /\ pc[t] = "acquire"
  /\ LeaseIdle(t) \/ LeaseNew(t)
  /\ attempt' = [attempt EXCEPT ![t] = @ + 1]
  /\ Goto(t, "connect")
  /\ UNCHANGED <<config, call, lifecyc, server, outcome, permits>>

\* Entering the with block of _connection: the socket is opened if need be.
Connect(t) ==
  /\ pc[t] = "connect" /\ (conn[lease[t]].connected \/ up)
  /\ conn' = [conn EXCEPT ![lease[t]].connected = TRUE]
  /\ alive' = IF conn[lease[t]].connected THEN alive ELSE alive \cup {lease[t]}
  /\ Goto(t, "run")
  /\ UNCHANGED <<config, call, result, lifecyc, server, idle, broken, lease, permits>>

ConnectFails(t) ==
  /\ pc[t] = "connect" /\ ~conn[lease[t]].connected /\ ~up
  /\ outcome' = [outcome EXCEPT ![t] = "lost"]
  /\ broken' = broken \cup {lease[t]}
  /\ Goto(t, "release")
  /\ UNCHANGED <<config, call, lifecyc, server, idle, conn, alive, attempt, lease, permits>>

\* version_info only reads the api_level of the connection it was given.
Asks(t) == kind[t] # "version"

\* The command is answered: it succeeds or the server reports an error.
RunAnswered(t) ==
  /\ pc[t] = "run" /\ (Asks(t) => lease[t] \in alive)
  /\ \E r \in {"ok", "error"} : outcome' = [outcome EXCEPT ![t] = r]
  /\ Goto(t, "release")
  /\ UNCHANGED <<pool, config, call, lifecyc, server, attempt, lease, permits>>

\* The socket is dead: a connection error.  grep_stream swallows it inside the
\* with block.
RunLost(t) ==
  /\ pc[t] = "run" /\ Asks(t) /\ lease[t] \notin alive
  /\ outcome' = [outcome EXCEPT ![t] = IF kind[t] = "grep" THEN "ok" ELSE "lost"]
  /\ broken' = broken \cup {lease[t]}
  /\ Goto(t, "release")
  /\ UNCHANGED <<config, call, lifecyc, server, idle, conn, alive, attempt, lease, permits>>

\* _run_resilient tries again after a connection error; the permit was
\* returned before the sleep.
Retries(t) == kind[t] = "run" /\ outcome[t] = "lost" /\ attempt[t] < MaxAttempts

\* The second command of a form call that saves, under the same permit.
Saves(t) == kind[t] = "save" /\ outcome[t] = "ok" /\ attempt[t] = 1

\* Mutant of Returned: a call that failed keeps its permit.
ReturnedOnSuccess(t) == IF outcome[t] = "ok" THEN permits + 1 ELSE permits

\* Leaving the with block of _call_sem.
Returned(t) == permits + 1

Release(t) ==
  /\ pc[t] = "release"
  /\ Return(t)
  /\ lease' = [lease EXCEPT ![t] = None]
  /\ Goto(t, IF Saves(t) THEN "acquire" ELSE IF Retries(t) THEN "ensure" ELSE "idle")
  /\ permits' = IF kind[t] \in Gated /\ ~Saves(t) THEN Returned(t) ELSE permits
  /\ UNCHANGED <<config, call, result, lifecyc, server>>

Proceed(t) ==
  \/ Ensure(t) \/ TakePermit(t) \/ Acquire(t) \/ Connect(t) \/ ConnectFails(t)
  \/ RunAnswered(t) \/ RunLost(t) \/ Release(t)

-----------------------------------------------------------------------------
(* P4Service.connect and disconnect, called by thread a.                   *)

Differing(a) == {f \in Fields : params[f] # target[a][f]}

\* connect(): _connect_lock is taken.  configure() returns early when nothing
\* differs.
ConnectCall(a, p) ==
  /\ ~ConnectLocked /\ admins < MaxAdmin
  /\ admins' = admins + 1
  /\ target' = [target EXCEPT ![a] = p]
  /\ admin' = [admin EXCEPT ![a] = IF p = params THEN "connect" ELSE "configure"]
  /\ UNCHANGED <<pool, config, call, result, server, pc, lease, permits>>

\* configure() writes the next parameter that differs.
SetField(a) ==
  /\ admin[a] = "configure"
  /\ \E f \in Differing(a) :
       /\ \A g \in Differing(a) : f <= g
       /\ params' = [params EXCEPT ![f] = target[a][f]]
       /\ admin' = [admin EXCEPT ![a] = IF Differing(a) = {f} THEN "bump" ELSE "configure"]
  /\ UNCHANGED <<pool, call, result, server, gen, active, target, admins, pc, lease, permits>>

\* Mutant of Bumped: the idle connections go, the leased ones stay current.
NotBumped == gen

Bumped == gen + 1

\* The critical section of configure(), and the disconnects after it.
Bump(a) ==
  /\ admin[a] = "bump"
  /\ gen' = Bumped
  /\ idle' = {}
  /\ Dispose(idle)
  /\ admin' = [admin EXCEPT ![a] = "connect"]
  /\ UNCHANGED <<call, result, server, params, active, target, admins, pc, lease, permits>>

\* The backend's connect() if need be; the lock is released.
ConnectReturn(a) ==
  /\ admin[a] = "connect"
  /\ active' = TRUE
  /\ admin' = [admin EXCEPT ![a] = "idle"]
  /\ UNCHANGED <<pool, call, result, server, params, gen, target, admins, pc, lease, permits>>

Disconnect(a) ==
  /\ ~ConnectLocked /\ admins < MaxAdmin
  /\ admins' = admins + 1
  /\ active' = FALSE
  /\ admin' = [admin EXCEPT ![a] = "drain"]
  /\ UNCHANGED <<pool, call, result, server, params, gen, target, pc, lease, permits>>

Drain(a) ==
  /\ admin[a] = "drain"
  /\ idle' = {}
  /\ Dispose(idle)
  /\ admin' = [admin EXCEPT ![a] = "idle"]
  /\ UNCHANGED <<config, call, result, server, target, admins, pc, lease, permits>>

Switch(a) == SetField(a) \/ Bump(a) \/ ConnectReturn(a) \/ Drain(a)

-----------------------------------------------------------------------------
(* The server.                                                             *)

ServerDown ==
  /\ up /\ outages < MaxOutages
  /\ up' = FALSE
  /\ outages' = outages + 1
  /\ alive' = {}
  /\ sawDown' = [t \in Callers |-> sawDown[t] \/ pc[t] # "idle"]
  /\ UNCHANGED <<config, result, lifecyc, idle, conn, broken, pc, lease, permits, kind, calls>>

ServerUp ==
  /\ ~up
  /\ up' = TRUE
  /\ UNCHANGED <<pool, config, call, result, lifecyc, outages, pc, lease, permits>>

\* No call is under way and the bound on their number is reached.
Quiet ==
  /\ \A t \in Callers : pc[t] = "idle" /\ calls[t] = MaxCalls
  /\ ~ConnectLocked
  /\ UNCHANGED vars

Next ==
  \/ \E t \in Callers : Proceed(t) \/ \E k \in Kinds : Call(t, k)
  \/ \E a \in Admins : Switch(a) \/ Disconnect(a) \/ \E p \in Profiles : ConnectCall(a, p)
  \/ ServerDown \/ ServerUp
  \/ Quiet

Spec == Init /\ [][Next]_vars

\* A thread that has entered a call goes on, and so does one in connect() or
\* disconnect().  Nobody has to call, and the server need not come back.
Fairness ==
  /\ \A t \in Callers : WF_vars(Proceed(t))
  /\ \A a \in Admins : WF_vars(Switch(a))

FairSpec == Spec /\ Fairness

-----------------------------------------------------------------------------
(* Properties.                                                             *)

\* A P4 object is not driven by two threads: a connection is leased to one
\* thread at most and is not in the pool meanwhile.
ExclusiveLease ==
  /\ \A t, u \in Callers : lease[t] = lease[u] /\ lease[t] # None => t = u
  /\ \A t \in Callers : lease[t] \notin idle

\* The permits bound the load on the server, through retries, form calls that
\* take two connections, failures and profile switches: the permits in use
\* are those of the gated calls between the semaphore and their release, and
\* there are never more sockets than permits and threads that ask for the
\* version, which take no permit.
Inside(t)  == pc[t] \in {"acquire", "connect", "run", "release"}
Open       == {c \in Conns : conn[c].connected}

PermitsBoundSockets ==
  /\ permits + Cardinality({t \in Callers : Inside(t) /\ kind[t] \in Gated}) = Permits
  /\ Cardinality(Open) <= Permits + Cardinality(Probers)

\* The idle list never outgrows the permits, although version_info leases a
\* connection on top of them.
IdleBounded == Cardinality(idle) <= Permits

\* After a profile switch no command reaches the old server under the new
\* name: the idle connections are all of the current generation, and, unless
\* configure() is under way, a connection of the current generation that is in
\* use or in the pool was built with the current parameters.
NoStaleTarget ==
  /\ \A c \in idle : conn[c].gen = gen
  /\ \/ \E a \in Admins : admin[a] \in {"configure", "bump"}
     \/ \A c \in idle \cup Leased : conn[c].gen = gen => conn[c].params = params

\* disconnect() closes the pool for good: until somebody connects again, no
\* connection is kept, also none of those that were leased meanwhile, and
\* every open socket belongs to a call that is under way.
DrainedAfterDisconnect ==
  ~active /\ ~ConnectLocked => Open \subseteq Leased

\* _connection: a connection-level failure marks the leased socket broken, so
\* that it is discarded rather than re-pooled.
BrokenNotRepooled == idle \cap broken = {}

\* A restart of the server costs the calls that come after it nothing but
\* retries: a call of _run_resilient gives up with a connection error only if
\* the server was down at some time since it began.  Each dead socket costs it
\* one attempt at most, so there must be more attempts than there can be sockets.
OutlivesRestart ==
  \A t \in Callers :
    pc[t] = "idle" /\ kind[t] = "run" /\ outcome[t] = "lost" => sawDown[t]

\* No call hangs: it returns, with a result or with an error, whoever holds
\* the permits and the connect lock, and whether or not the server comes back.
CallsReturn == \A t \in Callers : (pc[t] # "idle") ~> (pc[t] = "idle")
==============================================================================
