----------------------------- MODULE BrokerLogin -----------------------------
(***************************************************************************)
(* The broker session of one worker: the token manager and the login       *)
(* circuit breaker of backend/app/services/token_manager.py, and the part  *)
(* of backend/app/connectors/smartapi_connector.py that logs in, refreshes *)
(* the session and uses it to fetch data.                                  *)
(*                                                                         *)
(* Several threads share the connector.  login and refresh_session take    *)
(* the connector's login lock and then the token manager's mutex;          *)
(* ensure_login, which every fetch begins with, takes only the mutex.  The *)
(* cached session is a copy in memory of a key in Redis that the other     *)
(* workers write too, and the tokens the requests are sent with are a      *)
(* third copy, written inside the mutex and outside of it.                 *)
(***************************************************************************)
EXTENDS Integers

CONSTANTS
    Threads,            \* threads that use the connector
    Works,              \* Works[t]: what thread t may call
    MaxSessions,        \* sessions the broker grants (bound)
    MaxRetries,         \* attempts of a login or refresh (3 in the code)
    MaxFetches,         \* attempts of fetch_history (3)
    BreakerThreshold,   \* failures that open the breaker (5)
    AuthThreshold,      \* token errors that suspend the connector (3)
    NoThread            \* "nobody"

Work == {"fetch", "login", "force", "refresh"}

ASSUME ThreadsAssumption == Works \in [Threads -> SUBSET Work] /\ NoThread \notin Threads
ASSUME BoundsAssumption ==
    /\ MaxSessions \in Nat
    /\ MaxRetries \in Nat \ {0}
    /\ MaxFetches \in Nat \ {0}
    /\ BreakerThreshold \in Nat \ {0}
    /\ AuthThreshold \in Nat \ {0, 1}

NoSession == 0
Sessions == 1 .. MaxSessions
SomeSession == Sessions \cup {NoSession}

VARIABLES
    issued,     \* sessions the broker has granted so far
    valid,      \* sessions whose token the broker still accepts
    fresh,      \* sessions that have not come near their expiry
    redis,      \* the session in Redis, shared with the other workers
    session,    \* TokenManager._session
    conn,       \* the tokens of the connector and its client
    checked,    \* a probe succeeded less than validation_cache_seconds ago
    cooldown,   \* the token manager is cooling down
    mutex,      \* holder of TokenManager._mutex
    loginLock,  \* holder of SmartAPIConnector._login_lock
    breaker,    \* BrokerCircuitBreaker
    tried,      \* logins sent since the breaker last closed or opened
    failures,   \* _auth_failure_count
    suspended,  \* _auth_suspended_until lies ahead
    at          \* at[t]: the frames of thread t

brokerVars == <<issued, valid, fresh>>
tokenVars == <<redis, session, conn, checked>>
breakerVars == <<breaker, tried>>
authVars == <<failures, suspended>>
vars == <<brokerVars, tokenVars, cooldown, mutex, loginLock, breakerVars,
          authVars, at>>

\* Inside TokenManager._mutex; below: in _login_locked and what follows it.
Critical == {"reload", "refreshing", "probe", "login", "sent", "store", "apply"}
PCs == Critical \cup {"idle", "lock", "enter", "update", "request", "recorded",
                      "again"}

\* op: what the thread was asked for, and within a fetch why it refreshes;
\* call: the method of the token manager it is in.
Frame == [pc : PCs, op : Work \cup {"none", "error", "retry"},
          call : {"none", "valid", "login", "force", "refresh", "cached", "clear"},
          attempt : 0 .. MaxRetries,    \* of the loop inside the mutex
          fetches : 0 .. MaxFetches,    \* of fetch_history
          held : SomeSession,           \* the session at hand
          prev : SomeSession]           \* the tokens a probe replaced

\* A frame without the locals of a call.
At(pc, op, call, fetches) ==
    [pc |-> pc, op |-> op, call |-> call, attempt |-> 0, fetches |-> fetches,
     held |-> NoSession, prev |-> NoSession]

Idle == At("idle", "none", "none", 0)

TypeOK ==
    /\ issued \in 0 .. MaxSessions
    /\ valid \subseteq Sessions
    /\ fresh \subseteq Sessions
    /\ redis \in SomeSession
    /\ session \in SomeSession
    /\ conn \in SomeSession
    /\ checked \in BOOLEAN
    /\ cooldown \in BOOLEAN
    /\ mutex \in Threads \cup {NoThread}
    /\ loginLock \in Threads \cup {NoThread}
    /\ breaker \in [state : {"CLOSED", "OPEN", "HALF_OPEN"},
                    failures : 0 .. BreakerThreshold]
    /\ tried \in Nat
    /\ failures \in 0 .. AuthThreshold - 1
    /\ suspended \in BOOLEAN
    /\ at \in [Threads -> Frame]

Init ==
    /\ issued = 0 /\ valid = {} /\ fresh = {}
    /\ redis = NoSession /\ session = NoSession /\ conn = NoSession
    /\ checked = FALSE
    /\ cooldown = FALSE
    /\ mutex = NoThread
    /\ loginLock = NoThread
    /\ breaker = [state |-> "CLOSED", failures |-> 0]
    /\ tried = 0
    /\ failures = 0
    /\ suspended = FALSE
    /\ at = [t \in Threads |-> Idle]

-----------------------------------------------------------------------------
(***************************************************************************)
(* Frames: where a thread goes next.                                       *)
(***************************************************************************)

Waiting(t, call) ==
    at[t].pc = "enter" /\ at[t].call = call /\ mutex = NoThread

Enter(f, call) == At("enter", f.op, call, f.fetches)

\* _refresh_session, called because of o.
Refresh(f, o) == At("lock", o, "none", f.fetches)

\* The next attempt of fetch_history's loop, or its end.
NextFetch(f) ==
    IF f.fetches < MaxFetches
    THEN At("request", "fetch", "none", f.fetches + 1)
    ELSE Idle

\* login or _refresh_session returned, with a session or without one.
Returned(f, ok) ==
    CASE f.op = "retry" \/ (f.op = "error" /\ ok) -> NextFetch(f)
      [] f.op = "error" /\ ~ok -> At("again", "error", "none", 0)
      [] OTHER -> Idle

\* _login_locked's loop begins.
LoginLoop(f) == [f EXCEPT !.pc = "login", !.attempt = 1,
                          !.held = NoSession, !.prev = NoSession]

Go(t, frame) == at' = [at EXCEPT ![t] = frame]

LeaveLoginLock(t) ==
    loginLock' = IF loginLock = t THEN NoThread ELSE loginLock

\* A method of the token manager raises: _refresh_session answers a failed
\* refresh with a forced login, every other caller gives up.
Raise(t) ==
    IF at[t].call = "refresh"
    THEN Go(t, Enter(at[t], "force")) /\ UNCHANGED loginLock
    ELSE Go(t, Returned(at[t], FALSE)) /\ LeaveLoginLock(t)

-----------------------------------------------------------------------------
(***************************************************************************)
(* The cached session.                                                     *)
(***************************************************************************)

\* _load_cached_session: the copy in memory while it is fresh, else Redis.
Loaded == IF session \in fresh THEN session ELSE redis
KeepLoaded == session' = IF Loaded = NoSession THEN session ELSE Loaded

\* clear_session_sync() and self._session = None.
ForgetSession == redis' = NoSession /\ session' = NoSession

\* The broker grants session s.
Grant(s) ==
    /\ s \in Sessions
    /\ s = issued + 1
    /\ issued' = s
    /\ valid' = valid \cup {s}
    /\ fresh' = fresh \cup {s}

-----------------------------------------------------------------------------
(***************************************************************************)
(* Calls begin.                                                            *)
(***************************************************************************)

\* fetch_history, or another request with the same retries: _ensure_login
\* first, which raises at once while the connector is suspended.
BeginFetch(t) ==
    /\ at[t].pc = "idle" /\ "fetch" \in Works[t]
    /\ ~suspended
    /\ Go(t, At("enter", "fetch", "valid", 0))
    /\ UNCHANGED <<brokerVars, tokenVars, cooldown, mutex, loginLock,
                   breakerVars, authVars>>

\* login(force) or refresh_session() by the start-up, the stream or a job.
BeginSession(t) ==
    /\ at[t].pc = "idle"
    /\ \E o \in Works[t] \ {"fetch"} : Go(t, Refresh(at[t], o))
    /\ UNCHANGED <<brokerVars, tokenVars, cooldown, mutex, loginLock,
                   breakerVars, authVars>>

\* with self._login_lock
TakeLoginLock(t) ==
    /\ at[t].pc = "lock"
    /\ loginLock = NoThread
    /\ loginLock' = t
    /\ Go(t, Enter(at[t], IF at[t].op \in {"login", "force"} THEN at[t].op
                                                             ELSE "refresh"))
    /\ UNCHANGED <<brokerVars, tokenVars, cooldown, mutex, breakerVars, authVars>>

-----------------------------------------------------------------------------
(***************************************************************************)
(* The methods of the token manager, up to the login loop.                 *)
(***************************************************************************)

\* _check_cooldown raises.
CoolingDown(t) ==
    /\ \E call \in {"valid", "login", "refresh"} : Waiting(t, call)
    /\ cooldown
    /\ Raise(t)
    /\ UNCHANGED <<brokerVars, tokenVars, cooldown, mutex, breakerVars, authVars>>

\* get_valid_token_sync with a fresh session; ensure_login synchronises next.
UseCached(t) ==
    /\ Waiting(t, "valid")
    /\ ~cooldown
    /\ Loaded \in fresh
    /\ KeepLoaded
    /\ conn' = Loaded
    /\ Go(t, Enter(at[t], "cached"))
    /\ UNCHANGED <<brokerVars, redis, checked, cooldown, mutex, loginLock,
                   breakerVars, authVars>>

\* get_valid_token_sync without one, or refresh_token_sync.
StartRefresh(t) ==
    /\ \/ Waiting(t, "valid") /\ Loaded \notin fresh /\ KeepLoaded
       \/ Waiting(t, "refresh") /\ UNCHANGED session
    /\ ~cooldown
    /\ mutex' = t
    /\ Go(t, [at[t] EXCEPT !.pc = "reload"])
    /\ UNCHANGED <<brokerVars, redis, conn, checked, cooldown, loginLock,
                   breakerVars, authVars>>

\* _refresh_locked finds a refresh token, or leaves it to the login.
Reload(t) ==
    /\ at[t].pc = "reload"
    /\ KeepLoaded
    /\ Go(t, IF Loaded = NoSession THEN LoginLoop(at[t])
             ELSE [at[t] EXCEPT !.pc = "refreshing", !.attempt = 1, !.held = Loaded])
    /\ UNCHANGED <<brokerVars, redis, conn, checked, cooldown, mutex, loginLock,
                   breakerVars, authVars>>

RefreshOK(t) ==
    /\ at[t].pc = "refreshing"
    /\ \E s \in Sessions :
         Grant(s) /\ Go(t, [at[t] EXCEPT !.pc = "store", !.held = s])
    /\ UNCHANGED <<tokenVars, cooldown, mutex, loginLock, breakerVars, authVars>>

\* AG8001 or AG8003: the refresh token is dead, so is the session.
RefreshRejected(t) ==
    /\ at[t].pc = "refreshing"
    /\ ForgetSession
    /\ Go(t, LoginLoop(at[t]))
    /\ UNCHANGED <<brokerVars, conn, checked, cooldown, mutex, loginLock,
                   breakerVars, authVars>>

RefreshFails(t) ==
    /\ at[t].pc = "refreshing"
    /\ Go(t, IF at[t].attempt < MaxRetries THEN [at[t] EXCEPT !.attempt = @ + 1]
                                           ELSE LoginLoop(at[t]))
    /\ UNCHANGED <<brokerVars, tokenVars, cooldown, mutex, loginLock,
                   breakerVars, authVars>>

\* Mutant: login_sync forgets the cooldown.
EnterLogin_Hot(t) ==
    /\ Waiting(t, "login")
    /\ KeepLoaded
    /\ Loaded \notin fresh
    /\ mutex' = t
    /\ Go(t, LoginLoop(at[t]))
    /\ UNCHANGED <<brokerVars, redis, conn, checked, cooldown, loginLock,
                   breakerVars, authVars>>

\* Mutant: login_sync relies on the connector's login lock alone.
EnterLogin_NoMutex(t) ==
    /\ Waiting(t, "login")
    /\ ~cooldown
    /\ KeepLoaded
    /\ Go(t, IF Loaded \in fresh
             THEN [at[t] EXCEPT !.pc = "update", !.held = Loaded]
             ELSE LoginLoop(at[t]))
    /\ conn' = IF Loaded \in fresh THEN Loaded ELSE conn
    /\ UNCHANGED <<brokerVars, redis, checked, cooldown, mutex, loginLock,
                   breakerVars, authVars>>

\* login_sync: a fresh session is used if it was probed a moment ago, else
\* probed with the client's tokens set to it; without one a login begins.
EnterLogin(t) ==
    /\ Waiting(t, "login")
    /\ ~cooldown
    /\ KeepLoaded
    /\ \/ /\ Loaded \in fresh /\ checked
          /\ conn' = Loaded
          /\ Go(t, [at[t] EXCEPT !.pc = "update", !.held = Loaded])
          /\ UNCHANGED mutex
       \/ /\ Loaded \in fresh /\ ~checked
          /\ conn' = Loaded
          /\ mutex' = t
          /\ Go(t, [at[t] EXCEPT !.pc = "probe", !.held = Loaded, !.prev = conn])
       \/ /\ Loaded \notin fresh
          /\ mutex' = t
          /\ Go(t, LoginLoop(at[t]))
          /\ UNCHANGED conn
    /\ UNCHANGED <<brokerVars, redis, checked, cooldown, loginLock,
                   breakerVars, authVars>>

ProbeOK(t) ==
    /\ at[t].pc = "probe"
    /\ conn \in valid
    /\ session' = at[t].held
    /\ conn' = at[t].held
    /\ checked' = TRUE
    /\ mutex' = NoThread
    /\ Go(t, [at[t] EXCEPT !.pc = "update", !.prev = NoSession])
    /\ UNCHANGED <<brokerVars, redis, cooldown, loginLock, breakerVars, authVars>>

\* Rejected, or the probe itself failed: the connector takes its old tokens
\* back and the cached session is dropped.
ProbeFails(t) ==
    /\ at[t].pc = "probe"
    /\ conn' = at[t].prev
    /\ ForgetSession
    /\ checked' = FALSE
    /\ Go(t, LoginLoop(at[t]))
    /\ UNCHANGED <<brokerVars, cooldown, mutex, loginLock, breakerVars, authVars>>

\* force_relogin_sync: forget everything, the cooldown too, and log in.
EnterForce(t) ==
    /\ Waiting(t, "force")
    /\ ForgetSession
    /\ cooldown' = FALSE
    /\ mutex' = t
    /\ Go(t, LoginLoop(at[t]))
    /\ UNCHANGED <<brokerVars, conn, checked, loginLock, breakerVars, authVars>>

\* get_cached_session_sync, for _sync_session_from_token_manager.
EnterCached(t) ==
    /\ Waiting(t, "cached")
    /\ KeepLoaded
    /\ Go(t, IF Loaded = NoSession THEN NextFetch(at[t])
             ELSE [at[t] EXCEPT !.pc = "update", !.held = Loaded])
    /\ UNCHANGED <<brokerVars, redis, conn, checked, cooldown, mutex, loginLock,
                   breakerVars, authVars>>

\* clear_cached_session_sync, for a token error that suspended the connector.
EnterClear(t) ==
    /\ Waiting(t, "clear")
    /\ ForgetSession
    /\ Go(t, IF at[t].op = "error" THEN Idle
             ELSE [at[t] EXCEPT !.pc = "recorded", !.call = "none"])
    /\ UNCHANGED <<brokerVars, conn, checked, cooldown, mutex, loginLock,
                   breakerVars, authVars>>

-----------------------------------------------------------------------------
(***************************************************************************)
(* The login loop and the circuit breaker.                                 *)
(***************************************************************************)

Closed == [state |-> "CLOSED", failures |-> 0]

\* Mutant: an open breaker stays open.
CanAttempt_Never ==
    /\ breaker.state # "OPEN"
    /\ breaker' = breaker

\* can_attempt: an open breaker lets a call through once its time is over,
\* which it may be at any step.
CanAttempt ==
    breaker' = [breaker EXCEPT !.state = IF @ = "OPEN" THEN "HALF_OPEN" ELSE @]

\* Mutant: the count is not clamped at the threshold.
RecordFailure_Unclamped ==
    LET n == breaker.failures + 1
        opens == n >= BreakerThreshold \/ breaker.state = "HALF_OPEN"
    IN /\ breaker' = [state |-> IF opens THEN "OPEN" ELSE breaker.state,
                      failures |-> n]
       /\ tried' = IF opens THEN 0 ELSE tried

\* record_failure, which counts in HALF_OPEN too.
RecordFailure ==
    LET n == breaker.failures + 1
        opens == n >= BreakerThreshold \/ breaker.state = "HALF_OPEN"
    IN /\ breaker' = [state |-> IF opens THEN "OPEN" ELSE breaker.state,
                      failures |-> IF opens THEN BreakerThreshold ELSE n]
       /\ tried' = IF opens THEN 0 ELSE tried

\* Mutant: the loop does not count its attempts.
AttemptFailed_Endless(t) ==
    /\ Go(t, [at[t] EXCEPT !.pc = "login"])
    /\ UNCHANGED <<cooldown, mutex, loginLock>>

\* An attempt of _login_locked's loop is over: the next one, or the cooldown
\* and an exception.
AttemptFailed(t) ==
    \/ /\ at[t].attempt < MaxRetries
       /\ Go(t, [at[t] EXCEPT !.pc = "login", !.attempt = @ + 1])
       /\ UNCHANGED <<cooldown, mutex, loginLock>>
    \/ /\ at[t].attempt = MaxRetries
       /\ cooldown' = TRUE
       /\ mutex' = NoThread
       /\ Raise(t)

\* The breaker refuses the attempt.
LoginBlocked(t) ==
    /\ at[t].pc = "login"
    /\ breaker.state = "OPEN"
    /\ AttemptFailed(t)
    /\ UNCHANGED <<brokerVars, tokenVars, breakerVars, authVars>>

\* No client or no one-time password: an exception before the request, which
\* the breaker does not hear of.
LoginUnsent(t) ==
    /\ at[t].pc = "login"
    /\ CanAttempt
    /\ AttemptFailed(t)
    /\ UNCHANGED <<brokerVars, tokenVars, tried, authVars>>

\* generateSession
LoginSend(t) ==
    /\ at[t].pc = "login"
    /\ CanAttempt
    /\ tried' = tried + 1
    /\ Go(t, [at[t] EXCEPT !.pc = "sent"])
    /\ UNCHANGED <<brokerVars, tokenVars, cooldown, mutex, loginLock, authVars>>

LoginOK(t) ==
    /\ at[t].pc = "sent"
    /\ breaker' = Closed /\ tried' = 0
    /\ \E s \in Sessions :
         Grant(s) /\ Go(t, [at[t] EXCEPT !.pc = "store", !.held = s])
    /\ UNCHANGED <<tokenVars, cooldown, mutex, loginLock, authVars>>

\* A success without the tokens: a success to the breaker, none to the loop.
LoginEmpty(t) ==
    /\ at[t].pc = "sent"
    /\ breaker' = Closed /\ tried' = 0
    /\ AttemptFailed(t)
    /\ UNCHANGED <<brokerVars, tokenVars, authVars>>

\* A failure or an exception of the request.
LoginFails(t) ==
    /\ at[t].pc = "sent"
    /\ RecordFailure
    /\ AttemptFailed(t)
    /\ UNCHANGED <<brokerVars, tokenVars, authVars>>

-----------------------------------------------------------------------------
(***************************************************************************)
(* A new session, and its way to the connector.                            *)
(***************************************************************************)

\* store_session_token_sync
Store(t) ==
    /\ at[t].pc = "store"
    /\ redis' = at[t].held
    /\ Go(t, [at[t] EXCEPT !.pc = "apply"])
    /\ UNCHANGED <<brokerVars, session, conn, checked, cooldown, mutex, loginLock,
                   breakerVars, authVars>>

\* _apply_session and the end of the critical section.
Apply(t) ==
    /\ at[t].pc = "apply"
    /\ session' = at[t].held
    /\ conn' = at[t].held
    /\ cooldown' = FALSE
    /\ mutex' = NoThread
    /\ Go(t, IF at[t].call = "valid" THEN Enter(at[t], "cached")
             ELSE [at[t] EXCEPT !.pc = "update", !.attempt = 0])
    /\ UNCHANGED <<brokerVars, redis, checked, loginLock, breakerVars, authVars>>

\* _on_token_session_update by the caller, after the mutex was released.
Update(t) ==
    /\ at[t].pc = "update"
    /\ conn' = at[t].held
    /\ IF at[t].op = "fetch"
       THEN Go(t, NextFetch(at[t])) /\ UNCHANGED loginLock
       ELSE Go(t, Returned(at[t], TRUE)) /\ LeaveLoginLock(t)
    /\ UNCHANGED <<brokerVars, redis, session, checked, cooldown, mutex,
                   breakerVars, authVars>>

-----------------------------------------------------------------------------
(***************************************************************************)
(* Requests with the session.                                              *)
(***************************************************************************)

\* _record_auth_failure: the n-th of the window, which may begin anew; the
\* last one suspends the connector and its session is cleared, before the
\* thread goes on with frame.
RecordAuthFailure(t, frame) ==
    \E n \in {1, failures + 1} :
       LET opens == n >= AuthThreshold
       IN /\ failures' = IF opens THEN 0 ELSE n
          /\ suspended' = (suspended \/ opens)
          /\ Go(t, IF opens THEN Enter(at[t], "clear") ELSE frame)

\* Data: _record_auth_success.
RequestOK(t) ==
    /\ at[t].pc = "request"
    /\ conn \in valid
    /\ failures' = 0
    /\ suspended' = FALSE
    /\ Go(t, Idle)
    /\ UNCHANGED <<brokerVars, tokenVars, cooldown, mutex, loginLock, breakerVars>>

\* No data, a rate limit or an error that says nothing of the token.
RequestFails(t) ==
    /\ at[t].pc = "request"
    /\ Go(t, NextFetch(at[t]))
    /\ UNCHANGED <<brokerVars, tokenVars, cooldown, mutex, loginLock,
                   breakerVars, authVars>>

\* An exception: refresh the session whatever it was, and try again.
RequestRaises(t) ==
    /\ at[t].pc = "request"
    /\ Go(t, IF at[t].fetches < MaxFetches /\ ~suspended
             THEN Refresh(at[t], "retry") ELSE Idle)
    /\ UNCHANGED <<brokerVars, tokenVars, cooldown, mutex, loginLock,
                   breakerVars, authVars>>

\* The broker rejects the token.
TokenError(t) ==
    /\ at[t].pc = "request"
    /\ conn \notin valid
    /\ RecordAuthFailure(t, [at[t] EXCEPT !.pc = "recorded"])
    /\ UNCHANGED <<brokerVars, tokenVars, cooldown, mutex, loginLock, breakerVars>>

\* _handle_api_error goes on: give up while suspended, else refresh.
HandleTokenError(t) ==
    /\ at[t].pc = "recorded"
    /\ Go(t, IF suspended THEN Idle ELSE Refresh(at[t], "error"))
    /\ UNCHANGED <<brokerVars, tokenVars, cooldown, mutex, loginLock,
                   breakerVars, authVars>>

\* The refresh failed too: a second failure, and the fetch gives up.
RefreshGaveUp(t) ==
    /\ at[t].pc = "again"
    /\ RecordAuthFailure(t, Idle)
    /\ UNCHANGED <<brokerVars, tokenVars, cooldown, mutex, loginLock, breakerVars>>

-----------------------------------------------------------------------------
(***************************************************************************)
(* The broker, the clock and the other workers.                            *)
(***************************************************************************)

\* A session nears its expiry; every session lives as long as the others.
Age == /\ \E s \in fresh : /\ \A r \in fresh : s <= r
                         /\ fresh' = fresh \ {s}
       /\ UNCHANGED <<issued, valid, tokenVars, cooldown, mutex, loginLock,
                      breakerVars, authVars, at>>

Revoke == /\ \E s \in valid : valid' = valid \ {s}
          /\ UNCHANGED <<issued, fresh, tokenVars, cooldown, mutex, loginLock,
                         breakerVars, authVars, at>>

ProbeAges == /\ checked /\ checked' = FALSE
             /\ UNCHANGED <<brokerVars, redis, session, conn, cooldown, mutex,
                            loginLock, breakerVars, authVars, at>>

CooldownEnds == /\ cooldown /\ cooldown' = FALSE
                /\ UNCHANGED <<brokerVars, tokenVars, mutex, loginLock,
                               breakerVars, authVars, at>>

SuspensionEnds == /\ suspended /\ suspended' = FALSE
                  /\ UNCHANGED <<brokerVars, tokenVars, cooldown, mutex,
                                 loginLock, breakerVars, failures, at>>

\* Another worker logs in, or clears the shared session.
ElsewhereStores == /\ \E s \in Sessions : Grant(s) /\ redis' = s
                   /\ UNCHANGED <<session, conn, checked, cooldown, mutex,
                                  loginLock, breakerVars, authVars, at>>

ElsewhereClears == /\ redis # NoSession /\ redis' = NoSession
                   /\ UNCHANGED <<brokerVars, session, conn, checked, cooldown,
                                  mutex, loginLock, breakerVars, authVars, at>>

-----------------------------------------------------------------------------

Acquire(t) == CoolingDown(t) \/ UseCached(t) \/ StartRefresh(t) \/ EnterLogin(t)
              \/ EnterForce(t) \/ EnterCached(t) \/ EnterClear(t)

Inside(t) == Reload(t) \/ RefreshOK(t) \/ RefreshRejected(t) \/ RefreshFails(t)
             \/ ProbeOK(t) \/ ProbeFails(t)
             \/ LoginBlocked(t) \/ LoginUnsent(t) \/ LoginSend(t)
             \/ LoginOK(t) \/ LoginEmpty(t) \/ LoginFails(t)
             \/ Store(t) \/ Apply(t)

Outside(t) == Update(t) \/ RequestOK(t) \/ RequestFails(t) \/ RequestRaises(t)
              \/ TokenError(t) \/ HandleTokenError(t) \/ RefreshGaveUp(t)

Environment == Age \/ Revoke \/ ProbeAges \/ CooldownEnds \/ SuspensionEnds
               \/ ElsewhereStores \/ ElsewhereClears

Next == \/ \E t \in Threads : BeginFetch(t) \/ BeginSession(t) \/ TakeLoginLock(t)
                              \/ Acquire(t) \/ Inside(t) \/ Outside(t)
        \/ Environment

Spec == Init /\ [][Next]_vars

\* A thread in a call goes on whenever it can: a request is answered or times
\* out, and no thread loses a lock for ever to the others.
RunsOn(t) == TakeLoginLock(t) \/ Acquire(t) \/ Inside(t) \/ Outside(t)

\* The clock runs, data is asked for again and again, and of the logins the
\* threads try again and again some reach the broker and some are granted.
Served == /\ WF_vars(Age) /\ WF_vars(CooldownEnds) /\ WF_vars(SuspensionEnds)
          /\ WF_vars(\E t \in Threads : BeginFetch(t))
          /\ SF_vars(\E t \in Threads : LoginSend(t))
          /\ SF_vars(\E t \in Threads : LoginOK(t))

FairSpec == Spec /\ (\A t \in Threads : SF_vars(RunsOn(t))) /\ Served

-----------------------------------------------------------------------------
(***************************************************************************)
(* Properties.                                                             *)
(***************************************************************************)

\* What LoginBreaker shows of the breaker and of the threads' logins.
Breaker == INSTANCE LoginBreaker WITH
    state <- breaker.state, failures <- breaker.failures, sent <- tried,
    pending <- \E t \in Threads : at[t].pc = "sent"

\* The transitions documented at token_manager.py:534 hold for the threads
\* together, "single test attempt" in HALF_OPEN included: they are those of one
\* client that does not log in again before the breaker has heard the answer.
\* can_attempt itself lets everyone through in HALF_OPEN.
KeepsBreaker == Breaker!Spec

\* "Single refresh/login critical section across threads" (token_manager.py:25)
\* and its cooldown: two threads are never in it, and once a login has failed
\* for good nobody logs in or refreshes until the cooldown has ended or a
\* forced login has lifted it.
OneAtATimeUnlessCooling ==
    \A t \in Threads : at[t].pc \in Critical =>
        /\ ~cooldown
        /\ \A u \in Threads : at[u].pc \in Critical => u = t

\* Every call returns: the login lock and the mutex that the calls nest, the
\* exceptions that leave them, and the retries inside retries never make a
\* thread wait for ever.
CallsReturn ==
    \A t \in Threads : (at[t].pc # "idle") ~> (at[t].pc = "idle")

\* "auto-relogin on token expiry" (smartapi_connector.py:203): through
\* cooldown, suspension and an open breaker the connector gets back to a
\* token the broker accepts, unless the bound of sessions is used up.
Recovers == []<>(conn \in valid \/ issued = MaxSessions)
=============================================================================
