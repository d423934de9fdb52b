---------------------------- MODULE BrokerSession ----------------------------
(***************************************************************************)
(* The Upstox session and the routing between the two brokers:             *)
(* backend/app/services/broker_session_manager.py, the router of           *)
(* backend/app/connectors/broker_router.py, the OAuth callback of          *)
(* backend/app/server.py and the disconnect of backend/app/routes/auth.py. *)
(*                                                                         *)
(* The session is one row of the table broker_sessions and a copy of it in *)
(* the memory of every worker.  This is one worker, whose threads fetch    *)
(* market data through its router while its event loop renews, drops and   *)
(* loads the session; the other workers write the row.                     *)
(***************************************************************************)
EXTENDS Integers, Sequences, FiniteSets

CONSTANTS
    Threads,        \* threads that fetch through the router
    Loop,           \* the event loop: the start-up, then one request at a time
    Tokens,         \* access tokens Upstox grants
    NoToken,        \* "no token"
    NoConnector     \* _upstox_connector is None

Brokers == {"smartapi", "upstox"}
Procs == Threads \cup {Loop}

ASSUME ProcsAssumption == IsFiniteSet(Threads) /\ Loop \notin Threads
ASSUME TokensAssumption ==
    /\ NoToken \notin Tokens
    /\ NoConnector \notin Tokens \cup {NoToken}

SomeToken == Tokens \cup {NoToken}
Status == {"DISCONNECTED", "CONNECTING", "CONNECTED", "TOKEN_EXPIRED",
           "WEBSOCKET_FAILED"}

VARIABLES
    row,        \* the row of Upstox in broker_sessions
    status,     \* status[b]: BrokerSessionManager._states
    token,      \* the access token kept there for Upstox
    active,     \* BrokerRouter._active_broker
    open,       \* brokers whose breaker is open
    failed,     \* failed[b]: failures since b's breaker was last closed
    conn,       \* the token of the router's Upstox connector
    up,         \* the worker takes requests
    at          \* at[p]: the frame of p

managerVars == <<status, token>>
routerVars == <<active, open, failed, conn>>
vars == <<row, managerVars, routerVars, up, at>>

Row == [token : SomeToken, status : Status]
Empty == [token |-> NoToken, status |-> "DISCONNECTED"]

\* Where a process is.  "check" .. "sent": in a routed call; "commit" ..
\* "forget": in a request; "down" .. "start": in the start-up.
Frame == [pc : {"idle", "check", "plan", "next", "create", "read", "sent",
                "commit", "saved", "apply", "close", "forget",
                "down", "validate", "start"},
          call : {"none", "login", "ensure", "data", "subscribe", "unsubscribe",
                  "callback", "disconnect"},
          left : {<<>>, <<"smartapi">>, <<"upstox">>, <<"upstox", "smartapi">>},
          direct : BOOLEAN,             \* Upstox is asked past the router
          kind : {"none", "auth"},      \* the last failure, if of authorisation
          new : SomeToken,              \* the token of the OAuth exchange
          seen : Row]                   \* the row as it was read

Idle == [pc |-> "idle", call |-> "none", left |-> <<>>, direct |-> FALSE,
         kind |-> "none", new |-> NoToken, seen |-> Empty]
Down == [Idle EXCEPT !.pc = "down"]

TypeOK ==
    /\ row \in Row
    /\ status \in [Brokers -> Status]
    /\ token \in SomeToken
    /\ active \in Brokers
    /\ open \subseteq Brokers
    /\ failed \in [Brokers -> Nat]
    /\ conn \in SomeToken \cup {NoConnector}
    /\ up \in BOOLEAN
    /\ at \in [Procs -> Frame]

\* A worker that has just been started.
Fresh == [status |-> [b \in Brokers |-> "DISCONNECTED"], token |-> NoToken,
          active |-> "smartapi", open |-> {}, failed |-> [b \in Brokers |-> 0],
          conn |-> NoConnector,
          at |-> [p \in Procs |-> IF p = Loop THEN Down ELSE Idle]]

Init ==
    /\ row = Empty
    /\ status = Fresh.status /\ token = Fresh.token
    /\ active = Fresh.active /\ open = Fresh.open /\ failed = Fresh.failed
    /\ conn = Fresh.conn
    /\ up = FALSE
    /\ at = Fresh.at

-----------------------------------------------------------------------------
(***************************************************************************)
(* Helpers.                                                                *)
(***************************************************************************)

Go(p, frame) == at' = [at EXCEPT ![p] = frame]
GoTo(p, pc) == Go(p, [at[p] EXCEPT !.pc = pc])
Ready(p) == up /\ at[p] = Idle

\* BrokerRouter._lock: held while a connector is built, which may take a
\* query; every other section under it is one step.
Unlocked == \A p \in Procs : at[p].pc # "read"

Blocked == status[active] = "TOKEN_EXPIRED"

\* update_state for Upstox.
UpdateState(s, t) ==
    /\ status' = [status EXCEPT !["upstox"] = s]
    /\ token' = t

\* Mutant: a status the gates know and nothing else does.
SetStatus_Reauth(f, s) == "REAUTH_REQUIRED"

\* A column is written only if it differs from what the session has read.
SetStatus(f, s) == IF f.seen.status = s THEN row.status ELSE s

-----------------------------------------------------------------------------
(***************************************************************************)
(* A routed call: by a thread, or by the loop for the market data stream.  *)
(***************************************************************************)

\* The call enters the router.  A blocked router raises, unless the call may
\* recover the session, and the exception counts as an authorisation failure,
\* as its text says so.
Enter(p, call) ==
    /\ Go(p, IF Blocked /\ call \notin {"login", "ensure"}
             THEN [Idle EXCEPT !.pc = "next", !.call = call, !.kind = "auth"]
             ELSE [Idle EXCEPT !.pc = "plan", !.call = call])
    /\ UNCHANGED <<row, managerVars, routerVars, up>>

\* get_connector: the first call of a module logs in.  Two modules have one;
\* which of their calls is the first is left open, so there may be any number.
BeginEnsure(t) == Ready(t) /\ Enter(t, "ensure")

\* Any later one asks for data.
BeginData(t) == Ready(t) /\ Enter(t, "data")

\* One attempt of regen_token, in the morning or for a prediction that failed.
BeginLogin(t) == Ready(t) /\ Enter(t, "login")

Subscribe == [Idle EXCEPT !.pc = "check", !.call = "subscribe"]

\* start_smartapi_ws, for the scheduler and the clients that ask for symbols.
BeginStream ==
    /\ Ready(Loop) /\ ~Blocked
    /\ Go(Loop, Subscribe)
    /\ UNCHANGED <<row, managerVars, routerVars, up>>

\* The last client of a symbol has gone.
BeginUnsubscribe == Ready(Loop) /\ Enter(Loop, "unsubscribe")

\* A thread may have failed since start_smartapi_ws looked at the state.
Check(p) == at[p].pc = "check" /\ Enter(p, at[p].call)

\* attempts: the active broker, then those of _connectors, which is SmartAPI.
Plan(p) ==
    /\ at[p].pc = "plan"
    /\ Unlocked
    /\ Go(p, [at[p] EXCEPT !.pc = "next",
                           !.left = IF active = "upstox" THEN <<"upstox", "smartapi">>
                                                         ELSE <<"smartapi">>])
    /\ UNCHANGED <<row, managerVars, routerVars, up>>

\* The next broker, passing over those whose breaker is open.
Ask(p) ==
    /\ at[p].pc = "next" /\ at[p].left # <<>>
    /\ Go(p, IF Head(at[p].left) \in open
             THEN [at[p] EXCEPT !.left = Tail(@)]
             ELSE [at[p] EXCEPT !.pc = IF Head(at[p].left) = "upstox"
                                       THEN "create" ELSE "sent"])
    /\ UNCHANGED <<row, managerVars, routerVars, up>>

\* Mutant: an authorisation failure ends the call.
GiveUp_NoFallback(p) ==
    /\ at[p].pc = "next" /\ at[p].left = <<>>
    /\ Go(p, Idle)
    /\ UNCHANGED <<row, managerVars, routerVars, up>>

\* Nobody is left: after an authorisation failure a fresh Upstox connector is
\* asked, by unsubscribe after any, by login after none; else the call ends.
GiveUp(p) ==
    /\ at[p].pc = "next" /\ at[p].left = <<>>
    /\ Go(p, IF \/ at[p].call = "unsubscribe"
                \/ at[p].kind = "auth" /\ at[p].call # "login"
             THEN [at[p] EXCEPT !.pc = "create", !.direct = TRUE, !.left = <<"upstox">>]
             ELSE Idle)
    /\ UNCHANGED <<row, managerVars, routerVars, up>>

\* _create_upstox_connector, whose constructor calls get_active_token_sync:
\* the token in memory, and the row only if there is none.
Create(p) ==
    LET build == at[p].direct \/ conn = NoConnector
    IN /\ at[p].pc = "create"
       /\ Unlocked
       /\ IF build /\ token = NoToken
          THEN Go(p, [at[p] EXCEPT !.pc = "read", !.seen = row]) /\ UNCHANGED conn
          ELSE GoTo(p, "sent") /\ conn' = IF build THEN token ELSE conn
       /\ UNCHANGED <<row, managerVars, active, open, failed, up>>

\* What the query found; without a token the environment's is used, if any.
Read(p) ==
    /\ at[p].pc = "read"
    /\ IF at[p].seen.token = NoToken THEN UNCHANGED managerVars
       ELSE UpdateState(at[p].seen.status, at[p].seen.token)
    /\ conn' = at[p].seen.token
    /\ Go(p, [at[p] EXCEPT !.pc = "sent", !.seen = Empty])
    /\ UNCHANGED <<row, active, open, failed, up>>

\* The breaker of b closes.
Close(b) == open' = open \ {b} /\ failed' = [failed EXCEPT ![b] = 0]

\* _record_success: b is the active broker from now on.
RecordSuccess(b) == active' = b /\ Close(b)

\* Upstox' connector logs in before it answers, which may refresh its token;
\* by then the router may have another connector, or none.
Renewed(p) ==
    IF /\ Head(at[p].left) = "upstox" /\ conn # NoConnector
       /\ at[p].call \in {"login", "ensure", "data"}
    THEN Tokens \cup {conn} ELSE {conn}

\* An answer; past the router only that of ensure_login is recorded.
AnswerOK(p) ==
    /\ at[p].pc = "sent"
    /\ conn' \in Renewed(p)
    /\ IF at[p].direct /\ at[p].call # "ensure"
       THEN UNCHANGED <<active, open, failed>>
       ELSE Unlocked /\ RecordSuccess(Head(at[p].left))
    /\ Go(p, Idle)
    /\ UNCHANGED <<row, managerVars, up>>

\* Mutant: the breaker does not open.
RecordFailure_NoBreaker(b, kind) ==
    /\ status' = [status EXCEPT ![b] = IF kind = "other" THEN @ ELSE "TOKEN_EXPIRED"]
    /\ failed' = [failed EXCEPT ![b] = @ + 1]
    /\ conn' = IF b = "upstox" THEN NoConnector ELSE conn
    /\ UNCHANGED open

\* _record_failure: the breaker opens, and an authorisation failure, or an
\* answer 401 or 403, expires the broker's session: in the memory only, since
\* no loop runs in the threads and SmartAPI has no row.  A network error
\* while Upstox validates its token is an authorisation failure, too.  The
\* router drops its Upstox connector when Upstox failed; when SmartAPI's
\* authorisation did, it also closes Upstox' breaker.
RecordFailure(b, kind) ==
    LET clears == b = "smartapi" /\ kind = "auth" IN
    /\ status' = [status EXCEPT ![b] = IF kind = "other" THEN @ ELSE "TOKEN_EXPIRED"]
    /\ open' = (open \cup {b}) \ (IF clears THEN {"upstox"} ELSE {})
    /\ failed' = [c \in Brokers |-> IF c = b THEN failed[c] + 1
                                    ELSE IF clears THEN 0 ELSE failed[c]]
    /\ conn' = IF clears \/ b = "upstox" THEN NoConnector ELSE conn

\* Upstox' subscribe sends nothing, and unsubscribe hides its errors.
AnswerFails(p) ==
    LET b == Head(at[p].left)
    IN /\ at[p].pc = "sent" /\ at[p].call # "unsubscribe"
       /\ at[p].call = "subscribe" => b = "smartapi"
       /\ \E kind \in {"auth", "denied", "other"} :
            IF at[p].direct
            THEN Go(p, Idle) /\ conn' \in Renewed(p)
                 /\ UNCHANGED <<managerVars, active, open, failed>>
            ELSE /\ Unlocked
                 /\ RecordFailure(b, kind)
                 /\ Go(p, [at[p] EXCEPT !.pc = "next", !.left = Tail(@),
                                 !.kind = IF kind = "auth" THEN kind ELSE "none"])
                 /\ UNCHANGED <<token, active>>
       /\ UNCHANGED <<row, up>>

\* The cooldown of a breaker ends.
CooldownEnds ==
    /\ \E b \in open : Close(b)
    /\ UNCHANGED <<row, managerVars, active, conn, up, at>>

-----------------------------------------------------------------------------
(***************************************************************************)
(* /callback and /disconnect/upstox.                                       *)
(***************************************************************************)

\* The code was exchanged for a token; save_or_update_session reads the row.
BeginCallback ==
    /\ Ready(Loop)
    /\ \E t \in Tokens :
         Go(Loop, [Idle EXCEPT !.pc = "commit", !.call = "callback", !.new = t,
                               !.seen = row])
    /\ UNCHANGED <<row, managerVars, routerVars, up>>

\* The user who disconnects need not be the one the session is filed under:
\* then there is no row to clear.
BeginDisconnect ==
    /\ Ready(Loop)
    /\ \E pc \in {"commit", "close"} :
         Go(Loop, [Idle EXCEPT !.pc = pc, !.call = "disconnect",
                               !.seen = IF pc = "commit" THEN row ELSE Empty])
    /\ UNCHANGED <<row, managerVars, routerVars, up>>

\* The commit of save_or_update_session.
CommitSave ==
    /\ at[Loop].pc = "commit" /\ at[Loop].call = "callback"
    /\ row' = [token |-> IF at[Loop].seen.token = at[Loop].new THEN row.token
                                                               ELSE at[Loop].new,
               status |-> SetStatus(at[Loop], "CONNECTED")]
    /\ Go(Loop, [at[Loop] EXCEPT !.pc = "saved", !.seen = Empty])
    /\ UNCHANGED <<managerVars, routerVars, up>>

\* Mutant: the token is new and the status remains.
Saved_Silent ==
    /\ at[Loop].pc = "saved"
    /\ token' = at[Loop].new
    /\ GoTo(Loop, "apply")
    /\ UNCHANGED <<row, status, routerVars, up>>

\* update_state at its end.
Saved ==
    /\ at[Loop].pc = "saved"
    /\ UpdateState("CONNECTED", at[Loop].new)
    /\ GoTo(Loop, "apply")
    /\ UNCHANGED <<row, routerVars, up>>

\* The callback makes Upstox the active broker, with a connector of its own,
\* and starts the stream unless one is running or a thread has failed again.
Apply ==
    /\ at[Loop].pc = "apply"
    /\ Unlocked
    /\ active' = "upstox"
    /\ conn' = at[Loop].new
    /\ \/ Go(Loop, Idle)
       \/ status["upstox"] # "TOKEN_EXPIRED" /\ Go(Loop, Subscribe)
    /\ UNCHANGED <<row, managerVars, open, failed, up>>

\* The commit of disconnect_broker.
CommitDisconnect ==
    /\ at[Loop].pc = "commit" /\ at[Loop].call = "disconnect"
    /\ row' = [token |-> IF at[Loop].seen.token = NoToken THEN row.token ELSE NoToken,
               status |-> SetStatus(at[Loop], "DISCONNECTED")]
    /\ Go(Loop, [at[Loop] EXCEPT !.pc = "close", !.seen = Empty])
    /\ UNCHANGED <<managerVars, routerVars, up>>

\* The connector this worker has, and no other, loses its token.
CloseConnector ==
    /\ at[Loop].pc = "close"
    /\ conn' = IF conn = NoConnector THEN conn ELSE NoToken
    /\ GoTo(Loop, "forget")
    /\ UNCHANGED <<row, managerVars, active, open, failed, up>>

Forget ==
    /\ at[Loop].pc = "forget"
    /\ UpdateState("DISCONNECTED", NoToken)
    /\ Go(Loop, Idle)
    /\ UNCHANGED <<row, routerVars, up>>

-----------------------------------------------------------------------------
(***************************************************************************)
(* The worker starts, and stops without notice.                            *)
(***************************************************************************)

\* load_sessions_on_startup, before requests are taken; without a saved token
\* there is nothing to validate.
Boot ==
    /\ at[Loop].pc = "down"
    /\ IF row.token = NoToken
       THEN up' = TRUE /\ Go(Loop, Idle) /\ UNCHANGED managerVars
       ELSE /\ UpdateState("CONNECTING", row.token)
            /\ Go(Loop, [Idle EXCEPT !.pc = "validate", !.seen = row])
            /\ UNCHANGED up
    /\ UNCHANGED <<row, routerVars>>

ValidateOK ==
    /\ at[Loop].pc = "validate"
    /\ UpdateState("CONNECTED", at[Loop].seen.token)
    /\ row' = [row EXCEPT !.status = SetStatus(at[Loop], "CONNECTED")]
    /\ GoTo(Loop, "start")
    /\ UNCHANGED <<routerVars, up>>

\* Refused, or no answer within five seconds: the row keeps its token.
ValidateFails ==
    /\ at[Loop].pc = "validate"
    /\ UpdateState("TOKEN_EXPIRED", NoToken)
    /\ row' = [row EXCEPT !.status = SetStatus(at[Loop], "TOKEN_EXPIRED")]
    /\ Go(Loop, Idle)
    /\ up' = TRUE
    /\ UNCHANGED <<routerVars>>

\* The router gets the session and the stream starts, or an exception ends
\* the start-up of the session.
Start ==
    /\ at[Loop].pc = "start"
    /\ active' = "upstox"
    /\ conn' = at[Loop].seen.token
    /\ \/ Go(Loop, Subscribe) /\ UNCHANGED status
       \/ Go(Loop, Idle) /\ status' = [status EXCEPT !["upstox"] = "WEBSOCKET_FAILED"]
    /\ up' = TRUE
    /\ UNCHANGED <<row, token, open, failed>>

Crash ==
    /\ at[Loop].pc # "down"
    /\ status' = Fresh.status /\ token' = Fresh.token
    /\ active' = Fresh.active /\ open' = Fresh.open /\ failed' = Fresh.failed
    /\ conn' = Fresh.conn
    /\ up' = FALSE
    /\ at' = Fresh.at
    /\ UNCHANGED row

\* Another worker saves, drops or validates the session.
Elsewhere ==
    /\ \E r \in Row :
         /\ r.status \in {"CONNECTED", "DISCONNECTED", "TOKEN_EXPIRED"}
         /\ \/ r.status = "CONNECTED" /\ r.token # NoToken
            \/ r = Empty
            \/ r.token = row.token /\ r.status # "DISCONNECTED"
         /\ row' = r
    /\ UNCHANGED <<managerVars, routerVars, up, at>>

-----------------------------------------------------------------------------

Call(p) == Check(p) \/ Plan(p) \/ Ask(p) \/ GiveUp(p) \/ Create(p) \/ Read(p)
           \/ AnswerOK(p) \/ AnswerFails(p)
Serve == CommitSave \/ Saved \/ Apply \/ CommitDisconnect \/ CloseConnector \/ Forget
Startup == Boot \/ ValidateOK \/ ValidateFails \/ Start

Next ==
    \/ \E t \in Threads : BeginEnsure(t) \/ BeginData(t) \/ BeginLogin(t)
    \/ \E p \in Procs : Call(p)
    \/ BeginStream \/ BeginUnsubscribe \/ BeginCallback \/ BeginDisconnect \/ Serve
    \/ Startup \/ Crash \/ CooldownEnds \/ Elsewhere

Spec == Init /\ [][Next]_vars

\* Calls and requests run on, the loop does not wait for the lock for ever, a
\* worker that is down is started again, and the user authorises Upstox again
\* and again.
FairSpec ==
    /\ Spec
    /\ \A t \in Threads : WF_vars(Call(t))
    /\ SF_vars(Call(Loop) \/ Serve \/ Startup) /\ SF_vars(BeginCallback)

-----------------------------------------------------------------------------
(***************************************************************************)
(* Properties.                                                             *)
(***************************************************************************)

\* "circuit-breaker routing" (broker_router.py:32): from one cooldown to the
\* next a failing broker hears at most once from each thread and from the
\* loop: those that were under way when its breaker opened.
FailuresBounded == \A b \in Brokers : failed[b] <= Cardinality(Procs)

\* "Primary SmartAPI, fallback Upstox" (broker_router.py:32): no call but the
\* login of regen_token, which has no fallback, is given up because a token was
\* rejected, or because the router is blocked by that, before Upstox has been
\* asked past the router, unless the worker dies.
AuthFallback ==
    [][\A p \in Procs :
          (up' /\ at[p].kind = "auth" /\ at[p].call # "login" /\ at'[p].pc = "idle")
              => at[p].pc = "sent"]_vars

\* A thread logs in: for regen_token, or for a module's first call.
LoggingIn == \E t \in Threads : at[t].call \in {"login", "ensure"}

\* Re-authorising unblocks the worker that serves the callback, whatever its
\* threads, its stream and the other workers do meanwhile, and whatever logins
\* did before.  Only a login between any two callbacks, again and again, may
\* keep it blocked: what it recovers becomes active and still counts as expired.
Reconnects == []<>(~Blocked \/ LoggingIn)
=============================================================================
