----------------------------- MODULE OrderRouter -----------------------------
(***************************************************************************)
(* The order router of backend/app/connectors/order_router.py: the orders, *)
(* order_states and positions tables, and the threads of several worker   *)
(* processes that place, confirm, execute and close through it.            *)
(*                                                                         *)
(* Every call opens its own database session at READ COMMITTED, so a call  *)
(* is a sequence of steps: each statement that reads a row, each commit    *)
(* and each request to the broker is one.  A session writes only the       *)
(* columns it changed relative to what it loaded (Flush).                  *)
(***************************************************************************)
EXTENDS Integers, FiniteSets

CONSTANTS
    Threads,        \* threads that call the router
    Workers,        \* worker processes (uvicorn --workers)
    WorkerOf,       \* the worker a thread belongs to
    Users,          \* authenticated users
    Symbols,        \* instruments
    OrderIds,       \* order ids there are to hand out
    Quantities,     \* sizes a signal may have
    Envs,           \* settings a worker may be started with
    MaxAttempts,    \* attempts of the live retry loop (3 in the code)
    NoOrder, NoRow  \* "no order", "no row"

Modes == {"PAPER", "LIVE"}
Directions == {"BUY", "SELL"}
Settings == [enabled : BOOLEAN, mode : Modes, confirmed : BOOLEAN]

ASSUME ConstantsAssumption ==
    /\ WorkerOf \in [Threads -> Workers]
    /\ Quantities \subseteq Nat \ {0}
    /\ Envs \subseteq Settings
    /\ MaxAttempts \in Nat \ {0}
    /\ NoOrder \notin OrderIds

ASSUME ThreadsAssumption == IsFiniteSet(Threads)

Keys == Users \X Symbols

\* The columns of an order that never change once it is inserted.
Detail == [key : Keys, direction : Directions, quantity : Quantities,
           mode : Modes]
Request == [key : Keys, direction : Directions, quantity : Quantities]
CloseRequest == [key : Keys]
Position == [id : Nat, direction : Directions, quantity : Nat]

ASSUME RowAssumption == NoRow \notin Detail \cup Request \cup CloseRequest \cup Position

Logged == {"PENDING_CONFIRMATION", "CONFIRMED", "PENDING_EXECUTION",
           "FILLED", "REJECTED", "FAILED"}
Status == Logged \cup {"ABSENT"}
InFlight == {"CONFIRMED", "PENDING_EXECUTION"}
Blocking == InFlight \cup {"PENDING_CONFIRMATION", "FILLED"}

VARIABLES
    env,        \* env[w]: the settings worker w read when it started
    mode,       \* mode[w][u]: OrderRouter.mode of the executor of u in w
    status,     \* orders.status
    detail,     \* orders: the other columns
    recent,     \* ids of the orders placed less than 15 minutes ago
    log,        \* log[o][s]: rows of order_states
    positions,  \* positions, at most one row per user and symbol
    rowIds,     \* the sequence behind positions.id
    broker,     \* orders the broker has accepted for each order id
    aborted,    \* orders an execution of which ended in a crash or exception
    pc,         \* where each thread is
    cur,        \* the order a thread is working on
    seen,       \* orders.status as the thread's session loaded it
    row,        \* the position row as the thread's session loaded it
    req,        \* what place_order or close_position was called with
    tries       \* attempts of the live retry loop used up

tables == <<status, detail, recent, log, positions, rowIds, broker, aborted>>
locals == <<pc, cur, seen, row, req, tries>>
vars == <<env, mode, tables, locals>>

Executing == {"confirmed", "paper", "paperFill", "live", "login", "send",
              "resend", "accepted", "liveFill", "exhausted"}
PCs == Executing \cup {"idle", "gated", "insert", "confirm", "close"}

TypeOK ==
    /\ env \in [Workers -> Envs]
    /\ mode \in [Workers -> [Users -> Modes \cup {"UNSET"}]]
    /\ status \in [OrderIds -> Status]
    /\ detail \in [OrderIds -> Detail \cup {NoRow}]
    /\ recent \subseteq OrderIds
    /\ log \in [OrderIds -> [Logged -> Nat]]
    /\ positions \in [Keys -> Position \cup {NoRow}]
    /\ rowIds \in Nat
    /\ broker \in [OrderIds -> Nat]
    /\ aborted \subseteq OrderIds
    /\ pc \in [Threads -> PCs]
    /\ cur \in [Threads -> OrderIds \cup {NoOrder}]
    /\ seen \in [Threads -> Status]
    /\ row \in [Threads -> Position \cup {NoRow}]
    /\ req \in [Threads -> Request \cup CloseRequest \cup {NoRow}]
    /\ tries \in [Threads -> 0 .. MaxAttempts]

Init ==
    /\ env \in [Workers -> Envs]
    /\ mode = [w \in Workers |-> [u \in Users |-> "UNSET"]]
    /\ status = [o \in OrderIds |-> "ABSENT"]
    /\ detail = [o \in OrderIds |-> NoRow]
    /\ recent = {}
    /\ log = [o \in OrderIds |-> [s \in Logged |-> 0]]
    /\ positions = [k \in Keys |-> NoRow]
    /\ rowIds = 0
    /\ broker = [o \in OrderIds |-> 0]
    /\ aborted = {}
    /\ pc = [t \in Threads |-> "idle"]
    /\ cur = [t \in Threads |-> NoOrder]
    /\ seen = [t \in Threads |-> "ABSENT"]
    /\ row = [t \in Threads |-> NoRow]
    /\ req = [t \in Threads |-> NoRow]
    /\ tries = [t \in Threads |-> 0]

-----------------------------------------------------------------------------
(***************************************************************************)
(* Sessions.                                                               *)
(***************************************************************************)

EnvOf(t) == env[WorkerOf[t]]

\* A session emits a column only when it differs from what it loaded.
Flush(loaded, stored, new) == IF new = loaded THEN stored ELSE new

\* _log_state: a row for each of the states.
LogStates(o, states) ==
    log' = [log EXCEPT ![o] =
              [s \in Logged |-> @[s] + (IF s \in states THEN 1 ELSE 0)]]

\* Mutant: the state log row is forgotten.
CommitState_NoLogRow(t, s) ==
    /\ status' = [status EXCEPT ![cur[t]] = Flush(seen[t], @, s)]
    /\ UNCHANGED log

\* session.commit() of a state change: the status column and its log row.
CommitState(t, s) ==
    /\ status' = [status EXCEPT ![cur[t]] = Flush(seen[t], @, s)]
    /\ LogStates(cur[t], {s})

\* The call returns (or raises): its session is closed, its locals are gone.
Return(t) ==
    /\ pc' = [pc EXCEPT ![t] = "idle"]
    /\ cur' = [cur EXCEPT ![t] = NoOrder]
    /\ seen' = [seen EXCEPT ![t] = "ABSENT"]
    /\ row' = [row EXCEPT ![t] = NoRow]
    /\ req' = [req EXCEPT ![t] = NoRow]
    /\ tries' = [tries EXCEPT ![t] = 0]

Goto(t, from, to) == pc[t] = from /\ pc' = [pc EXCEPT ![t] = to]

-----------------------------------------------------------------------------
(***************************************************************************)
(* The router's mode.  The constructor downgrades LIVE to PAPER unless all *)
(* three settings agree; get_executor of an existing executor sets the     *)
(* mode to TRADING_MODE again, without those checks.                       *)
(***************************************************************************)

SafeMode(e) ==
    IF e.mode = "LIVE" /\ e.enabled /\ e.confirmed THEN "LIVE" ELSE "PAPER"

GetExecutor(w, u) ==
    /\ mode' = [mode EXCEPT ![w][u] =
                  IF @ = "UNSET" THEN SafeMode(env[w]) ELSE env[w].mode]
    /\ UNCHANGED <<env, tables, locals>>

\* The safety gate of execute_signal and the kill-switch check of place_order.
GateOpen(e, m) == e.enabled /\ (m = "LIVE" => e.confirmed)

-----------------------------------------------------------------------------
(***************************************************************************)
(* place_order                                                             *)
(***************************************************************************)

PlaceOrder(t, r) ==
    LET m == mode[WorkerOf[t]][r.key[1]] IN
    /\ m # "UNSET"
    /\ GateOpen(EnvOf(t), m)
    /\ Goto(t, "idle", "gated")
    /\ req' = [req EXCEPT ![t] = r]
    /\ UNCHANGED <<env, mode, tables, cur, seen, row, tries>>

SameOrder(o, r) ==
    /\ detail[o] # NoRow
    /\ detail[o].key = r.key
    /\ detail[o].direction = r.direction

RecentDuplicate(r) ==
    \E o \in recent : SameOrder(o, r) /\ status[o] \in Blocking

IdempotencyBlock(t) ==
    /\ pc[t] = "gated"
    /\ RecentDuplicate(req[t])
    /\ Return(t)
    /\ UNCHANGED <<env, mode, tables>>

IdempotencyPass(t) ==
    /\ Goto(t, "gated", "insert")
    /\ ~RecentDuplicate(req[t])
    /\ UNCHANGED <<env, mode, tables, cur, seen, row, req, tries>>

\* The order takes the mode the router has now, not the one the gate saw.
InsertOrder(t, o) ==
    LET r == req[t] IN
    /\ pc[t] = "insert"
    /\ status[o] = "ABSENT"
    /\ status' = [status EXCEPT ![o] = "PENDING_CONFIRMATION"]
    /\ detail' = [detail EXCEPT ![o] =
                    [key |-> r.key, direction |-> r.direction,
                     quantity |-> r.quantity,
                     mode |-> mode[WorkerOf[t]][r.key[1]]]]
    /\ recent' = recent \cup {o}
    /\ LogStates(o, {"PENDING_CONFIRMATION"})
    /\ Return(t)
    /\ UNCHANGED <<env, mode, positions, rowIds, broker, aborted>>

\* Fifteen minutes pass since the order was placed.
Age(o) ==
    /\ o \in recent
    /\ recent' = recent \ {o}
    /\ UNCHANGED <<env, mode, status, detail, log, positions, rowIds, broker,
                   aborted, locals>>

-----------------------------------------------------------------------------
(***************************************************************************)
(* confirm_and_execute                                                     *)
(***************************************************************************)

LiveBlocked(e) == ~e.enabled \/ e.mode # "LIVE"

\* The status check; an order in any other state is refused.
ConfirmRead(t, o) ==
    /\ status[o] = "PENDING_CONFIRMATION"
    /\ Goto(t, "idle", "confirm")
    /\ cur' = [cur EXCEPT ![t] = o]
    /\ seen' = [seen EXCEPT ![t] = status[o]]
    /\ UNCHANGED <<env, mode, tables, row, req, tries>>

ConfirmReject(t) ==
    /\ pc[t] = "confirm"
    /\ detail[cur[t]].mode = "LIVE" /\ LiveBlocked(EnvOf(t))
    /\ CommitState(t, "REJECTED")
    /\ Return(t)
    /\ UNCHANGED <<env, mode, detail, recent, positions, rowIds, broker,
                   aborted>>

\* Mutant: the settings are not checked again before a live execution.
ConfirmCommit_Unchecked(t) ==
    /\ Goto(t, "confirm", "confirmed")
    /\ CommitState(t, "CONFIRMED")
    /\ UNCHANGED <<env, mode, detail, recent, positions, rowIds, broker,
                   aborted, cur, seen, row, req, tries>>

ConfirmCommit(t) ==
    /\ Goto(t, "confirm", "confirmed")
    /\ ~(detail[cur[t]].mode = "LIVE" /\ LiveBlocked(EnvOf(t)))
    /\ CommitState(t, "CONFIRMED")
    /\ UNCHANGED <<env, mode, detail, recent, positions, rowIds, broker,
                   aborted, cur, seen, row, req, tries>>

\* The first access after a commit reloads the expired order.
ReloadConfirmed(t) ==
    /\ Goto(t, "confirmed",
            IF detail[cur[t]].mode = "PAPER" THEN "paper" ELSE "live")
    /\ seen' = [seen EXCEPT ![t] = status[cur[t]]]
    /\ UNCHANGED <<env, mode, tables, cur, row, req, tries>>

-----------------------------------------------------------------------------
(***************************************************************************)
(* _sync_position                                                          *)
(***************************************************************************)

\* Mutant: abs() is dropped.
Distance_Signed(m, n) == m - n

Distance(m, n) == IF m >= n THEN m - n ELSE n - m

\* Mutant: every new row is taken to be a long position.
Synced_AlwaysLong(loaded, d) ==
    IF loaded = NoRow
    THEN [id |-> rowIds, direction |-> "BUY", quantity |-> d.quantity]
    ELSE [loaded EXCEPT !.quantity = @ + d.quantity]

\* Mutant: the fill is added to the position twice.
Synced_Twice(loaded, d) ==
    IF loaded = NoRow
    THEN [id |-> rowIds, direction |-> d.direction, quantity |-> 2 * d.quantity]
    ELSE [loaded EXCEPT !.quantity = @ + 2 * d.quantity]

\* The row _sync_position leaves in the session, given the row it loaded.
Synced(loaded, d) ==
    LET left == Distance(loaded.quantity, d.quantity) IN
    IF loaded = NoRow
    THEN [id |-> rowIds, direction |-> d.direction, quantity |-> d.quantity]
    ELSE IF loaded.direction = d.direction
    THEN [id |-> loaded.id, direction |-> d.direction,
          quantity |-> loaded.quantity + d.quantity]
    ELSE [id |-> loaded.id,
          direction |-> IF d.quantity > left THEN d.direction
                                             ELSE loaded.direction,
          quantity |-> left]

LoadPosition(t, from, to) ==
    /\ Goto(t, from, to)
    /\ row' = [row EXCEPT ![t] = positions[detail[cur[t]].key]]
    /\ UNCHANGED <<env, mode, tables, cur, seen, req, tries>>

\* Otherwise the INSERT violates uq_position_user_symbol, or the UPDATE by id
\* matches no row.
CanWrite(t) ==
    LET stored == positions[detail[cur[t]].key] IN
    IF row[t] = NoRow THEN stored = NoRow
    ELSE stored # NoRow /\ stored.id = row[t].id

WritePosition(t) ==
    LET d == detail[cur[t]]
        new == Synced(row[t], d)
    IN IF row[t] = NoRow
       THEN /\ positions' = [positions EXCEPT ![d.key] = new]
            /\ rowIds' = rowIds + 1
       ELSE /\ positions' = [positions EXCEPT
                 ![d.key].quantity = Flush(row[t].quantity, @, new.quantity),
                 ![d.key].direction = Flush(row[t].direction, @, new.direction)]
            /\ UNCHANGED rowIds

\* The commit raises: the session rolls back and the exception reaches the
\* caller, also from the live path, whose handler touches the dead session.
CommitRaises(t) ==
    /\ pc[t] \in {"paperFill", "liveFill"}
    /\ ~CanWrite(t)
    /\ aborted' = aborted \cup {cur[t]}
    /\ Return(t)
    /\ UNCHANGED <<env, mode, status, detail, recent, log, positions, rowIds,
                   broker>>

-----------------------------------------------------------------------------
(***************************************************************************)
(* _execute_paper: both state changes and the position in one commit.      *)
(***************************************************************************)

\* Mutant: PENDING_EXECUTION is not logged on the way to FILLED.
PaperFill_Unlogged(t) ==
    /\ pc[t] = "paperFill"
    /\ CanWrite(t)
    /\ CommitState(t, "FILLED")
    /\ WritePosition(t)
    /\ Return(t)
    /\ UNCHANGED <<env, mode, detail, recent, broker, aborted>>

PaperFill(t) ==
    /\ pc[t] = "paperFill"
    /\ CanWrite(t)
    /\ status' = [status EXCEPT ![cur[t]] = Flush(seen[t], @, "FILLED")]
    /\ LogStates(cur[t], {"PENDING_EXECUTION", "FILLED"})
    /\ WritePosition(t)
    /\ Return(t)
    /\ UNCHANGED <<env, mode, detail, recent, broker, aborted>>

-----------------------------------------------------------------------------
(***************************************************************************)
(* _execute_live                                                           *)
(***************************************************************************)

\* Mutant: PENDING_EXECUTION is committed only together with the outcome.
LivePending_Uncommitted(t) ==
    /\ Goto(t, "live", "login")
    /\ UNCHANGED <<env, mode, tables, cur, seen, row, req, tries>>

LivePending(t) ==
    /\ Goto(t, "live", "login")
    /\ CommitState(t, "PENDING_EXECUTION")
    /\ UNCHANGED <<env, mode, detail, recent, positions, rowIds, broker,
                   aborted, cur, seen, row, req, tries>>

\* Mutant: a failed login is not recorded as FAILED.
LoginRaises_Unhandled(t) ==
    /\ pc[t] = "login"
    /\ Return(t)
    /\ UNCHANGED <<env, mode, tables>>

\* _ensure_login raises before the order is reloaded: FAILED is written
\* whatever the stored status is.
LoginRaises(t) ==
    /\ pc[t] = "login"
    /\ status' = [status EXCEPT ![cur[t]] = "FAILED"]
    /\ LogStates(cur[t], {"FAILED"})
    /\ Return(t)
    /\ UNCHANGED <<env, mode, detail, recent, positions, rowIds, broker,
                   aborted>>

LoggedIn(t) ==
    /\ Goto(t, "login", "send")
    /\ seen' = [seen EXCEPT ![t] = status[cur[t]]]
    /\ UNCHANGED <<env, mode, tables, cur, row, req, tries>>

\* The symbol has no broker token.
UnknownSymbol(t) ==
    /\ pc[t] = "send" /\ tries[t] = 0
    /\ CommitState(t, "REJECTED")
    /\ Return(t)
    /\ UNCHANGED <<env, mode, detail, recent, positions, rowIds, broker,
                   aborted>>

\* The broker takes the order; whether the answer comes back is another matter.
Accept(t) == broker' = [broker EXCEPT ![cur[t]] = @ + 1]

\* An answer with status true ends the loop.
BrokerAccepts(t) ==
    /\ pc[t] \in {"send", "resend"}
    /\ Accept(t)
    /\ pc' = [pc EXCEPT ![t] = "accepted"]
    /\ UNCHANGED <<env, mode, status, detail, recent, log, positions, rowIds,
                   aborted, cur, seen, row, req, tries>>

\* The first request of an attempt raises, accepted or not: the connector
\* refreshes its session and sends the order again.
RequestRaises(t) ==
    /\ Goto(t, "send", "resend")
    /\ Accept(t) \/ UNCHANGED broker
    /\ UNCHANGED <<env, mode, status, detail, recent, log, positions, rowIds,
                   aborted, cur, seen, row, req, tries>>

\* Mutant: one attempt too many.
AttemptFails_OneMore(t) ==
    /\ pc[t] \in {"send", "resend"}
    /\ Accept(t) \/ UNCHANGED broker
    /\ tries' = [tries EXCEPT ![t] = @ + 1]
    /\ pc' = [pc EXCEPT ![t] =
                IF tries[t] + 1 <= MaxAttempts THEN "send" ELSE "exhausted"]
    /\ UNCHANGED <<env, mode, status, detail, recent, log, positions, rowIds,
                   aborted, cur, seen, row, req>>

\* Mutant: running out of attempts counts as success.
AttemptFails_Optimistic(t) ==
    /\ pc[t] \in {"send", "resend"}
    /\ Accept(t) \/ UNCHANGED broker
    /\ tries' = [tries EXCEPT ![t] = @ + 1]
    /\ pc' = [pc EXCEPT ![t] =
                IF tries[t] + 1 < MaxAttempts THEN "send" ELSE "accepted"]
    /\ UNCHANGED <<env, mode, status, detail, recent, log, positions, rowIds,
                   aborted, cur, seen, row, req>>

\* The attempt fails: a refusal, an empty answer, or an exception that the
\* connector lets through; the broker may have taken the order all the same.
AttemptFails(t) ==
    /\ pc[t] \in {"send", "resend"}
    /\ Accept(t) \/ UNCHANGED broker
    /\ tries' = [tries EXCEPT ![t] = @ + 1]
    /\ pc' = [pc EXCEPT ![t] =
                IF tries[t] + 1 < MaxAttempts THEN "send" ELSE "exhausted"]
    /\ UNCHANGED <<env, mode, status, detail, recent, log, positions, rowIds,
                   aborted, cur, seen, row, req>>

LiveFill(t) ==
    /\ pc[t] = "liveFill"
    /\ CanWrite(t)
    /\ CommitState(t, "FILLED")
    /\ WritePosition(t)
    /\ Return(t)
    /\ UNCHANGED <<env, mode, detail, recent, broker, aborted>>

LiveFail(t) ==
    /\ pc[t] = "exhausted"
    /\ CommitState(t, "FAILED")
    /\ Return(t)
    /\ UNCHANGED <<env, mode, detail, recent, positions, rowIds, broker,
                   aborted>>

-----------------------------------------------------------------------------
(***************************************************************************)
(* close_position: DELETE by id of the row that was read; if another       *)
(* session has deleted it, no row matches and the call still returns.      *)
(***************************************************************************)

CloseRead(t, k) ==
    /\ positions[k] # NoRow
    /\ Goto(t, "idle", "close")
    /\ req' = [req EXCEPT ![t] = [key |-> k]]
    /\ row' = [row EXCEPT ![t] = positions[k]]
    /\ UNCHANGED <<env, mode, tables, cur, seen, tries>>

CloseCommit(t) ==
    LET k == req[t].key IN
    /\ pc[t] = "close"
    /\ positions' = [positions EXCEPT ![k] =
          IF @ # NoRow /\ @.id = row[t].id THEN NoRow ELSE @]
    /\ Return(t)
    /\ UNCHANGED <<env, mode, status, detail, recent, log, rowIds, broker,
                   aborted>>

-----------------------------------------------------------------------------
(***************************************************************************)
(* A worker dies in the middle of anything and is started again, perhaps   *)
(* with other settings; what was committed stays, nothing is resumed.      *)
(***************************************************************************)

Crash(w, e) ==
    LET mine == {t \in Threads : WorkerOf[t] = w}
        Keep(f, zero) == [t \in Threads |-> IF t \in mine THEN zero ELSE f[t]]
    IN
    /\ env' = [env EXCEPT ![w] = e]
    /\ mode' = [mode EXCEPT ![w] = [u \in Users |-> "UNSET"]]
    /\ aborted' = aborted \cup {cur[t] : t \in {u \in mine : pc[u] \in Executing}}
    /\ pc' = Keep(pc, "idle")
    /\ cur' = Keep(cur, NoOrder)
    /\ seen' = Keep(seen, "ABSENT")
    /\ row' = Keep(row, NoRow)
    /\ req' = Keep(req, NoRow)
    /\ tries' = Keep(tries, 0)
    /\ UNCHANGED <<status, detail, recent, log, positions, rowIds, broker>>

\* What a thread does on its own once it has been called.
Step(t) ==
    \/ IdempotencyBlock(t) \/ IdempotencyPass(t)
    \/ \E o \in OrderIds : InsertOrder(t, o)
    \/ ConfirmReject(t) \/ ConfirmCommit(t) \/ ReloadConfirmed(t)
    \/ LoadPosition(t, "paper", "paperFill") \/ PaperFill(t)
    \/ LivePending(t) \/ LoginRaises(t) \/ LoggedIn(t) \/ UnknownSymbol(t)
    \/ BrokerAccepts(t) \/ RequestRaises(t) \/ AttemptFails(t)
    \/ LoadPosition(t, "accepted", "liveFill") \/ LiveFill(t) \/ LiveFail(t)
    \/ CommitRaises(t)
    \/ CloseCommit(t)

Call(t) ==
    \/ \E r \in Request : PlaceOrder(t, r)
    \/ \E o \in OrderIds : ConfirmRead(t, o)
    \/ \E k \in Keys : CloseRead(t, k)

Next ==
    \/ \E t \in Threads : Call(t) \/ Step(t)
    \/ \E w \in Workers, u \in Users : GetExecutor(w, u)
    \/ \E o \in OrderIds : Age(o)
    \/ \E w \in Workers, e \in Envs : Crash(w, e)

Spec == Init /\ [][Next]_vars

\* Threads are scheduled and every broker request returns or times out.
FairSpec == Spec /\ \A t \in Threads : WF_vars(Step(t))

-----------------------------------------------------------------------------
(***************************************************************************)
(* Properties.                                                             *)
(***************************************************************************)

\* An order left CONFIRMED or PENDING_EXECUTION has a thread that is still
\* executing it, unless an execution of it crashed or raised: nothing else
\* leaves an order in flight, however many confirmations of it overlap.
InFlightHasOwner ==
    \A o \in OrderIds :
        status[o] \in InFlight /\ o \notin aborted
            => \E t \in Threads : cur[t] = o /\ pc[t] \in Executing

\* orders.status is always a state the order's audit log has recorded.
StatusLogged ==
    \A o \in OrderIds : status[o] # "ABSENT" => log[o][status[o]] > 0

\* No order reaches the broker before PENDING_EXECUTION is committed for it,
\* so after a crash the table still names every order that may be live.
SentOnlyAfterRecord ==
    \A o \in OrderIds :
        broker[o] > 0 => /\ log[o]["PENDING_EXECUTION"] > 0
                         /\ detail[o].mode = "LIVE"

\* Lost answers can duplicate an order at the broker, but never beyond two
\* requests for each attempt of each recorded execution.
BrokerOrdersBounded ==
    \A o \in OrderIds :
        broker[o] <= 2 * MaxAttempts * log[o]["PENDING_EXECUTION"]

\* A live order is recorded FILLED only if the broker took it.
FilledMeansTaken ==
    \A o \in OrderIds :
        log[o]["FILLED"] > 0 /\ detail[o].mode = "LIVE" => broker[o] > 0

\* A position is in a direction some filled order of that user and symbol had.
PositionBacked ==
    \A k \in Keys :
        positions[k] # NoRow
            => \E o \in OrderIds : /\ detail[o] # NoRow
                                   /\ detail[o].key = k
                                   /\ detail[o].direction = positions[k].direction
                                   /\ log[o]["FILLED"] > 0

\* A worker that is talking to the broker about an order was started with
\* trading enabled in LIVE mode, and the order is a LIVE order.
LiveOnlyWhenEnabled ==
    \A t \in Threads :
        pc[t] \in {"login", "send", "resend"}
            => ~LiveBlocked(EnvOf(t)) /\ detail[cur[t]].mode = "LIVE"

\* The units ever filled for k, one by one: a fill of an order adds as many as
\* the order asks for.
FilledUnits(k) ==
    UNION {{o} \X (1 .. detail[o].quantity * log[o]["FILLED"]) :
              o \in {p \in OrderIds : detail[p] # NoRow /\ detail[p].key = k}}

\* A position never holds more than was ever filled for it.
PositionWithinFills ==
    \A k \in Keys :
        positions[k] # NoRow
            => positions[k].quantity <= Cardinality(FilledUnits(k))

\* An order in flight is resolved, unless an execution of it was cut short.
InFlightResolves ==
    \A o \in OrderIds :
        status[o] \in InFlight ~> status[o] \notin InFlight \/ o \in aborted

\* An order is confirmed only from PENDING_CONFIRMATION
\* (tests/test_trading_engine.py: confirm_and_execute should reject others).
ConfirmedOnlyWhenPending ==
    [][\A o \in OrderIds :
          log'[o]["CONFIRMED"] > log[o]["CONFIRMED"]
              => status[o] = "PENDING_CONFIRMATION"]_vars

\* Seen from outside, each order goes through the lifecycle its audit log is
\* kept for, however many threads and workers act on it and die.
Lifecycle == INSTANCE OrderLifecycle
                 WITH OrderIds <- OrderIds, status <- status, log <- log

Implements == Lifecycle!Spec

\* No request goes to the broker from a worker started without LIVE_CONFIRMED
\* (execute_signal: LIVE mode requires explicit confirmation).
LiveNeedsConfirmation ==
    \A t \in Threads : pc[t] \in {"send", "resend"} => EnvOf(t).confirmed

-----------------------------------------------------------------------------
(***************************************************************************)
(* The strengthening under which the invariants above are inductive.       *)
(***************************************************************************)

\* Control points by what still lies ahead: a paper fill, a live execution,
\* the last reload of the order, the write of its outcome.
PaperPCs == {"paper", "paperFill"}
LivePCs == Executing \ (PaperPCs \cup {"confirmed"})
Reloads == {"confirmed", "live", "login"}
Resolves == Executing \ Reloads

ThreadOK(t) ==
    /\ pc[t] \in Executing \cup {"confirm"}
           => cur[t] \in OrderIds /\ status[cur[t]] # "ABSENT"
    /\ pc[t] \in {"gated", "insert"}
           => req[t] \in Request /\ mode[WorkerOf[t]][req[t].key[1]] # "UNSET"
    /\ pc[t] = "close" => req[t] \in CloseRequest
    /\ pc[t] \in {"send", "resend"} => tries[t] < MaxAttempts
    /\ pc[t] \notin LivePCs \ {"live", "login"} => tries[t] = 0
    /\ pc[t] \in PaperPCs => detail[cur[t]].mode = "PAPER"
    /\ pc[t] \in LivePCs => detail[cur[t]].mode = "LIVE"
    /\ pc[t] \in LivePCs \cup {"confirmed"} /\ detail[cur[t]].mode = "LIVE"
           => ~LiveBlocked(EnvOf(t))
    /\ pc[t] \in LivePCs \ {"live"} => log[cur[t]]["PENDING_EXECUTION"] > 0
    /\ pc[t] \in {"accepted", "liveFill"} => broker[cur[t]] > 0

ThreadInv == \A t \in Threads : ThreadOK(t)

TableInv ==
    \A o \in OrderIds :
        /\ status[o] = "ABSENT" <=> detail[o] = NoRow
        /\ status[o] = "ABSENT" => \A s \in Logged : log[o][s] = 0

\* The thread will write an outcome of o that takes effect: it has yet to
\* reload the order, or the state it loaded last is not an outcome.
WillResolve(t, o) ==
    /\ cur[t] = o
    /\ \/ pc[t] \in Reloads
       \/ pc[t] \in Resolves /\ seen[t] \in InFlight

OwnerInv ==
    \A o \in OrderIds :
        status[o] \in InFlight /\ o \notin aborted
            => \E t \in Threads : WillResolve(t, o)

\* What every step of every worker preserves: a thread that has left the
\* duplicate guard, a gate or the broker still stands on what it saw there,
\* and each order in flight has a thread that will write its outcome.
IInv ==
    /\ TypeOK
    /\ ThreadInv
    /\ TableInv
    /\ OwnerInv
    /\ StatusLogged
    /\ SentOnlyAfterRecord
    /\ FilledMeansTaken
    /\ PositionBacked
=============================================================================
