# StockAI-Pro in TLA+

A verification project for the trading core of StockAI-Pro: TLA+ modules of the
components whose correctness depends on interleaving, failure and restart, TLC
configurations that check them on small instances, and TLAPS proofs for every
value of the constants. The reference is the deployed monolith
`src/backend/app` (paths below are relative to it): a FastAPI application that
`docker-entrypoint.sh` starts with two uvicorn workers over one PostgreSQL and
one Redis. `src/services` repeats most of it as separate services and is not
modelled on its own.

Contents: [the system](#the-system) · [plan](#plan) · [modules](#modules) ·
[runs](#runs) · [fairness](#fairness) · [proofs](#proofs) ·
[findings](#what-the-checks-found) · [limits](#what-is-not-modelled-and-why)

## The system

Two kinds of process share the tables and the Redis instance: worker 1 and
worker 2. In a worker, requests are coroutines of one event loop; the order
router runs in threads that the routes start (`asyncio.to_thread`); the
SmartAPI socket has a thread of its own; and the scheduler runs jobs on the
event loop. So state is shared in four ways: objects of a worker between its
coroutines (interleaving at every `await`), objects of a worker between its
threads (interleaving anywhere), Redis between workers, and tables between
everybody.

| Component | State | Operations | Talks to |
|---|---|---|---|
| Order router (`connectors/order_router.py`) | tables `orders`, `order_states`, `positions`; `mode` | `place_order`, `confirm_and_execute`, `close_position` | broker (SmartAPI connector), tables |
| Live executor (`trading/live_executor.py`, `_5m`) | one executor per user and worker, each with a router and a risk manager | `get_executor`, `execute_signal`, `check_exits`, `on_candle_complete` | order router, risk manager |
| Risk manager (`trading/risk_manager.py`) | daily loss, trades, open positions, halt; one `DailyRiskState` row per date | `can_trade`, `on_trade_opened/closed`, `load_from_db` | table |
| User trading state (`trading/user_state.py`) | object per user and worker, copy in Redis, row of `user_trading_state`, lock key in Redis | `get_state`, `open_position`, `close_position`, `toggle_kill_switch`, `remove_state` | Redis, table |
| Socket manager and feed (`websocket/relay.py`, `handler.py`) | connections, rooms, subscriptions, payloads to restore; `_smartapi_ws_started`, `_ws_state`, `_ws_subscribed_symbols`, the reconnect task | `connect`, `disconnect`, `subscribe`, `unsubscribe`, broadcasts, `start_smartapi_ws`, `_retry_ws_connect` | clients, broker router, scheduler |
| SmartAPI connector, broker router | session, tokens, socket thread; active broker, breaker times | login, `place_order`, `start_ws`, `_try_route` | broker, token manager |
| Token manager, circuit breaker, broker session manager | token, refresh backoff; breaker state; session row per broker | refresh, `can_attempt`, `record_*`; `save_or_update_session`, `mark_token_expired_db` | broker, table |
| Redis client | pool, degraded flag, local fallback | `distributed_job_lock`, cache get/set/delete | Redis |
| Scheduler (`services/scheduler.py`) | jobs | restart of the feed, day roll, position sync, ... | all of the above |
| Candles (`candle_builder.py`, `tick_aggregator.py`) | open bars | tick, completion | executor |
| Startup (`lifespan.py`, `startup_manager.py`) | phase | initialise, mark ready | all |

How they interact in one trade: a tick reaches `_on_smartapi_tick` in the
socket thread, is built into a candle and broadcast to the symbol's room; a
completed candle runs the executor, which asks the risk manager and places an
order through the router; PAPER orders are executed by a confirmation at once,
LIVE orders wait for a request to `/confirm`. `/execute` also opens a position
in the user trading state, which has its own limits and kill switch and does
not know the executor's.

What is hard, and what correctness means, component by component:

* **Order router.** Each call opens one or more sessions at READ COMMITTED and
  checks before it writes without a lock; sessions write back only the columns
  they changed. Overlapping confirmations, retries after lost answers, crashes
  between the commit of an intention and of its outcome. *Correct* means: the
  audit log explains the order, nothing reaches the broker unrecorded,
  duplicates at the broker are bounded, what is in flight belongs to somebody,
  a position is one that fills justify.
* **User trading state.** Three copies of one state, an asyncio lock per
  object, a lock in Redis that gives up after fifty attempts or expires, and
  `get_state` replacing the object while an operation awaits, an UPDATE that
  sets only the columns that differ from what its SELECT loaded. *Correct*
  means: limits hold in every copy; as long as no request does without the
  lock, every copy is consistent and a committed operation is in the table; a
  switch that was answered is set; no request hangs.
* **Market feed.** Clients come and go, broadcasts disconnect clients whose
  coroutine goes on, three actors start one upstream stream. *Correct* means:
  a tick goes to who has the symbol, nothing is left behind, nothing wanted is
  given up, what is wanted is asked of the broker, the stream comes back.
* **Live executor and risk manager.** The gate is asked before the order and the
  trade counted after it, by threads without a lock; a close changes the loss,
  the count and the halt in separate steps, and a new day clears them.
  *Correct* means: the limit of a day and of a loss are exceeded by no more than
  the calls already under way, a breach is a halt, a position ends.
* **Broker session.** SmartAPI: three copies of one session, two nested locks of
  which a fetch takes only the inner one, retries inside retries around one
  cooldown and one breaker that admits everybody once its time is over. Upstox:
  a session in the memory of each worker and in a row that others write, and a
  router that threads ask while the event loop renews it. *Correct* means: one
  thread at a time logs in, a failing broker is not hammered, every call
  returns, a call falls back, and a session that was lost comes back.
* **Job lock and scheduler.** A lock that expires instead of being released, a
  timeout that leaves the thread running, two clients of Redis and one flag that
  says it is gone. *Correct* means: one worker per scheduled time, no time lost
  to an old lock, and the way back to Redis.
* **Candles, startup.** Numeric edges; a failed phase reported ready.

`PROJECT.json` lists the hazards at their lines, with the properties that
cover them or the reason why none does.

## Plan

Most important behaviour first.

Done:

1. `OrderRouter`: money leaves through it. Runs `router_paper`, `router_live`
   and two disagreements; its safety, with the bounds on broker orders and
   positions, proved in `OrderRouterProofs`.
2. `UserTradingState`: limits and kill switch of a user over three copies.
   Runs `user_requests`, `user_failures` and one disagreement.
3. `MarketFeed`: subscriptions and the upstream stream. Run `feed_clients`;
   safety proved in `MarketFeedProofs`.
4. `BrokerLogin`: token manager, circuit breaker and the connector's use of
   them. Run `broker_login`; safety proved in `BrokerLoginProofs`, and that it
   implements the documented breaker, `LoginBreaker`.
5. `UserTradingStateProofs`: the safety of `UserTradingState`.
6. `OrderLifecycle`: what one order promises, and `OrderRouter` shown to
   implement it, checked in `router_live` and proved in `OrderLifecycleProofs`.
7. `Executors`: the 5-minute executor and its risk manager against the positions
   table. Run `executors`; safety proved in `ExecutorsProofs`.
8. `BrokerSession`: the broker router, the session row and the Upstox session.
   Run `broker_session`; safety proved in `BrokerSessionProofs`.
9. `JobLock`: the scheduler's lock and attempts, the degraded mode. Run
   `redis_jobs`; safety proved in `JobLockProofs`.

Left:

10. `/execute` as a whole: router, user state and executor composed, with what
    the route does when one of its calls fails.
11. Candle aggregation as functions against a reference definition over bounded
    tick sequences.

Each module is written to be proved about: parameters are CONSTANTS with
assumptions, an operation or step of one is an action, and nothing is
RECURSIVE.

## Modules

### OrderRouter

The three tables, and threads that run `place_order`, `confirm_and_execute`
and `close_position`. A step is one statement that reads, one commit, or one
request to the broker, because those are the points where sessions of READ
COMMITTED see each other. A thread keeps what it loaded (`seen`), and a commit
writes only what differs from it, which is what SQLAlchemy flushes.

* `status`, `detail`, `recent` are the `orders` table (`recent` stands for
  `created_at` in the last fifteen minutes); `log` counts rows of
  `order_states` by state; `positions` holds the row of a user and symbol.
* `broker` counts the broker's orders. A request may be taken and its answer
  lost; `AttemptFails` and `RequestRaises` are the loop of `_execute_live` and
  the resend inside the connector's `place_order`.
* `env` and `mode` are the settings a worker started with, and
  `OrderRouter.mode` of each executor, set by `get_executor`.
* `Crash` ends all threads of a worker and restarts it, perhaps with other
  settings. `aborted` is a ghost: the orders whose execution was cut short by
  a crash or by an exception that escapes the handlers.

### UserTradingState

The state of one user: the object in each worker's `TradingManager`, the copy in
Redis (`shared`), the row (`saved`). A request is a coroutine with a program
counter that stops at every await: `get_state` under the manager's lock, then
perhaps an operation under the lock in Redis and the object's lock, then
`persist` (SELECT, then COMMIT) and `sync_to_redis`. `lock` holds a token;
`AcquireLock` is SET NX, `GiveUp` the loop running out, `Release` and `Delete`
the two calls that compare and delete, `Expire` the end of the time limit
(`lapsed` remembers it). Midnight resets what `reset_if_new_day` resets,
`Vanish` is the end of the copy's TTL in Redis, and a crash of a worker frees
its objects and leaves its token behind. The positions are the set of symbols
held, money small integers. The journal is the sequence of its OPEN and CLOSE
entries; the code keeps the last 500 (`_MAX_PERSISTED_ORDERS`), the module the
last `MaxJournal`, wherever the code cuts it: after an operation, in `persist`
and when a row is restored. So the OPEN of a position that is still held may be
forgotten. `Init` is a new user, or one with a position that has outlived the
workers.

`Commit` is an INSERT or an UPDATE. SQLAlchemy emits the columns whose value
differs from the one its own SELECT loaded, so `payload` keeps that row
(`loaded`) and `Update` decides column by column: a column that differs is set,
one that is the same stays what the table holds by now. Prices and times of
positions and entries are not modelled, so two lists that look the same here may
differ in the code, and then both outcomes are allowed; two empty ones are the
same. If the table has changed since the SELECT, which takes a request that
goes on without the lock, positions of one request and journal of another can
meet in the table: one request closes s and its lock expires; a second, which
still has the old copy, closes s too and loads the empty positions; a third
gives the lock up, opens s and commits; the COMMIT of the second then writes
only the journal, whose last entry closes the s that the table holds. The
ghosts `lapsed` (a lock has expired under its holder), `bypassed` (a request
has gone on without it) and `overwritten` (an UPDATE has met another row than it
loaded) name these causes, and the properties say that there are no others.

### MarketFeed

`connected`, `subs`, `rooms` and `recent` are the tables of `SocketManager`;
`pc` and `want` the coroutine of a connection, which waits in the middle of a
`subscribe`; `started`, `state`, `attempt`, `subscribed` the globals of
`handler.py`; `retry` and `plan` the reconnect task; `auto` the scheduler's job
between its await and its call; `tokens` the connector's set. `StartWs` is
`start_smartapi_ws`, one disjunct for each way it ends, among them the one
without a valid token, which leaves the state FAILED and no retry: the scheduler
tries again. `Delisted` are the symbols for which the instrument master may have
no token at a start, though it had one when they were noted; no other symbol is
ever unknown. The reconnect loop calls `StartWs` with `looping`, since it alone
sets the state again afterwards. The steps are larger than statements because
the event loop makes them atomic: `SocketManager`'s locks are never held across
an await. `blocked` and `Session` are the session of the broker, as its manager
sees it.

### BrokerLogin

The session with the broker in one worker: `TokenManager` and
`BrokerCircuitBreaker` of `services/token_manager.py`, and the part of
`SmartAPIConnector` that logs in, refreshes, and answers a rejected token. A
session is a number in the order in which the broker grants them, and exists in
three copies: `redis` (shared with other workers, which store and clear it:
`ElsewhereStores`, `ElsewhereClears`), `session` (`TokenManager._session`) and
`conn` (the tokens of the connector and its client). `valid` is what the broker
still accepts, `fresh` what is not near its expiry; they differ, since a token
may be revoked early. Sessions age oldest first because all live equally long.

* `mutex` is `TokenManager._mutex`, `loginLock` is
  `SmartAPIConnector._login_lock`; `login` and `_refresh_session` take them in
  that order, `_ensure_login` only the first. A section under the session lock
  is one step, because nothing else is acquired inside.
* `at[t]` holds where thread `t` is (`pc`), why (`op`: what it was asked for, or
  which retry of a fetch it is in), the method of the token manager it is in
  (`call`), the counters of the two loops (`attempt`, `fetches`), and the
  session it carries (`held`) or must put back after a failed probe (`prev`).
  The nesting is the code's: a fetch whose token is rejected refreshes, a
  refresh that raises becomes a forced login, and the fetch then goes on.
* `breaker` and the ghost `tried`, which counts logins sent since the breaker
  last closed or opened; `cooldown`, `failures` and `suspended` are the token
  manager's cooldown and the connector's suspension.
* Times are not numbers: the breaker's time, the cooldown and the window of
  authentication failures may be over at any step. `fetch` stands for
  `fetch_history` and the other requests with the same retries.

Left out of it: `_manual_relogin_required`, which nothing in the application
sets to true; `persist_session_sync`, which has no caller; the termination of a
session at shutdown; Redis' local fallback and malformed payloads; and the
restart of a worker, which begins with the states `Init` and
`ElsewhereStores` describe.

### LoginBreaker

The abstract specification of the login breaker: the transitions that the
docstring of `BrokerCircuitBreaker` lists, taken by one client that logs in, waits
for the answer and lets the breaker know of it. It has no threads, no mutex and
no cooldown. `BrokerLogin` instantiates it with the breaker's fields, its ghost
`tried` and "some thread has sent a login" (`Breaker`) and claims
`KeepsBreaker == Breaker!Spec`. That is more than the class does by itself:
`can_attempt` and `record_failure` are separate calls with a request in
between, and in HALF_OPEN `can_attempt` says yes to everybody. The abstract
specification forbids a second login before the first is answered, an answer
that opens or closes the breaker twice, and a breaker that closes without one.

### OrderLifecycle

The abstract specification of an order: only `orders.status` and the rows of
`order_states`, no threads, sessions or workers. An order is executed at most
once for each confirmation, and an execution has at most one outcome. Overlapping
confirmations are allowed, since the code allows them (see the findings); what
the abstraction forbids is an execution nobody confirmed, a second outcome, a
status without its log row, or a row that goes away. `Record` says what a
session does with the status: it writes the last state it logged, unless it
believes the column to hold it already, which is possible only if another
session has logged that state. `OrderRouter` instantiates the module with its
own `status` and `log` (`Lifecycle == INSTANCE OrderLifecycle WITH ...`)
and claims `Implements == Lifecycle!Spec`: every commit of a session is a step of
it and everything else stutters.

### Executors

The executor of one user in one worker, and its risk manager. A thread comes in
with a completed candle (`OnCandle`) or from a route (`Ask`) and goes through
the exits (`Held`, `Exits`, `CloseRead`, `Delete`, `CountRead`, `CountWrite`,
`Limit`, `Forget`), then through the entry (`Recheck`, `Evaluate`, `Execute`,
`Opened`, `Rearm`). Between two of these another thread may run: each is a query,
a commit or a group of assignments that nothing can tell apart; `max()` in
`on_trade_closed` is where a lost update happens, so it is two steps.

* `risk` is the manager. Its day is only current or past; its capital is `fine`,
  `loss` (at the limit of the day) or `poor` (at the minimum balance), because
  `can_trade` tells nothing else apart. A close changes it to anything.
* `positions` are the rows: none, open, or netted to a quantity of zero, which
  `has_position` does not count and `close_position` does.
* `late` is a ghost: trades opened since the manager halted.
* `Elsewhere` is whoever else trades for the user: `/confirm`, the other
  executor, the other worker. `Crash` starts a worker with a new manager, since
  `load_from_db` has no caller.

The two executors that two threads can create at the same time
(`get_executor`), and the one of `live_executor.py`, which has the same gate
and no exits that run, are left out.

### BrokerSession

The Upstox session and the broker router, in one worker: `row` is the row of
`broker_sessions`, which other workers save, drop and mark (`Elsewhere`);
`status` and `token` what `BrokerSessionManager` holds in memory; `active`,
`open`, `conn` and the ghost `failed` the router with its breakers. A thread's
call (`Plan`, `Ask`, `Create`, `Read`, `AnswerOK`, `AnswerFails`, `GiveUp`)
tries the active broker, then the other, then a fresh Upstox connector past the
router if the last failure was an authentication failure. Every call first meets
the check for a blocked router (`Enter`), which `login` and `ensure_login` pass.
The calls differ in how they end, and `call` says which one it is: `ensure` is
the first call of a module that has a connector (`get_connector`; which call
that is is left open, so there may be any number), `data` any later one, `login`
the forced login of `regen_token`, which the scheduler and `bundle_service.py`
run in a thread and which has no fallback (`broker_router.py:195`), `subscribe`
the stream, `unsubscribe` the end of a subscription, which falls back after any
failure. The event loop serves the OAuth callback (`CommitSave`, `Saved`,
`Apply`), the disconnect (`CommitDisconnect`, `CloseConnector`, `Forget`) and
the start-up (`Boot`, `ValidateOK`, `ValidateFails`, `Start`). Several things
the code suggests do not happen and have no action: data calls run in threads
only, where `mark_token_expired_db` finds no loop to be scheduled on;
`refresh_session` of the router has no caller (`login` has); a failure of the
network while a token is validated counts as a rejected token.

### JobLock

One job of the scheduler in every worker. `phase` is the time since its last
scheduled time, so no clock grows; `Elapse` lets time pass for the lock, for who
asks for it and for the two seconds in which no new connection is tried. `Fire`
and `Misfire` are APScheduler's start within or after the grace time; `Acquire`,
`Refuse` and `AcquireRaises` the three answers of `distributed_job_lock` (it
lets the job run when Redis fails); `AttemptFails` the attempts of
`_run_job_with_retry`. `client`, `tried` and `degraded` are the asyncio client
and the degraded mode, `inside` a thread that has looked at the mode and is
calling Redis. `RedisFails` may lose the keys (`forgot`).

## Runs

| Run | Checks | Instance |
|---|---|---|
| `router_paper` | `TypeOK`, `StatusLogged`, `PositionBacked`, `PositionWithinFills` | 2 threads in 2 workers, 2 orders of sizes 1 and 2, one user and symbol, crashes |
| `router_live` | `InFlightHasOwner`, `SentOnlyAfterRecord`, `BrokerOrdersBounded`, `FilledMeansTaken`, `LiveOnlyWhenEnabled`, `InFlightResolves`, `Implements` | 2 threads in 2 workers, 1 order, 2 attempts, LIVE and PAPER settings |
| `confirm_twice` | `ConfirmedOnlyWhenPending` is violated | 2 threads |
| `unconfirmed` | `LiveNeedsConfirmation` is violated | workers started without LIVE_CONFIRMED |
| `user_requests` | `TypeOK`, `SnapshotsCoherent`, `PositionLimit`, `LockExclusive`, `TableHasOutcome` | 3 requests in 2 workers, 2 symbols, 2 operations, 2 journal entries, one midnight or crash |
| `user_failures` | `RequestReturns` | 2 requests of one worker, one symbol, 1 journal entry, Redis and the database failing at any call |
| `kill_switch` | `SharedHasSwitch` is violated | 2 requests, 1 operation, no faults |
| `feed_clients` | `TypeOK`, `RoomsMirror`, `GoneLeavesNothing`, `SubscriptionLimit`, `GivenUpWhenUnwanted`, `RetryEnds` | 2 connections of one user, 2 symbols of which one may be delisted, limit 1, 1 attempt, all faults |
| `broker_login` | `TypeOK`, `OneAtATimeUnlessCooling`, `KeepsBreaker`, `CallsReturn`, `Recovers` | a thread that fetches beside one that logs in, 2 sessions, 2 attempts in each loop, thresholds 2 |
| `broker_session` | `TypeOK`, `FailuresBounded`, `AuthFallback`, `Reconnects` | a thread that logs in or fetches and the event loop, restarts, other workers |
| `executors` | `TypeOK`, `TradesBounded`, `LossStopsTrading`, `BreachHalts`, `HeldForBars` | 2 threads, one symbol, 2 trades a day, 2 bars |
| `redis_jobs` | `TimeGivenOnce`, `LockMeansStarted`, `LeavesDegraded` | 2 workers, 2 attempts, 3 units between two times |

What they show:

* *router_paper*: `PositionBacked` and `PositionWithinFills` say what the
  lost updates of `_sync_position` cannot do: invent a direction, or hold more
  than was filled. (The exact net quantity is not preserved by the code, and
  nothing in the repository says it should be.)
* *router_live*: an order in flight has a thread that will write its outcome
  unless an execution was cut short, nothing is sent before
  PENDING_EXECUTION is committed, and the number of broker orders is bounded
  by twice the attempts of each recorded execution. `Implements` is what remains
  true of the audit log when two confirmations overlap: executions never
  outnumber confirmations, nor outcomes executions, step by step.
* *user_requests*: in every copy what is left of the journal explains the
  positions, whatever awaits lie between reading and writing it, and only an
  UPDATE over a row changed since its SELECT can break that, which takes a
  request that has done without the lock (TLC reaches such rows in this run).
  The limit holds in every copy even then. As long as no request has done
  without the lock, a commit writes the outcome of its operation although the
  object may have been overwritten in between. `LockExclusive` is what SET NX
  and the compared token give until a lock expires under its holder; after
  that the delete, which is not atomic with the comparison, may take the lock
  of the next holder, and nothing is claimed about the lock.
* *user_failures*: every request ends and every path gives back the lock of the
  manager, without which no later request of the worker would begin; a lock
  left behind in Redis is waited for and then ignored. Crashes are in
  *user_requests*: one ends the requests of its worker and would only help here.
* *feed_clients*: rooms and subscriptions stay equal through broadcasts that
  disconnect, late subscriptions of dropped clients and restored payloads.
  `GivenUpWhenUnwanted` is about one step: a connection leaves the rooms and
  gives the emptied symbols up without an await in between, so what could go
  wrong is which symbols it gives up, not when.
* *broker_login*: the threads use the breaker as one client would that waits for
  each answer (`KeepsBreaker`), so one trial is sent in HALF_OPEN although
  `can_attempt` admits every caller there, because the mutex leaves no second
  caller; the nested retries of fetch, refresh and login end;
  and whatever was revoked, cleared or suspended, the worker holds a usable
  session again. The last is checked until the broker has granted
  `MaxSessions` sessions, where the model ends.

* *broker_session*: calls that planned before a breaker opened still fail at the
  broker, one from each caller and no more; no call but the login of
  `regen_token` ends with a rejected token without Upstox having been asked past
  the router; the callback makes the router usable again, whatever a late answer
  does to the active broker. A login can undo that: one that SmartAPI answers
  makes SmartAPI active while its stored status still says TOKEN_EXPIRED, and a
  later callback helps only until the next such login. `Reconnects` therefore
  leaves open a worker in which threads log in again and again, between any two
  callbacks; in the code `regen_token` runs every morning and after a prediction
  that failed while the market is open.
* *executors*: the threads that were past the gate are the only excess over the
  limits; a win that follows a breach does not hide it; and a position whose
  count of bars entries and other closes reset is still closed in the end.
* *redis_jobs*: the lock outlasts the lateness of every worker and ends before
  the next time, so each time is given once and none is lost; a worker that lost
  Redis before it had a client finds back to it. The order of the times is an
  assumption of the module: that grace and delay together stay within the lock
  means that less than 5 of its 50 seconds pass between the start of a job and
  the answer about its lock, which the timeouts of Redis make likely and do not
  strictly enforce.

Bounds. Two threads or workers are enough for each hazard listed, all of which
are races of two; a third request in `user_requests` lets one change the object
while another holds a stale copy and a third reads. `MaxOps` bounds operations
begun and copies that vanish, `MaxEvents` midnights and crashes together: two operations of one user
suffice to lose or repeat one. `MaxAttempts` is 2 instead of 3 and `MaxRetries`
1 instead of 20: one attempt that is not the last and one that is. For the same
reason `MaxRetries` and `MaxFetches` of `BrokerLogin` are 2 instead of 3,
`BreakerThreshold` 2 instead of 5 and `AuthThreshold` 2 instead of 3: a failure
that is counted and one that opens or suspends. Two sessions are a stale one and
its successor. `MaxJournal` is 2 in `user_requests`, so that entries follow one
another and are forgotten, and 1 in `user_failures`, whose property does not
read the journal. `MaxSubscriptions` is 1 instead of 50, the least at which a
restored payload fills the limit. `attempt` of `MarketFeed` stops counting above
the limit, where the code only compares it. Order ids are handed out once, so
`OrderIds` bounds placements. In `OrderRouter` the log counts are unbounded in
principle; an order is confirmed by at most as many overlapping calls as there
are threads before its status forbids it.

`BrokerSession` has one token that Upstox grants: none of its properties tells
two tokens apart, only a token from none. In `Executors` two trades and two bars
are again one that is not the last and one that is; one instrument suffices
because the counters are common to all and the bars of each are its own. The
times of `JobLock` are the smallest in the order the code's have: a unit is at
least the two seconds of a Redis timeout, the lock of two units outlasts grace
and delay together and ends within the period. Its theorems hold for all times
in that order, so for 45, 50 and 300 seconds.

Deadlock is checked in all runs.

## Fairness

* `OrderRouter!FairSpec`: weak fairness of each thread's steps. Threads are
  scheduled by the operating system and a request to the broker or the database
  returns or times out. Calls are not fair: nobody has to confirm.
* `UserTradingState!FairSpec`: strong fairness of `Continue(c)`, because
  `asyncio.Lock` queues its waiters first come first served, so a request that
  can take the lock again and again does get it; the end of a handler is one of
  its steps. Nothing forces a lock in Redis to expire: a request ends because
  the acquisition loop gives up.
* `MarketFeed!FairSpec`: weak fairness of the reconnect task and of the
  scheduler's job, which the event loop runs when they are ready. Clients, the
  session and the success of a start are not fair.
* `BrokerLogin!FairSpec`: strong fairness of `RunsOn(t)`: a thread in a call
  goes on whenever it can. It has to be strong because two threads compete for
  the mutex; a `threading.Lock` promises no order, but between two turns at it a
  thread is away for whole requests to the broker, and the other one wakes up.
  `CallsReturn` needs this alone. `Recovers` is conditional on the world as well
  (`Served`): the clock runs, data is asked for again and again, and of the
  logins that are tried again and again some are sent and some are granted.
  Without those a broker that is down for ever is a session that never comes
  back.
* `BrokerSession!FairSpec`: weak fairness of the call of each thread: the
  operating system runs threads that can go on. Strong fairness of the steps of
  the event loop (its call, its requests, the start-up): it competes with the
  threads for the router's lock, which they hold for a query at a time and are
  away from for whole requests. Strong fairness of the callback: somebody
  authorises Upstox again and again, without which a token that has expired
  stays so.
* `Executors!FairSpec`: weak fairness of each thread's steps; strong fairness of
  candles: every symbol trades again and again, and a thread is free again and
  again to be given the candle. Exceptions, other traders and crashes are free;
  `HeldForBars` is therefore conditional on them ending.
* `JobLock!FairSpec`: weak fairness of time; of the answer about the lock and of
  an attempt, since calls of Redis time out and `wait_for` ends an attempt;
  strong fairness of `Fire`: a worker may be late for a time but not for every
  one.

## Proofs

`OrderRouterProofs` proves for any threads, workers, users, symbols, orders,
sizes, settings and attempts: `TypeCorrect`, `Owner` (`InFlightHasOwner`),
`Audited` (`StatusLogged`), `RecordedFirst` (`SentOnlyAfterRecord`),
`FilledTaken` (`FilledMeansTaken`), `Backed` (`PositionBacked`), `Enabled`
(`LiveOnlyWhenEnabled`) and `Invariance` (`IInv`). The inductive invariant
`IInv` is needed because none of these says what a thread carries: `ThreadInv`
records what a thread has established by the point where it stands (its order
exists, it passed the gate under this mode, PENDING_EXECUTION is logged, the
broker took the order), `TableInv` ties a missing row to an empty log, and
`OwnerInv` strengthens "some thread is executing" to "some thread will write
an outcome that takes effect": a thread that loaded the order before another
one wrote FILLED flushes no status, so merely executing is not enough. The
proof has a step per action and, under it, one per conjunct it disturbs. It
assumes `ConstantsAssumption` and `RowAssumption` only.

Two bounds need invariants of their own, which `BoundsInvariance` proves on top
of `IInv`; they count with sets, not with numbers, so that a step adds a set of
known size or takes one away.

* `RequestBound` (`BrokerOrdersBounded`). A thread in its loop may still send
  `Spare(t)` requests: two for each attempt it has left, one less once it has
  sent the first of an attempt. `RequestInv` says that the orders the broker has
  taken and the requests to come (`Requests(o)`) stay within twice the attempts
  of the executions logged. Only the commit of PENDING_EXECUTION adds requests,
  and the log grows with it; a request the broker takes moves from one side to
  the other. It needs `ThreadsAssumption`: finitely many threads.
* `FillBound` (`PositionWithinFills`). `FilledUnits(k)` is the set of units that
  were filled for a user and symbol. `FillsInv` bounds by it not only the row but
  also what a thread has loaded and is about to add to: a row that is stale was a
  row once, and units are never taken back. So an update may be lost but none is
  counted twice.

`MarketFeedProofs` proves for any clients, users, symbols and limits:
`TypeCorrect`, `Mirror` (`RoomsMirror`), `Gone` (`GoneLeavesNothing`), `Limit`
(`SubscriptionLimit`) and `GivenUp` (`GivenUpWhenUnwanted`). `RoomsMirror` and
`GoneLeavesNothing` are inductive only together: a new connection writes both
sides for the restored symbols alone, so they agree afterwards because its
predecessor left no room behind, and that holds because both sides agreed when
it was removed. The limit needs the same bound on the payloads that wait to be
restored, and that symbols are finite.

`BrokerLoginProofs` proves for any threads, calls, sessions, attempts and
thresholds: `TypeCorrect`, `CriticalSection` (`OneAtATimeUnlessCooling`),
`Refinement` (`KeepsBreaker`), `BreakerBound` and `Invariance` (`IInv`). By itself
the breaker lets every caller through in HALF_OPEN. `IInv` therefore adds `Own`,
which says that whoever is in a critical phase holds the mutex and that there is
no cooldown meanwhile, and `Counted`, which relates the logins sent to the
failures counted and to the one login whose answer is still out. With it each
step of a thread is a step of the abstract breaker or a stutter
(`BreakerMoves`), and the logins the breaker's state allows are bounded: the
threshold while CLOSED, one in HALF_OPEN, none while OPEN (`LoginsBounded`, which
is not a property of a run because `KeepsBreaker` says more). Both results
rest on a mutex that belongs to another class. The module
assumes `ThreadsAssumption` and `BoundsAssumption`.

`OrderLifecycleProofs` proves for any threads, workers, users, symbols, orders,
sizes, settings and attempts `Refinement` (`Implements`), on top of
`OrderRouterProofs`. The router's own invariant does not suffice: the
abstraction counts log rows, so `CountInv` relates them to the threads on the
way (confirmed but not yet recorded as executing; executing but without an
outcome) by cardinalities, and `SeenInv` and `PlacedInv` say that whatever a
session has loaded has been logged. Each action of a thread then is one of the
abstract steps, or a stutter. It needs one more assumption,
`ThreadsAssumption`: there are finitely many threads. What the lifecycle bounds
is stated as well: `Executions` (no more executions than confirmations, no more
outcomes than executions) and `Confirmed`, which joins it to `RequestBound`: the
broker takes at most twice `MaxAttempts` orders for each confirmation.

`UserTradingStateProofs` proves for any workers, requests, symbols and limits
`TypeCorrect`, `Coherence` (`SnapshotsCoherent`), `Limit` (`PositionLimit`),
`Exclusion` (`LockExclusive`) and `Outcome` (`TableHasOutcome`). The argument is
that each copy is good by itself: it was made from a good one by an operator
that keeps journal, positions and limit together, or handed on whole, so it does
not matter which copy replaces which. That a journal cut to its last entries is
still coherent is a lemma of its own. Only the UPDATE makes a row out of parts
of two, so coherence is kept until a row is `overwritten`; the limit is kept all
the same, because the positions are one column, and needs no lock. `LockInv`
says that who was given the lock finds its token there until it expires, so that
while nobody does without it one request at a time is between SELECT and COMMIT
and `TableInv` follows: the table still holds what that request has loaded, and
a column that is not set holds the payload's value already. `OutcomeInv` adds
that what waits to be committed has the outcome of its operation.

`ExecutorsProofs` proves for any threads, symbols and limits `TypeCorrect`,
`DayLimit` (`TradesBounded`), `HaltStops` (`LossStopsTrading`) and `LossHalts`
(`BreachHalts`). The three are inductive together with the types, once it is
seen that whoever halts the manager is not itself past the gate, which leaves
one place free among those who are (`OneOutside`), and that the gate never lets
anybody pass in the step in which it halts (`GateFacts`).

`JobLockProofs` proves for any workers and all times in the assumed order
`JobTimeGivenOnce` (`TimeGivenOnce`) and `JobLockMeansStarted`
(`LockMeansStarted`). The invariant is about time: a worker asks no later than
grace and delay after the scheduled time (`AskedInTime`), so a lock given in
this period outlasts all who ask and ends before the next one (`LockTimes`).
`ConstantsAssumption` is that order, and it is real: the job that restarts the
stream every minute violates it (see below).

`BrokerSessionProofs` proves for any threads and tokens `TypeCorrect`,
`BreakerBound` (`FailuresBounded`), `Fallback` (`AuthFallback`) and `Invariance`
(`IInv`). A breaker bounds nothing for the calls that have passed it, so
`BreakerInv` counts them: the failures of a broker since its breaker last closed
and the calls still under way at it (`UnderWay`) together are no more than the
processes, and a closed breaker has counted nothing. `FrameInv` says that a
frame that asks a broker names one and that only a routed call carries a
failure; without it "the broker this call asks" means nothing. `Fallback` is an
action property: a call that ends while it carries a rejected token ends with an
answer of the broker it asked, never at the point where it would be given up;
it excepts the router's `login`, which the code gives up there.
The module assumes `ProcsAssumption` and `TokensAssumption`.

Each strengthening (`IInv`, `CountInv`, `RequestInv`, `FillsInv`, `FrameInv`,
`BreakerInv` and so on) was checked by TLC on the instance of the module's run
before it was proved.

Every invariant and every action property of the passing runs is a theorem.
What TLC checks and no proof covers is liveness: `InFlightResolves`,
`RequestReturns`, `RetryEnds`, `CallsReturn`, `Recovers`, `Reconnects`,
`HeldForBars` and `LeavesDegraded` rest on fairness, hence on ENABLED, which is
out of the prover's reach.

## What the checks found

Each of the first three is a run that must find its property violated;
`PROJECT.json` quotes the line of the repository that says otherwise.

* Two overlapping confirmations execute one order twice (`confirm_twice`).
* The second `get_executor` of a worker undoes the downgrade to PAPER, and an
  order goes to the broker without `LIVE_CONFIRMED` (`unconfirmed`).
* A request that merely reads the user state undoes a kill switch that is
  being persisted (`kill_switch`).

The models allow these as well, and no run is kept for them:

* Two overlapping placements both pass the duplicate guard
  (`connectors/order_router.py:151-174`), and both orders are executed.
* A symbol whose start failed counts as subscribed and is not asked of the
  broker again (`websocket/handler.py:593-604`).
* A failed incremental subscription leaves the feed in RECONNECTING while the
  stream counts as started, so the loop ends and the scheduler does nothing
  (`handler.py:616-623`, `services/scheduler.py:140`).
* A login or an answer that succeeds makes a broker active whose stored status
  still says TOKEN_EXPIRED, and the router then refuses to ask it
  (`connectors/broker_router.py:100-113`, `:145`), until the next callback.
* Two requests that do without the lock leave positions of one and journal of
  the other in the table (`trading/user_state.py:593-608`).
* A job that takes longer than the lock lives runs in one worker for one time
  and in the other for the next: the lock is about times, not about running
  ("runs on only one microservice instance", `services/redis_client.py:189`).
* A failure in a thread degrades a worker whose asyncio client stays open: no
  call opens a client again and the mode ends with the worker
  (`redis_client.py:163`).
* `auto_start_ws_job` is due every minute; with 45 seconds of grace and a lock of
  50, a lock that is taken late takes the next time from the other worker too.

## What is not modelled, and why

`PROJECT.json` gives a status and a reason for each component. Left out are

* the startup phases: one task runs them in sequence before anything else does,
  and what a restart finds is in the modules of the components it starts;
* candles, indicators, inference, strategy, model training, the C++ engine:
  numerical code over data frames. To the modelled parts a signal is an input
  that may come at any time;
* the order proxy, the trade log, accounts and their tokens, lookups and caches
  of derived market data: sequential code over one row or file, without state
  that the modelled components share;
* `src/services`, which repeats the backend as separate services and is not what
  the entry point starts; the frontend and the infrastructure.

The greater part of the repository's lines is in the second and the last of
these, so the share of lines the modules stand for is small, and modelling what
remains of the trading core would not change that much.

Within the modelled components, prices, reasons, timestamps and log lines are
left out, and money appears only where a limit compares it. So are the tick
path and the relay between workers in `MarketFeed`, the second executor object
of a race in `get_executor`, the values of the cache, and what a route does after
one of several calls has failed.
