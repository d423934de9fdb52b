--------------------------- MODULE UserTradingState ---------------------------
(***************************************************************************)
(* The trading state of one user: backend/app/trading/user_state.py.       *)
(*                                                                         *)
(* Every worker process caches a UserTradingState object; Redis holds a    *)
(* copy of it that all workers share, and the user_trading_state table a   *)
(* part of it (no halted flag, no daily counters).  A request is a         *)
(* coroutine: get_state first, then perhaps one operation on the object it *)
(* got.  Coroutines of a worker interleave at every await, and each await  *)
(* of Redis or the database is a step here.                                *)
(***************************************************************************)
EXTENDS Integers, Sequences, FiniteSets

CONSTANTS
    Workers,        \* worker processes
    Calls,          \* requests that can be in progress at a time
    WorkerOf,       \* the worker that serves a request
    Objects,        \* UserTradingState objects there can be at a time
    Symbols,
    Pnls,           \* profits a closed position may make
    Capital,        \* starting capital
    MinBalance,     \* MIN_ACCOUNT_BALANCE
    LossLimit,      \* the daily loss at which trading stops
    MaxTrades,      \* MAX_TRADES_PER_DAY
    MaxPositions,   \* MAX_CONCURRENT_POSITIONS
    MaxJournal,     \* _MAX_PERSISTED_ORDERS
    TradingEnabled, \* TRADING_ENABLED
    RedisFails,     \* may calls of Redis fail?
    DatabaseFails,  \* may sessions of the database fail?
    MaxOps,         \* bound: operations begun, and copies that vanish
    MaxEvents,      \* bound: midnights and crashes of workers
    None,           \* no object, no row, no value, no holder
    Lost            \* the token of a request that is gone

ASSUME ConstantsAssumption ==
    /\ WorkerOf \in [Calls -> Workers]
    /\ Pnls \subseteq Int
    /\ Capital \in Nat /\ MinBalance \in Nat /\ LossLimit \in Nat
    /\ MaxTrades \in Nat /\ MaxPositions \in Nat
    /\ MaxJournal \in Nat \ {0}
    /\ TradingEnabled \in BOOLEAN /\ RedisFails \in BOOLEAN
    /\ DatabaseFails \in BOOLEAN
    /\ MaxOps \in Nat /\ MaxEvents \in Nat

\* The journal, in the order of its entries; it forgets the oldest.
Event == [event : {"OPEN", "CLOSE"}, symbol : Symbols]
Journal == {j \in Seq(Event) : Len(j) <= MaxJournal}
State == [held : SUBSET Symbols, journal : Journal, capital : Int,
          daily : Int, trades : Nat, halted : BOOLEAN, day : Nat]
Row == [held : SUBSET Symbols, journal : Journal, capital : Int]
Payload == [row : Row, loaded : Row \cup {None}]

Operation == [kind : {"open"}, symbol : Symbols]
             \cup [kind : {"close"}, symbol : Symbols, pnl : Pnls]
             \cup [kind : {"halt"}, on : BOOLEAN]

ASSUME NoneAssumption ==
    /\ None \notin State \cup Row \cup Payload \cup Operation
    /\ None \notin Calls \cup Objects \cup {Lost}
    /\ Lost \notin Calls

VARIABLES
    today,
    shared,     \* Redis: the copy of the state under stockai:user_state
    lock,       \* Redis: whose token stockai:lock:user_state holds
    lapsed,     \* has the lock expired on a request that still held it?
    bypassed,   \* has a request gone on without the lock?
    saved,      \* the row of user_trading_state
    overwritten,\* has an UPDATE met another row than its SELECT had loaded?
    current,    \* TradingManager._states of each worker
    manager,    \* who holds TradingManager._lock of a worker
    objs,       \* the objects
    busy,       \* who holds the _lock of an object
    pc,         \* where each request is
    obj,        \* the object the request works on
    op,         \* the operation it performs
    acquired,   \* did redis_lock yield True?
    got,        \* the value a Redis read has returned
    payload,    \* what persist is about to write
    value,      \* what sync_to_redis is about to write
    ops, crashes

redis == <<shared, lock, lapsed, bypassed>>
table == <<saved, overwritten>>
locals == <<pc, obj, op, acquired, got, payload, value>>
vars == <<today, redis, table, current, manager, objs, busy, locals, ops,
          crashes>>

PCs == {"idle", "load", "insert", "fetchState", "applyState", "ready",
        "lock", "fetch", "apply", "enter", "select", "commit", "put",
        "release", "delete", "forget"}

TypeOK ==
    /\ today \in Nat
    /\ shared \in State \cup {None}
    /\ lock \in Calls \cup {None, Lost}
    /\ lapsed \in BOOLEAN /\ bypassed \in BOOLEAN /\ overwritten \in BOOLEAN
    /\ saved \in Row \cup {None}
    /\ current \in [Workers -> Objects \cup {None}]
    /\ manager \in [Workers -> Calls \cup {None}]
    /\ objs \in [Objects -> State \cup {None}]
    /\ busy \in [Objects -> Calls \cup {None}]
    /\ pc \in [Calls -> PCs]
    /\ obj \in [Calls -> Objects \cup {None}]
    /\ op \in [Calls -> Operation \cup {None}]
    /\ acquired \in [Calls -> BOOLEAN]
    /\ got \in [Calls -> State \cup {None}]
    /\ payload \in [Calls -> Payload \cup {None}]
    /\ value \in [Calls -> State \cup {None}]
    /\ ops \in Nat /\ crashes \in Nat

EmptyRow == [held |-> {}, journal |-> <<>>, capital |-> Capital]

\* A new UserTradingState.
Fresh(d) ==
    [held |-> {}, journal |-> <<>>, capital |-> Capital,
     daily |-> 0, trades |-> 0, halted |-> FALSE, day |-> d]

-----------------------------------------------------------------------------
(***************************************************************************)
(* The object.                                                             *)
(***************************************************************************)

\* trade_journal[-_MAX_PERSISTED_ORDERS:]
Latest(j) ==
    IF Len(j) <= MaxJournal THEN j
    ELSE SubSeq(j, Len(j) - MaxJournal + 1, Len(j))

\* apply_persisted_payload on a new object: what the row does not hold is lost.
Restored(r) ==
    [Fresh(today) EXCEPT !.held = r.held, !.journal = Latest(r.journal),
                         !.capital = IF r.capital > 0 THEN r.capital ELSE 0]

\* reset_if_new_day
NewDay(x) ==
    IF x.day = today THEN x
    ELSE [x EXCEPT !.daily = 0, !.trades = 0, !.halted = FALSE, !.day = today]

\* can_trade in the order of its checks, after the reset.
LimitHit(x) ==
    \/ x.halted
    \/ ~TradingEnabled
    \/ x.daily <= -LossLimit
    \/ x.trades >= MaxTrades
    \/ Cardinality(x.held) >= MaxPositions

CanTrade(x) == ~LimitHit(NewDay(x)) /\ NewDay(x).capital > MinBalance

\* The object after can_trade: a balance below the minimum halts it.
Checked(x) ==
    LET y == NewDay(x) IN
    [y EXCEPT !.halted = @ \/ (~LimitHit(y) /\ y.capital <= MinBalance)]

Logged(x, e, s) == Latest(Append(x.journal, [event |-> e, symbol |-> s]))

Opened(x, s) ==
    [Checked(x) EXCEPT !.held = @ \cup {s}, !.journal = Logged(x, "OPEN", s)]

\* Mutant: the position stays when it is closed.
Closed_Kept(x, s, pnl) ==
    [x EXCEPT !.journal = Logged(x, "CLOSE", s),
              !.daily = @ + pnl, !.capital = @ + pnl, !.trades = @ + 1]

Closed(x, s, pnl) ==
    [x EXCEPT !.held = @ \ {s}, !.journal = Logged(x, "CLOSE", s),
              !.daily = @ + pnl, !.capital = @ + pnl, !.trades = @ + 1]

\* Mutant: the whole object is written to the table.
RowOf_Whole(x) == x

RowOf(x) ==
    [held |-> x.held, journal |-> Latest(x.journal), capital |-> x.capital]

\* A new user, or one who left the workers with a position open.
Outlived ==
    {Opened(Fresh(today), s) : s \in {p \in Symbols : CanTrade(Fresh(today))}}

Init ==
    /\ today = 0
    /\ \/ saved = None /\ shared = None
       \/ \E x \in Outlived : saved = RowOf(x) /\ shared = x
    /\ lock = None /\ lapsed = FALSE /\ bypassed = FALSE
    /\ overwritten = FALSE
    /\ current = [w \in Workers |-> None]
    /\ manager = [w \in Workers |-> None]
    /\ objs = [o \in Objects |-> None]
    /\ busy = [o \in Objects |-> None]
    /\ pc = [c \in Calls |-> "idle"]
    /\ obj = [c \in Calls |-> None]
    /\ op = [c \in Calls |-> None]
    /\ acquired = [c \in Calls |-> FALSE]
    /\ got = [c \in Calls |-> None]
    /\ payload = [c \in Calls |-> None]
    /\ value = [c \in Calls |-> None]
    /\ ops = 0 /\ crashes = 0

\* Nothing the coroutine still works on.
Clear(c) ==
    /\ obj' = [obj EXCEPT ![c] = None]
    /\ op' = [op EXCEPT ![c] = None]
    /\ got' = [got EXCEPT ![c] = None]
    /\ payload' = [payload EXCEPT ![c] = None]
    /\ value' = [value EXCEPT ![c] = None]

\* The coroutine ends.
Return(c) ==
    /\ pc' = [pc EXCEPT ![c] = "idle"]
    /\ acquired' = [acquired EXCEPT ![c] = FALSE]
    /\ Clear(c)

Goto(c, from, to) == pc[c] = from /\ pc' = [pc EXCEPT ![c] = to]

-----------------------------------------------------------------------------
(***************************************************************************)
(* get_state and remove_state, under TradingManager._lock.                 *)
(***************************************************************************)

TakeManager(c) ==
    LET w == WorkerOf[c] IN
    /\ manager[w] = None
    /\ manager' = [manager EXCEPT ![w] = c]
    /\ obj' = [obj EXCEPT ![c] = current[w]]
    /\ Goto(c, "idle", IF current[w] = None THEN "load" ELSE "fetchState")
    /\ UNCHANGED <<today, redis, table, current, objs, busy, op, acquired, got,
                   payload, value, ops, crashes>>

\* A new object becomes the state of the worker.
Create(c, x) ==
    \E o \in Objects :
        /\ \A w \in Workers : current[w] # o
        /\ \A d \in Calls : obj[d] # o
        /\ objs' = [objs EXCEPT ![o] = x]
        /\ current' = [current EXCEPT ![WorkerOf[c]] = o]
        /\ obj' = [obj EXCEPT ![c] = o]

LoadRow(c) ==
    /\ Goto(c, "load", "fetchState")
    /\ saved # None
    /\ Create(c, Restored(saved))
    /\ UNCHANGED <<today, redis, table, manager, busy, op, acquired, got,
                   payload, value, ops, crashes>>

NoRow(c) ==
    /\ Goto(c, "load", "insert")
    /\ saved = None
    /\ UNCHANGED <<today, redis, table, current, manager, objs, busy, obj, op,
                   acquired, got, payload, value, ops, crashes>>

\* The baseline row, unless another worker has inserted one.
InsertRow(c) ==
    /\ Goto(c, "insert", "fetchState")
    /\ saved' = IF saved = None THEN EmptyRow ELSE saved
    /\ UNCHANGED overwritten
    /\ Create(c, Fresh(today))
    /\ UNCHANGED <<today, redis, manager, busy, op, acquired, got, payload,
                   value, ops, crashes>>

\* The database fails: an object with the defaults.
BootstrapFails(c) ==
    /\ DatabaseFails
    /\ pc[c] \in {"load", "insert"}
    /\ pc' = [pc EXCEPT ![c] = "fetchState"]
    /\ Create(c, Fresh(today))
    /\ UNCHANGED <<today, redis, table, manager, busy, op, acquired, got,
                   payload, value, ops, crashes>>

\* The GET of sync_from_redis; an error is logged and leaves nothing to apply.
Fetch(c, from, to) ==
    /\ Goto(c, from, to)
    /\ \/ got' = [got EXCEPT ![c] = shared]
       \/ RedisFails /\ UNCHANGED got
    /\ UNCHANGED <<today, redis, table, current, manager, objs, busy, obj, op,
                   acquired, payload, value, ops, crashes>>

\* sync_from_redis resumes: a value replaces the whole object.
Synced(c) == IF got[c] = None THEN objs[obj[c]] ELSE got[c]

ApplyState(c) ==
    /\ Goto(c, "applyState", "ready")
    /\ objs' = [objs EXCEPT ![obj[c]] = Synced(c)]
    /\ got' = [got EXCEPT ![c] = None]
    /\ manager' = [manager EXCEPT ![WorkerOf[c]] = None]
    /\ UNCHANGED <<today, redis, table, current, busy, obj, op, acquired,
                   payload, value, ops, crashes>>

\* can_trade of a route or of get_summary.
CheckTrade(c) ==
    /\ pc[c] = "ready"
    /\ objs' = [objs EXCEPT ![obj[c]] = Checked(@)]
    /\ UNCHANGED <<today, redis, table, current, manager, busy, locals, ops,
                   crashes>>

Finish(c) ==
    /\ pc[c] = "ready"
    /\ Return(c)
    /\ UNCHANGED <<today, redis, table, current, manager, objs, busy, ops,
                   crashes>>

Remove(c) ==
    /\ ops < MaxOps
    /\ ops' = ops + 1
    /\ manager[WorkerOf[c]] = None
    /\ manager' = [manager EXCEPT ![WorkerOf[c]] = c]
    /\ current' = [current EXCEPT ![WorkerOf[c]] = None]
    /\ Goto(c, "idle", "forget")
    /\ UNCHANGED <<today, redis, table, objs, busy, obj, op, acquired, got,
                   payload, value, crashes>>

Forget(c) ==
    /\ pc[c] = "forget"
    /\ shared' = None \/ (RedisFails /\ UNCHANGED shared)
    /\ manager' = [manager EXCEPT ![WorkerOf[c]] = None]
    /\ Return(c)
    /\ UNCHANGED <<today, lock, lapsed, bypassed, table, current, objs, busy,
                   ops, crashes>>

-----------------------------------------------------------------------------
(***************************************************************************)
(* redis_lock: SET NX PX, tried fifty times; without it the operation goes *)
(* on all the same.                                                        *)
(***************************************************************************)

Begin(c, p) ==
    /\ ops < MaxOps
    /\ ops' = ops + 1
    /\ Goto(c, "ready", "lock")
    /\ op' = [op EXCEPT ![c] = p]
    /\ UNCHANGED <<today, redis, table, current, manager, objs, busy, obj,
                   acquired, got, payload, value, crashes>>

\* Mutant: SET without NX.
AcquireLock_NoNX(c) ==
    /\ Goto(c, "lock", "fetch")
    /\ lock' = c
    /\ acquired' = [acquired EXCEPT ![c] = TRUE]
    /\ UNCHANGED <<today, shared, lapsed, bypassed, table, current, manager,
                   objs, busy, obj, op, got, payload, value, ops, crashes>>

AcquireLock(c) ==
    /\ Goto(c, "lock", "fetch")
    /\ lock = None
    /\ lock' = c
    /\ acquired' = [acquired EXCEPT ![c] = TRUE]
    /\ UNCHANGED <<today, shared, lapsed, bypassed, table, current, manager,
                   objs, busy, obj, op, got, payload, value, ops, crashes>>

\* Mutant: the attempts never end.
GiveUp_Never(c) ==
    /\ Goto(c, "lock", "lock")
    /\ UNCHANGED <<today, redis, table, current, manager, objs, busy, obj, op,
                   acquired, got, payload, value, ops, crashes>>

\* Fifty attempts in vain, or no Redis; the last one may have set the key.
GiveUp(c) ==
    /\ Goto(c, "lock", "fetch")
    /\ lock # None \/ RedisFails
    /\ lock' = lock \/ (lock = None /\ lock' = Lost)
    /\ bypassed' = TRUE
    /\ UNCHANGED <<today, shared, lapsed, table, current, manager, objs, busy,
                   obj, op, acquired, got, payload, value, ops, crashes>>

\* The with block is left: the coroutine ends unless it has to release.
Leave(c) ==
    /\ pc' = [pc EXCEPT ![c] = IF acquired[c] THEN "release" ELSE "idle"]
    /\ Clear(c)
    /\ UNCHANGED acquired

Release(c) ==
    /\ Goto(c, "release", "delete")
    /\ lock = c
    /\ UNCHANGED <<today, redis, table, current, manager, objs, busy, obj, op,
                   acquired, got, payload, value, ops, crashes>>

NotMine(c) ==
    /\ pc[c] = "release"
    /\ lock # c
    /\ Return(c)
    /\ UNCHANGED <<today, redis, table, current, manager, objs, busy, ops,
                   crashes>>

\* The DEL that follows the GET, whoever holds the lock by now.
Delete(c) ==
    /\ pc[c] = "delete"
    /\ lock' = None
    /\ Return(c)
    /\ UNCHANGED <<today, shared, lapsed, bypassed, table, current, manager,
                   objs, busy, ops, crashes>>

\* The GET or the DEL fails; a DEL may have been carried out.
ReleaseFails(c) ==
    /\ RedisFails
    /\ pc[c] \in {"release", "delete"}
    /\ \/ lock' = IF lock = c THEN Lost ELSE lock
       \/ pc[c] = "delete" /\ lock' = None
    /\ Return(c)
    /\ UNCHANGED <<today, shared, lapsed, bypassed, table, current, manager,
                   objs, busy, ops, crashes>>

\* The ten seconds of the lock are over.
Expire ==
    /\ lock # None
    /\ lock' = None
    /\ lapsed' = (lapsed \/ lock \in Calls)
    /\ UNCHANGED <<today, shared, bypassed, table, current, manager, objs,
                   busy, locals, ops, crashes>>

-----------------------------------------------------------------------------
(***************************************************************************)
(* open_position, close_position and toggle_kill_switch.  The first two    *)
(* take the lock of the object, the third does not.                        *)
(***************************************************************************)

\* The object as the operation finds it.
Entry(c) == IF pc[c] = "apply" THEN Synced(c) ELSE objs[obj[c]]

LockFetch(c) == Fetch(c, "fetch", "apply")

Wait(c) ==
    /\ Goto(c, "apply", "enter")
    /\ op[c].kind # "halt"
    /\ busy[obj[c]] # None
    /\ objs' = [objs EXCEPT ![obj[c]] = Synced(c)]
    /\ got' = [got EXCEPT ![c] = None]
    /\ UNCHANGED <<today, redis, table, current, manager, busy, obj, op,
                   acquired, payload, value, ops, crashes>>

CanEnter(c, kind) ==
    /\ pc[c] \in {"apply", "enter"}
    /\ op[c].kind = kind
    /\ busy[obj[c]] = None

RefuseOpen(c) ==
    LET x == Entry(c) IN
    /\ CanEnter(c, "open")
    /\ ~CanTrade(x) \/ op[c].symbol \in x.held
    /\ objs' = [objs EXCEPT ![obj[c]] = Checked(x)]
    /\ Leave(c)
    /\ UNCHANGED <<today, redis, table, current, manager, busy, ops, crashes>>

RefuseClose(c) ==
    /\ CanEnter(c, "close")
    /\ op[c].symbol \notin Entry(c).held
    /\ objs' = [objs EXCEPT ![obj[c]] = Entry(c)]
    /\ Leave(c)
    /\ UNCHANGED <<today, redis, table, current, manager, busy, ops, crashes>>

\* The object becomes x; persist reads positions and journal, and waits.
Persist(c, x) ==
    /\ objs' = [objs EXCEPT ![obj[c]] = x]
    /\ payload' = [payload EXCEPT ![c] = [row |-> RowOf(x), loaded |-> None]]
    /\ got' = [got EXCEPT ![c] = None]
    /\ pc' = [pc EXCEPT ![c] = "select"]
    /\ UNCHANGED <<today, redis, table, current, manager, obj, op, acquired,
                   value, ops, crashes>>

\* Mutant: the position is taken before it is asked whether it may be.
OpenPosition_Unchecked(c) ==
    /\ CanEnter(c, "open")
    /\ op[c].symbol \notin Entry(c).held
    /\ busy' = [busy EXCEPT ![obj[c]] = c]
    /\ Persist(c, Opened(Entry(c), op[c].symbol))

OpenPosition(c) ==
    LET x == Entry(c) IN
    /\ CanEnter(c, "open")
    /\ CanTrade(x) /\ op[c].symbol \notin x.held
    /\ busy' = [busy EXCEPT ![obj[c]] = c]
    /\ Persist(c, Opened(x, op[c].symbol))

ClosePosition(c) ==
    LET x == Entry(c) IN
    /\ CanEnter(c, "close")
    /\ op[c].symbol \in x.held
    /\ busy' = [busy EXCEPT ![obj[c]] = c]
    /\ Persist(c, Closed(x, op[c].symbol, op[c].pnl))

ToggleKillSwitch(c) ==
    /\ pc[c] = "apply"
    /\ op[c].kind = "halt"
    /\ Persist(c, [Synced(c) EXCEPT !.halted = op[c].on])
    /\ UNCHANGED busy

\* Mutant: positions and journal are read when the SELECT has returned.
Select_Late(c) ==
    /\ Goto(c, "select", "commit")
    /\ payload' = [payload EXCEPT ![c] =
           [row |-> RowOf(objs[obj[c]]), loaded |-> saved]]
    /\ UNCHANGED <<today, redis, table, current, manager, objs, busy, obj, op,
                   acquired, got, value, ops, crashes>>

\* The SELECT returns: the capital is read now.
Select(c) ==
    /\ Goto(c, "select", "commit")
    /\ payload' = [payload EXCEPT
           ![c].row.capital = objs[obj[c]].capital,
           ![c].loaded = saved]
    /\ UNCHANGED <<today, redis, table, current, manager, objs, busy, obj, op,
                   acquired, got, value, ops, crashes>>

\* persist is over: sync_to_redis serialises the object.
Serialise(c) ==
    /\ pc' = [pc EXCEPT ![c] = "put"]
    /\ payload' = [payload EXCEPT ![c] = None]
    /\ value' = [value EXCEPT ![c] = objs[obj[c]]]
    /\ UNCHANGED <<today, redis, current, manager, objs, busy, obj, op,
                   acquired, got, ops, crashes>>

\* What the UPDATE leaves in a column: it sets those that differ from what the
\* SELECT loaded.  Two positions or journals that look alike may differ in
\* prices and times, which are left out here; two empty ones cannot.
Column(new, old, now, empty) ==
    IF new # old THEN {new} ELSE IF new = empty THEN {now} ELSE {new, now}

Update(row, old) ==
    [held    : Column(row.held, old.held, saved.held, {}),
     journal : Column(row.journal, old.journal, saved.journal, <<>>),
     capital : Column(row.capital, old.capital, saved.capital, row.capital)]

\* An INSERT fails when another worker has inserted the row.
Commit(c) ==
    LET p == payload[c] IN
    /\ pc[c] = "commit"
    /\ saved' \in IF p.loaded = None
                  THEN {IF saved = None THEN p.row ELSE saved}
                  ELSE Update(p.row, p.loaded)
    /\ overwritten' = (overwritten \/ p.loaded \notin {None, saved})
    /\ Serialise(c)

\* A failed persist is logged.
CommitFails(c) ==
    /\ DatabaseFails
    /\ pc[c] \in {"select", "commit"}
    /\ UNCHANGED table
    /\ Serialise(c)

\* The SETEX, or its failure, ends the operation.
Put(c) ==
    /\ pc[c] = "put"
    /\ shared' = value[c] \/ (RedisFails /\ UNCHANGED shared)
    /\ busy' = IF busy[obj[c]] = c THEN [busy EXCEPT ![obj[c]] = None]
               ELSE busy
    /\ Leave(c)
    /\ UNCHANGED <<today, lock, lapsed, bypassed, table, current, manager,
                   objs, ops, crashes>>

-----------------------------------------------------------------------------
Midnight ==
    /\ today + crashes < MaxEvents
    /\ today' = today + 1
    /\ UNCHANGED <<redis, table, current, manager, objs, busy, locals, ops,
                   crashes>>

\* The TTL of a day since the copy in Redis was last written is over.
Vanish ==
    /\ ops < MaxOps
    /\ ops' = ops + 1
    /\ shared' = None
    /\ UNCHANGED <<today, lock, lapsed, bypassed, table, current, manager, objs,
                   busy, locals, crashes>>

\* A worker process dies and is started again.
Crash(w) ==
    LET gone == {c \in Calls : WorkerOf[c] = w}
        kept == {obj[c] : c \in Calls \ gone}
                   \cup {current[v] : v \in Workers \ {w}}
        Without(f, v) == [c \in Calls |-> IF c \in gone THEN v ELSE f[c]] IN
    /\ today + crashes < MaxEvents
    /\ crashes' = crashes + 1
    /\ lock' = IF lock \in gone THEN Lost ELSE lock
    /\ current' = [current EXCEPT ![w] = None]
    /\ manager' = [manager EXCEPT ![w] = None]
    /\ busy' = [o \in Objects |-> IF busy[o] \in gone THEN None ELSE busy[o]]
    /\ pc' = Without(pc, "idle")
    /\ acquired' = Without(acquired, FALSE)
    /\ obj' = Without(obj, None) /\ op' = Without(op, None)
    /\ got' = Without(got, None) /\ payload' = Without(payload, None)
    /\ value' = Without(value, None)
    /\ objs' = [o \in Objects |-> IF o \in kept THEN objs[o] ELSE None]
    /\ UNCHANGED <<today, shared, lapsed, bypassed, table, ops>>

GetState(c) ==
    \/ TakeManager(c) \/ LoadRow(c) \/ NoRow(c) \/ InsertRow(c)
    \/ BootstrapFails(c) \/ Fetch(c, "fetchState", "applyState")
    \/ ApplyState(c)

Locking(c) == AcquireLock(c) \/ GiveUp(c) \/ LockFetch(c) \/ Wait(c)

Operate(c) ==
    \/ RefuseOpen(c) \/ RefuseClose(c) \/ OpenPosition(c) \/ ClosePosition(c)
    \/ ToggleKillSwitch(c) \/ Select(c) \/ Commit(c) \/ CommitFails(c)
    \/ Put(c)

Unlocking(c) == Release(c) \/ NotMine(c) \/ Delete(c) \/ ReleaseFails(c)

\* The steps a coroutine takes by itself once it has begun; its handler ends.
Continue(c) ==
    \/ Finish(c) \/ LoadRow(c) \/ NoRow(c) \/ InsertRow(c)
    \/ Fetch(c, "fetchState", "applyState") \/ ApplyState(c)
    \/ Locking(c) \/ Operate(c) \/ Unlocking(c) \/ Forget(c)

Next ==
    \/ \E c \in Calls :
        \/ GetState(c) \/ CheckTrade(c) \/ Finish(c) \/ Remove(c) \/ Forget(c)
        \/ \E p \in Operation : Begin(c, p)
        \/ Locking(c) \/ Operate(c) \/ Unlocking(c)
    \/ Expire \/ Midnight \/ Vanish
    \/ \E w \in Workers : Crash(w)

Spec == Init /\ [][Next]_vars

\* Locks are fair (asyncio.Lock is FIFO), coroutines run on.
FairSpec == Spec /\ \A c \in Calls : SF_vars(Continue(c))

-----------------------------------------------------------------------------
(***************************************************************************)
(* Properties.                                                             *)
(***************************************************************************)

\* Every copy of the state a request may be handed or may write.
Copies ==
    ({objs[o] : o \in Objects} \cup {got[c] : c \in Calls}
        \cup {value[c] : c \in Calls} \cup {shared, saved}
        \cup {payload[c].row : c \in {d \in Calls : payload[d] # None}})
    \ {None}

\* The entry at i is the last of its symbol, at k the next one after i.
LastOf(j, i) == \A m \in i + 1 .. Len(j) : j[m].symbol # j[i].symbol
NextOf(j, i, k) ==
    /\ i < k /\ j[k].symbol = j[i].symbol
    /\ \A m \in i + 1 .. k - 1 : j[m].symbol # j[i].symbol

\* What is left of the journal explains the positions: OPEN and CLOSE of a
\* symbol take turns, and the last of them says whether it is held.
Coherent(x) ==
    \A i \in DOMAIN x.journal :
        /\ LastOf(x.journal, i)
               => (x.journal[i].event = "OPEN"
                      <=> x.journal[i].symbol \in x.held)
        /\ \A k \in DOMAIN x.journal :
               NextOf(x.journal, i, k)
                  => x.journal[i].event # x.journal[k].event

\* Every copy of the state is coherent, though objects are replaced and written
\* back at every await.  What can split positions and journal is one thing only:
\* an UPDATE over a row that was changed since its SELECT, and for that a
\* request has to have done without the lock.
SnapshotsCoherent ==
    \/ \A x \in Copies : Coherent(x)
    \/ overwritten /\ (lapsed \/ bypassed)

\* No copy holds more positions than the limit, though check and change of two
\* workers may interleave when the lock in Redis has failed them.
PositionLimit == \A x \in Copies : Cardinality(x.held) <= MaxPositions

\* As long as no lock has expired under its holder, one request at a time holds
\* the lock of the user, whatever crashes, failures and releases happen.
LockExclusive ==
    lapsed \/ Cardinality({c \in Calls : acquired[c]}) <= 1

\* What an operation has done is in its row: the position and the last entry.
HasOutcome(p, r) ==
    /\ p.kind = "open" <=> p.symbol \in r.held
    /\ r.journal # <<>>
    /\ r.journal[Len(r.journal)] =
           [event |-> IF p.kind = "open" THEN "OPEN" ELSE "CLOSE",
            symbol |-> p.symbol]

\* The commit of an operation leaves its outcome in the table, although others
\* may have replaced the object since it was decided and the UPDATE sets only
\* columns that look new: as long as no request has done without the lock.
TableHasOutcome ==
    [][\A c \in Calls :
        (/\ pc[c] = "commit" /\ op[c].kind # "halt" /\ pc'[c] = "put"
         /\ saved' # saved /\ ~lapsed /\ ~bypassed)
        => HasOutcome(op[c], saved')]_vars

\* Every request ends, whatever Redis and the database fail to do and whatever
\* locks are left behind, and gives back the manager's lock, without which no
\* later request of the worker begins.
RequestReturns ==
    \A c \in Calls :
        pc[c] # "idle" \/ manager[WorkerOf[c]] = c
            ~> pc[c] = "idle" /\ manager[WorkerOf[c]] # c

\* Contradicted by the code.  With no other operation under way, a kill switch
\* is in the state the workers share when the request that set it is answered.
SharedHasSwitch ==
    [][\A c \in Calls :
        (pc[c] = "put" /\ op[c].kind = "halt" /\ pc'[c] # "put"
            /\ crashes' = crashes /\ \A d \in Calls \ {c} : op[d] = None)
        => shared' # None /\ shared'.halted = op[c].on]_vars
=============================================================================
