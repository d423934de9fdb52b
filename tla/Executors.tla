------------------------------- MODULE Executors -------------------------------
(***************************************************************************)
(* The automatic executor of a user and its risk manager:                  *)
(* backend/app/trading/live_executor_5m.py and risk_manager.py, called by  *)
(* backend/app/routes/trading.py and by the feed in                        *)
(* backend/app/websocket/handler.py, in threads of one worker.             *)
(*                                                                         *)
(* The executor of live_executor.py has the same gate and counters, but    *)
(* nothing calls its exits; to this one its orders, like those of /confirm *)
(* and of other workers, are changes of the positions table (Elsewhere).   *)
(* What the order router does with an order is the module OrderRouter;     *)
(* here it is filled or refused.                                           *)
(***************************************************************************)
EXTENDS Integers, FiniteSets

CONSTANTS
    Threads,        \* threads of the worker that serve the user
    Symbols,        \* instruments
    MaxTrades,      \* MAX_TRADES_PER_DAY
    MaxOpen,        \* MAX_CONCURRENT_POSITIONS
    MaxBars,        \* LIVE_5M_MAX_HOLDING_BARS
    NoSymbol        \* "no symbol"

ASSUME LimitsAssumption ==
    MaxTrades \in Nat \ {0} /\ MaxOpen \in Nat \ {0} /\ MaxBars \in Nat \ {0}
ASSUME ThreadsAssumption == IsFiniteSet(Threads)
ASSUME SymbolsAssumption == NoSymbol \notin Symbols

VARIABLES
    positions,      \* the user's positions: none, open, or netted to nothing
    risk,           \* the risk manager
    bars,           \* bars[s]: _bars_held, 0 for a missing key
    at,             \* at[t]: the frame of t
    late            \* trades opened since the manager halted

vars == <<positions, risk, bars, at, late>>

\* A date is kept as whether it is past; the capital as "loss" when the day's
\* loss has reached the limit and as "poor" when it is at most the minimum
\* balance, whatever the day's loss is.
Capital == {"fine", "loss", "poor"}
Risk == [past : BOOLEAN, trades : Nat, open : Nat, halted : BOOLEAN,
         capital : Capital]
NewRisk == [past |-> FALSE, trades |-> 0, open |-> 0, halted |-> FALSE,
            capital |-> "fine"]

Frame == [pc : {"idle", "held", "exits", "close", "delete", "count", "counted",
                "limit", "forget", "recheck", "evaluate", "execute", "opened",
                "rearm"},
          sym : Symbols \cup {NoSymbol},
          row : BOOLEAN,                \* the row that was read is still there
          seen : Nat]                   \* _open_positions as it was read
Idle == [pc |-> "idle", sym |-> NoSymbol, row |-> FALSE, seen |-> 0]

TypeOK ==
    /\ positions \in [Symbols -> {"none", "open", "flat"}]
    /\ risk \in Risk
    /\ bars \in [Symbols -> 0 .. MaxBars]
    /\ at \in [Threads -> Frame]
    /\ late \in Nat

Init ==
    /\ positions = [s \in Symbols |-> "none"]
    /\ risk = NewRisk
    /\ bars = [s \in Symbols |-> 0]
    /\ at = [t \in Threads |-> Idle]
    /\ late = 0

-----------------------------------------------------------------------------
(***************************************************************************)
(* Helpers.                                                                *)
(***************************************************************************)

GoTo(t, pc) == at' = [at EXCEPT ![t].pc = pc]
Return(t) == at' = [at EXCEPT ![t] = Idle]
Sym(t) == at[t].sym

\* has_position, which a row of quantity zero does not count for.
Has(s) == positions[s] = "open"

\* _check_new_day: the day's loss is counted from here.
Today(r) ==
    IF r.past THEN [r EXCEPT !.past = FALSE, !.trades = 0, !.halted = FALSE,
                             !.capital = IF @ = "loss" THEN "fine" ELSE @]
              ELSE r

\* can_trade, of the day the manager is in.
Allowed(r) ==
    /\ ~r.halted
    /\ r.trades < MaxTrades
    /\ r.open < MaxOpen
    /\ r.capital = "fine"

\* Mutant: the halt of an earlier call is not looked at.
CanTrade_Rearmed(r) ==
    LET d == Today(r)
    IN [ok |-> Allowed([d EXCEPT !.halted = FALSE]), risk |-> d]

\* Mutant: the trades of the day are not looked at.
CanTrade_Uncapped(r) ==
    LET d == Today(r)
    IN [ok |-> Allowed([d EXCEPT !.trades = 0]), risk |-> d]

\* can_trade: it halts when it finds the loss or the balance itself, unless
\* another limit stops it first.
CanTrade(r) ==
    LET d == Today(r)
        halts == d.capital # "fine" /\ d.trades < MaxTrades /\ d.open < MaxOpen
    IN [ok |-> Allowed(d), risk |-> [d EXCEPT !.halted = @ \/ halts]]

\* The manager becomes r.
SetRisk(r) ==
    /\ risk' = r
    /\ late' = IF risk.halted /\ r.halted THEN late ELSE 0

-----------------------------------------------------------------------------
(***************************************************************************)
(* The calls: a candle of s completes, a route asks for a trade, a signal  *)
(* or the status.                                                          *)
(***************************************************************************)

Begin(t, s, pc) ==
    /\ at[t] = Idle
    /\ at' = [at EXCEPT ![t] = [Idle EXCEPT !.pc = pc, !.sym = s]]
    /\ UNCHANGED <<positions, risk, bars, late>>

OnCandle(t, s) == Begin(t, s, "held")
Ask(t, s) == Begin(t, s, "evaluate")

\* get_status.
Report ==
    /\ SetRisk(Today(risk))
    /\ UNCHANGED <<positions, bars, at>>

-----------------------------------------------------------------------------
(***************************************************************************)
(* The exits.                                                              *)
(***************************************************************************)

Held(t) ==
    /\ at[t].pc = "held"
    /\ GoTo(t, IF Has(Sym(t)) THEN "exits" ELSE "evaluate")
    /\ UNCHANGED <<positions, risk, bars, late>>

\* Mutant: only candles that touch a level end a position.
Exits_Unlimited(t) ==
    /\ at[t].pc = "exits"
    /\ GoTo(t, "recheck") \/ (positions[Sym(t)] # "none" /\ GoTo(t, "close"))
    /\ UNCHANGED <<positions, risk, bars, late>>

\* check_exits: the candle touches the stop or the target, or is the last one
\* the position may be held for.
Exits(t) ==
    LET held == bars[Sym(t)] + 1
        last == held >= MaxBars
    IN /\ at[t].pc = "exits"
       /\ IF positions[Sym(t)] = "none"
          THEN /\ bars' = [bars EXCEPT ![Sym(t)] = 0]
               /\ GoTo(t, "recheck")
          ELSE /\ bars' = [bars EXCEPT ![Sym(t)] = IF last THEN MaxBars ELSE held]
               /\ GoTo(t, "close") \/ (~last /\ GoTo(t, "recheck"))
       /\ UNCHANGED <<positions, risk, late>>

\* close_position reads the row; if there is none nothing is counted.
CloseRead(t) ==
    /\ at[t].pc = "close"
    /\ at' = [at EXCEPT ![t].pc = IF positions[Sym(t)] = "none" THEN "forget"
                                                                ELSE "delete",
                        ![t].row = positions[Sym(t)] # "none"]
    /\ UNCHANGED <<positions, risk, bars, late>>

\* The row of s is deleted: whoever else has read it will delete nothing, and
\* count its profit or loss all the same.
Gone(s, frames) ==
    [t \in Threads |-> IF frames[t].sym = s THEN [frames[t] EXCEPT !.row = FALSE]
                                            ELSE frames[t]]

Delete(t) ==
    LET next == [at EXCEPT ![t].pc = "count"]
    IN /\ at[t].pc = "delete"
       /\ IF at[t].row
          THEN /\ positions' = [positions EXCEPT ![Sym(t)] = "none"]
               /\ at' = Gone(Sym(t), next)
          ELSE at' = next /\ UNCHANGED positions
       /\ UNCHANGED <<risk, bars, late>>

\* on_trade_closed: another thread may run while max() is called.
CountRead(t) ==
    /\ at[t].pc = "count"
    /\ at' = [at EXCEPT ![t].pc = "counted", ![t].seen = risk.open]
    /\ UNCHANGED <<positions, risk, bars, late>>

\* Mutant: max() is dropped.
CountWrite_Negative(t) ==
    /\ at[t].pc = "counted"
    /\ \E c \in Capital :
         SetRisk([risk EXCEPT !.open = at[t].seen - 1, !.capital = c])
    /\ at' = [at EXCEPT ![t].pc = "limit", ![t].seen = 0]
    /\ UNCHANGED <<positions, bars>>

\* The new capital is anything the profit or loss makes of it.
CountWrite(t) ==
    LET seen == at[t].seen
    IN /\ at[t].pc = "counted"
       /\ \E c \in Capital :
            SetRisk([risk EXCEPT !.open = IF seen = 0 THEN 0 ELSE seen - 1,
                                 !.capital = c])
       /\ at' = [at EXCEPT ![t].pc = "limit", ![t].seen = 0]
       /\ UNCHANGED <<positions, bars>>

\* Mutant: the limit is left for the next check to find.
Limit_Deferred(t) ==
    /\ at[t].pc = "limit"
    /\ GoTo(t, "forget")
    /\ UNCHANGED <<positions, risk, bars, late>>

\* The day here is the one of the last check, be it past or not.
Limit(t) ==
    LET Breached == CASE risk.capital = "fine" -> {FALSE}
                      [] risk.capital = "loss" -> {TRUE}
                      [] risk.capital = "poor" -> BOOLEAN
    IN /\ at[t].pc = "limit"
       /\ \E b \in Breached : SetRisk([risk EXCEPT !.halted = @ \/ b])
       /\ GoTo(t, "forget")
       /\ UNCHANGED <<positions, bars>>

Forget(t) ==
    /\ at[t].pc = "forget"
    /\ bars' = [bars EXCEPT ![Sym(t)] = 0]
    /\ Return(t)
    /\ UNCHANGED <<positions, risk, late>>

\* No exit: on to the entry, if the position is gone by now.
Recheck(t) ==
    /\ at[t].pc = "recheck"
    /\ IF Has(Sym(t)) THEN Return(t) ELSE GoTo(t, "evaluate")
    /\ UNCHANGED <<positions, risk, bars, late>>

-----------------------------------------------------------------------------
(***************************************************************************)
(* The entry.                                                              *)
(***************************************************************************)

\* evaluate_signal: the gate, then a signal or none; /signal ends with either.
Evaluate(t) ==
    LET gate == CanTrade(risk)
    IN /\ at[t].pc = "evaluate"
       /\ SetRisk(gate.risk)
       /\ Return(t) \/ (gate.ok /\ GoTo(t, "execute"))
       /\ UNCHANGED <<positions, bars>>

\* A fill adds to the row, or nets it, perhaps to nothing.
Fill(s) ==
    \E q \in {"open", "flat"} :
        /\ q = "flat" => positions[s] = "open"
        /\ positions' = [positions EXCEPT ![s] = q]

\* execute_signal places the order and confirms it.  It is refused as a
\* duplicate or in LIVE mode, confirmed by somebody else, or raises.
Execute(t) ==
    /\ at[t].pc = "execute"
    /\ \/ Fill(Sym(t)) /\ GoTo(t, "opened")
       \/ Return(t) /\ UNCHANGED positions
    /\ UNCHANGED <<risk, bars, late>>

\* on_trade_opened.
Opened(t) ==
    /\ at[t].pc = "opened"
    /\ risk' = [risk EXCEPT !.trades = @ + 1, !.open = @ + 1]
    /\ late' = IF risk.halted THEN late + 1 ELSE 0
    /\ GoTo(t, "rearm")
    /\ UNCHANGED <<positions, bars>>

Rearm(t) ==
    /\ at[t].pc = "rearm"
    /\ bars' = [bars EXCEPT ![Sym(t)] = 0]
    /\ Return(t)
    /\ UNCHANGED <<positions, risk, late>>

-----------------------------------------------------------------------------
(***************************************************************************)
(* What happens around the calls.                                          *)
(***************************************************************************)

\* The database refuses, and the exception ends the call.  (At "recheck" and
\* later that is what a call without a signal does.)
Raise(t) ==
    /\ at[t].pc \in {"held", "exits", "close", "delete"}
    /\ Return(t)
    /\ UNCHANGED <<positions, risk, bars, late>>

Midnight ==
    /\ risk' = [risk EXCEPT !.past = TRUE]
    /\ UNCHANGED <<positions, bars, at, late>>

\* Somebody else's order is filled, or somebody else closes the position.
Elsewhere ==
    /\ \E s \in Symbols :
         \/ Fill(s) /\ UNCHANGED at
         \/ /\ positions[s] # "none"
            /\ positions' = [positions EXCEPT ![s] = "none"]
            /\ at' = Gone(s, at)
    /\ UNCHANGED <<risk, bars, late>>

\* The worker restarts: nothing loads the daily state that was persisted.
Crash ==
    /\ risk' = NewRisk
    /\ bars' = [s \in Symbols |-> 0]
    /\ at' = [t \in Threads |-> Idle]
    /\ late' = 0
    /\ UNCHANGED positions

Step(t) ==
    \/ Held(t) \/ Exits(t) \/ CloseRead(t) \/ Delete(t)
    \/ CountRead(t) \/ CountWrite(t) \/ Limit(t) \/ Forget(t) \/ Recheck(t)
    \/ Evaluate(t) \/ Execute(t) \/ Opened(t) \/ Rearm(t)

Next ==
    \/ \E t \in Threads, s \in Symbols : OnCandle(t, s) \/ Ask(t, s)
    \/ \E t \in Threads : Step(t) \/ Raise(t)
    \/ Report \/ Midnight \/ Elsewhere \/ Crash

Spec == Init /\ [][Next]_vars

\* Threads run on, and candles of every symbol complete again and again with
\* the automatic execution enabled for the user.
FairSpec ==
    /\ Spec
    /\ \A t \in Threads : WF_vars(Step(t))
    /\ \A s \in Symbols : SF_vars(\E t \in Threads : OnCandle(t, s))

-----------------------------------------------------------------------------
(***************************************************************************)
(* Properties.                                                             *)
(***************************************************************************)

\* The threads that have passed the gate and are not counted yet.
Entering == {t \in Threads : at[t].pc \in {"execute", "opened"}}
Slack == Cardinality(Threads) - 1

\* The gate is asked before the order and the trade counted after it: the
\* limit of a day is exceeded by at most the threads in between, also when
\* the day changes under them.
TradesBounded == risk.trades + Cardinality(Entering) <= MaxTrades + Slack

\* Once the manager has halted, only the threads that had passed the gate can
\* open a trade until the next day, whatever the closes bring back.
LossStopsTrading == risk.halted => late + Cardinality(Entering) <= Slack

\* A loss beyond the limit is a halt as soon as the thread that closed the
\* position is through; the first check of a new day clears both or neither.
BreachHalts ==
    risk.capital = "loss" => risk.halted \/ \E t \in Threads : at[t].pc = "limit"

\* A position is closed after the bars it may be held for, unless it is
\* entered anew, the database refuses or the worker restarts again and again.
HeldForBars ==
    \A s \in Symbols :
        \/ []<>(~Has(s) \/ \E t \in Threads : at[t].pc = "rearm" /\ Sym(t) = s)
        \/ []<><<Crash \/ \E t \in Threads : Raise(t)>>_vars
=============================================================================
