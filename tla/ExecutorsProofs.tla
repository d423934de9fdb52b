---------------------------- MODULE ExecutorsProofs ----------------------------
(***************************************************************************)
(* Safety of the executor and its risk manager, for any number of threads, *)
(* instruments, trades and bars.  The limits are checked before an order   *)
(* and counted after it, so the proofs count the threads in between.       *)
(***************************************************************************)
EXTENDS Executors, FiniteSetTheorems, TLAPS

\* A thread in a call has the call's instrument.
Working == \A t \in Threads : at[t].pc # "idle" => at[t].sym \in Symbols

IInv ==
    /\ TypeOK
    /\ Working
    /\ TradesBounded
    /\ LossStopsTrading
    /\ BreachHalts

-----------------------------------------------------------------------------
(***************************************************************************)
(* The threads that have passed the gate.                                  *)
(***************************************************************************)

\* The threads are finitely many, and so are those past the gate.
LEMMA EnteringFinite ==
    /\ IsFiniteSet(Entering)
    /\ Cardinality(Threads) \in Nat
    /\ Cardinality(Entering) \in Nat
    /\ Cardinality(Entering) <= Cardinality(Threads)
<1>1. Entering \subseteq Threads
  BY DEF Entering
<1>2. IsFiniteSet(Threads)
  BY ThreadsAssumption
<1>3. IsFiniteSet(Entering) /\ Cardinality(Entering) <= Cardinality(Threads)
  BY <1>1, <1>2, FS_Subset
<1> QED
  BY <1>2, <1>3, FS_CardinalityType

\* A thread that is not past the gate leaves one place free.
LEMMA OneOutside ==
    ASSUME NEW t \in Threads, t \notin Entering
    PROVE  Cardinality(Entering) <= Slack
<1>1. IsFiniteSet(Threads) /\ IsFiniteSet(Threads \ {t})
  BY ThreadsAssumption, FS_RemoveElement
<1>2. Cardinality(Threads \ {t}) = Cardinality(Threads) - 1
  BY <1>1, FS_RemoveElement
<1>3. Entering \subseteq Threads \ {t}
  BY DEF Entering
<1>4. Cardinality(Entering) <= Cardinality(Threads \ {t})
  BY <1>1, <1>3, FS_Subset
<1> QED
  BY <1>2, <1>4 DEF Slack

\* The same of the state after a step.
LEMMA NextFinite ==
    /\ IsFiniteSet(Entering')
    /\ Cardinality(Threads) \in Nat
    /\ Cardinality(Entering') \in Nat
    /\ Cardinality(Entering') <= Cardinality(Threads)
<1>1. Entering' \subseteq Threads
  BY DEF Entering
<1>2. IsFiniteSet(Threads)
  BY ThreadsAssumption
<1>3. IsFiniteSet(Entering') /\ Cardinality(Entering') <= Cardinality(Threads)
  BY <1>1, <1>2, FS_Subset
<1> QED
  BY <1>2, <1>3, FS_CardinalityType

\* A step that leaves the manager alone, brings nobody past the gate and
\* leaves whoever is about to compare the loss where it is.
Quiet ==
    /\ UNCHANGED <<risk, late>>
    /\ Entering' \subseteq Entering
    /\ \A u \in Threads : at[u].pc = "limit" => at'[u].pc = "limit"

\* The three properties survive a quiet step.
LEMMA QuietKeeps ==
    ASSUME IInv, Quiet
    PROVE  TradesBounded' /\ LossStopsTrading' /\ BreachHalts'
<1> USE DEF Quiet
<1>1. Cardinality(Entering') <= Cardinality(Entering)
  BY EnteringFinite, FS_Subset
<1>2. risk.trades \in Nat /\ late \in Nat
  BY DEF IInv, TypeOK, Risk
<1>3. TradesBounded'
  BY <1>1, <1>2, EnteringFinite, NextFinite, LimitsAssumption
  DEF IInv, TradesBounded, Slack
<1>4. LossStopsTrading'
  BY <1>1, <1>2, EnteringFinite, NextFinite DEF IInv, LossStopsTrading, Slack
<1>5. BreachHalts'
  BY DEF IInv, BreachHalts
<1> QED
  BY <1>3, <1>4, <1>5

-----------------------------------------------------------------------------
(***************************************************************************)
(* The manager.                                                            *)
(***************************************************************************)

\* The first check of a day clears the counters, and the loss with the halt.
LEMMA TodayFacts ==
    ASSUME NEW r \in Risk
    PROVE  /\ Today(r) \in Risk
           /\ Today(r).trades <= r.trades
           /\ Today(r).halted => r.halted
           /\ Today(r).capital = "loss" => r.capital = "loss" /\ ~r.past
           /\ ~r.past => Today(r) = r
<1>1. r.trades \in Nat /\ r.past \in BOOLEAN /\ r.capital \in Capital
  BY DEF Risk
<1>2. CASE ~r.past
  <2>1. Today(r) = r
    BY <1>2 DEF Today
  <2> QED
    BY <1>1, <1>2, <2>1
<1>3. CASE r.past
  <2> DEFINE c == IF r.capital = "loss" THEN "fine" ELSE r.capital
  <2>1. c \in Capital /\ c # "loss"
    BY <1>1 DEF Capital
  <2>2. Today(r) = [r EXCEPT !.past = FALSE, !.trades = 0, !.halted = FALSE,
                             !.capital = c]
    BY <1>3 DEF Today
  <2> HIDE DEF c
  <2>3. Today(r) = [past |-> FALSE, trades |-> 0, open |-> r.open,
                    halted |-> FALSE, capital |-> c]
    BY <2>2 DEF Risk
  <2>4. r.open \in Nat
    BY DEF Risk
  <2>5. /\ Today(r) \in Risk
        /\ Today(r).trades = 0
        /\ Today(r).halted = FALSE
        /\ Today(r).capital = c
    BY <2>1, <2>3, <2>4 DEF Risk
  <2> QED
    BY <1>1, <1>3, <2>1, <2>5
<1> QED
  BY <1>1, <1>2, <1>3

\* The gate: whoever passes it finds a trade left and no halt; it never lets
\* anybody pass in the step in which it halts, and lifts a halt only at the
\* beginning of a day.
LEMMA GateFacts ==
    ASSUME NEW r \in Risk
    PROVE  LET g == CanTrade(r)
           IN  /\ g.risk \in Risk
               /\ g.risk.trades <= r.trades
               /\ g.risk.capital = "loss" => r.capital = "loss" /\ ~r.past
               /\ ~r.past /\ r.halted => g.risk.halted
               /\ g.ok => g.risk.trades < MaxTrades /\ ~g.risk.halted
<1> DEFINE d == Today(r)
           h == d.capital # "fine" /\ d.trades < MaxTrades /\ d.open < MaxOpen
           g == CanTrade(r)
<1>1. d \in Risk /\ d.trades <= r.trades
  BY TodayFacts
<1>2. g.ok = Allowed(d) /\ g.risk = [d EXCEPT !.halted = @ \/ h]
  BY DEF CanTrade
<1>3. /\ g.risk.trades = d.trades
      /\ g.risk.capital = d.capital
      /\ g.risk.halted = (d.halted \/ h)
      /\ g.risk \in Risk
  <2>1. (d.halted \/ h) \in BOOLEAN
    BY <1>1 DEF Risk
  <2> QED
    BY <1>1, <1>2, <2>1 DEF Risk
<1>4. Allowed(d) => d.trades < MaxTrades /\ ~d.halted /\ ~h
  BY DEF Allowed
<1>5. d.capital = "loss" => r.capital = "loss" /\ ~r.past
  BY TodayFacts
<1>6. ~r.past /\ r.halted => d.halted
  BY TodayFacts
<1> HIDE DEF d, h, g
<1>7. g.ok => g.risk.trades < MaxTrades /\ ~g.risk.halted
  BY <1>2, <1>3, <1>4
<1>8. /\ g.risk.trades <= r.trades
      /\ g.risk.capital = "loss" => r.capital = "loss" /\ ~r.past
  BY <1>1, <1>3, <1>5
<1>9. ~r.past /\ r.halted => g.risk.halted
  BY <1>3, <1>6
<1> QED
  BY <1>3, <1>7, <1>8, <1>9 DEF g

-----------------------------------------------------------------------------
(***************************************************************************)
(* Types and frames.                                                       *)
(***************************************************************************)

\* A fill leaves a position open or netted to nothing.
LEMMA FillTypes ==
    ASSUME TypeOK, NEW s, Fill(s)
    PROVE  positions' \in [Symbols -> {"none", "open", "flat"}]
BY DEF Fill, TypeOK

\* Deleting a row keeps the frames' types, places and instruments.
LEMMA GoneFacts ==
    ASSUME NEW frames \in [Threads -> Frame], NEW s
    PROVE  /\ Gone(s, frames) \in [Threads -> Frame]
           /\ \A u \in Threads : /\ Gone(s, frames)[u].pc = frames[u].pc
                                 /\ Gone(s, frames)[u].sym = frames[u].sym
BY DEF Gone, Frame

\* The frame of a thread without a call.
LEMMA IdleFacts == Idle \in Frame /\ Idle.pc = "idle"
BY DEF Idle, Frame

\* The initial state is typed, and nobody is past the gate.
LEMMA InitIInv == Init => IInv
<1> SUFFICES ASSUME Init PROVE IInv
  OBVIOUS
<1>1. at = [t \in Threads |-> Idle] /\ risk = NewRisk /\ late = 0
  BY DEF Init
<1>2. \A t \in Threads : at[t].pc = "idle"
  BY <1>1 DEF Idle
<1>3. Entering = {}
  BY <1>2 DEF Entering
<1>4. Cardinality(Entering) = 0
  BY <1>3, FS_EmptySet
<1>5. NewRisk \in Risk
  BY DEF NewRisk, Risk, Capital
<1>6. TypeOK
  BY <1>1, <1>5, IdleFacts, LimitsAssumption DEF TypeOK, Init
<1>7. Working
  BY <1>2 DEF Working
<1>8. TradesBounded /\ LossStopsTrading /\ BreachHalts
  BY <1>1, <1>4, EnteringFinite, LimitsAssumption
  DEF TradesBounded, LossStopsTrading, BreachHalts, NewRisk, Slack
<1> QED
  BY <1>6, <1>7, <1>8 DEF IInv

\* A move of one thread: what else at' may be.
LEMMA MoveFacts ==
    ASSUME TypeOK, NEW t \in Threads, NEW pc,
           pc \in {"idle", "held", "exits", "close", "delete", "count",
                   "counted", "limit", "forget", "recheck", "evaluate",
                   "execute", "opened", "rearm"},
           GoTo(t, pc)
    PROVE  /\ at' \in [Threads -> Frame]
           /\ at'[t].pc = pc /\ at'[t].sym = at[t].sym
           /\ \A u \in Threads \ {t} : at'[u] = at[u]
BY DEF GoTo, TypeOK, Frame

\* A thread returns: the others stay where they are.
LEMMA ReturnFacts ==
    ASSUME TypeOK, NEW t \in Threads, Return(t)
    PROVE  /\ at' \in [Threads -> Frame]
           /\ at'[t].pc = "idle"
           /\ \A u \in Threads \ {t} : at'[u] = at[u]
BY IdleFacts DEF Return, TypeOK

-----------------------------------------------------------------------------
(***************************************************************************)
(* Every step keeps the types, and a call its instrument.                  *)
(***************************************************************************)

\* What a new manager makes of the ghost late.
LEMMA SetRiskTypes ==
    ASSUME TypeOK, NEW r \in Risk, SetRisk(r)
    PROVE  risk' \in Risk /\ late' \in Nat
BY DEF SetRisk, TypeOK

\* A thread moves on, or returns.
LEMMA MoveWorks ==
    ASSUME TypeOK, Working, NEW t \in Threads,
           \/ Return(t)
           \/ /\ at[t].pc # "idle"
              /\ \E pc \in {"held", "exits", "close", "delete", "count",
                            "counted", "limit", "forget", "recheck",
                            "evaluate", "execute", "opened", "rearm"} :
                    GoTo(t, pc)
    PROVE  at' \in [Threads -> Frame] /\ Working'
<1>1. CASE Return(t)
  BY <1>1, ReturnFacts DEF Working
<1>2. CASE /\ at[t].pc # "idle"
           /\ \E pc \in {"held", "exits", "close", "delete", "count",
                         "counted", "limit", "forget", "recheck",
                         "evaluate", "execute", "opened", "rearm"} :
                 GoTo(t, pc)
  <2>1. PICK pc \in {"held", "exits", "close", "delete", "count",
                     "counted", "limit", "forget", "recheck",
                     "evaluate", "execute", "opened", "rearm"} : GoTo(t, pc)
    BY <1>2
  <2>2. /\ at' \in [Threads -> Frame]
        /\ at'[t].sym = at[t].sym
        /\ \A u \in Threads \ {t} : at'[u] = at[u]
    BY <2>1, MoveFacts
  <2> QED
    BY <1>2, <2>2 DEF Working
<1> QED
  BY <1>1, <1>2

\* Every step is typed.
LEMMA TypeStep ==
    ASSUME IInv, [Next]_vars
    PROVE  TypeOK' /\ Working'
<1>0. TypeOK /\ Working
  BY DEF IInv
<1>1. ASSUME NEW t \in Threads, NEW s \in Symbols, NEW pc \in {"held", "evaluate"},
             Begin(t, s, pc)
      PROVE  TypeOK' /\ Working'
  <2> DEFINE f == [Idle EXCEPT !.pc = pc, !.sym = s]
  <2>1. f \in Frame /\ f.sym = s
    BY IdleFacts DEF Frame
  <2>2. at' = [at EXCEPT ![t] = f]
    BY <1>1 DEF Begin
  <2> HIDE DEF f
  <2>4. at' \in [Threads -> Frame] /\ Working'
    BY <1>0, <2>1, <2>2 DEF TypeOK, Working
  <2> QED
    BY <1>0, <1>1, <2>4 DEF Begin, TypeOK
<1>2. ASSUME NEW t \in Threads, Step(t) PROVE TypeOK' /\ Working'
  <2>1. CASE Held(t)
    BY <1>0, <2>1, MoveWorks DEF Held, TypeOK
  <2>2. CASE Exits(t)
    <3>1. at' \in [Threads -> Frame] /\ Working'
      BY <1>0, <2>2, MoveWorks DEF Exits
    <3>2. bars' \in [Symbols -> 0 .. MaxBars]
      <4> DEFINE held == bars[Sym(t)] + 1
                 last == held >= MaxBars
      <4>1. Sym(t) \in Symbols
        BY <1>0, <2>2 DEF Exits, Working, Sym
      <4>2. bars[Sym(t)] \in 0 .. MaxBars
        BY <1>0, <4>1 DEF TypeOK
      <4>3. (IF last THEN MaxBars ELSE held) \in 0 .. MaxBars
        BY <4>2, LimitsAssumption
      <4>4. \/ bars' = [bars EXCEPT ![Sym(t)] = 0]
            \/ bars' = [bars EXCEPT ![Sym(t)] = IF last THEN MaxBars ELSE held]
        BY <2>2 DEF Exits
      <4> HIDE DEF held, last
      <4> QED
        BY <1>0, <4>3, <4>4, LimitsAssumption DEF TypeOK
    <3> QED
      BY <1>0, <2>2, <3>1, <3>2 DEF Exits, TypeOK
  <2>3. CASE CloseRead(t)
    <3> DEFINE pc == IF positions[Sym(t)] = "none" THEN "forget" ELSE "delete"
               row == positions[Sym(t)] # "none"
               f == [at[t] EXCEPT !.pc = pc, !.row = row]
    <3>1. pc \in {"forget", "delete"} /\ row \in BOOLEAN
      OBVIOUS
    <3>2. at' = [at EXCEPT ![t] = f] /\ at[t].sym \in Symbols
      BY <1>0, <2>3 DEF CloseRead, Working, TypeOK
    <3> HIDE DEF pc, row
    <3>3. f \in Frame /\ f.sym = at[t].sym
      BY <1>0, <3>1 DEF TypeOK, Frame
    <3> HIDE DEF f
    <3>4. at' \in [Threads -> Frame] /\ Working'
      BY <1>0, <3>2, <3>3 DEF TypeOK, Working
    <3> QED
      BY <1>0, <2>3, <3>4 DEF CloseRead, TypeOK
  <2>4. CASE Delete(t)
    <3> DEFINE next == [at EXCEPT ![t].pc = "count"]
    <3>1. /\ next \in [Threads -> Frame]
          /\ \A u \in Threads : /\ next[u].sym = at[u].sym
                                /\ next[u].pc = "idle" => at[u].pc = "idle"
                                /\ u # t => next[u] = at[u]
      BY <1>0 DEF TypeOK, Frame
    <3>2. at[t].sym \in Symbols
      BY <1>0, <2>4 DEF Delete, Working
    <3>3. at' = next \/ at' = Gone(Sym(t), next)
      BY <2>4 DEF Delete
    <3> HIDE DEF next
    <3>4. at' \in [Threads -> Frame] /\ Working'
      <4>1. CASE at' = next
        BY <1>0, <3>1, <3>2, <4>1 DEF Working
      <4>2. CASE at' = Gone(Sym(t), next)
        <5>1. /\ at' \in [Threads -> Frame]
              /\ \A u \in Threads : /\ at'[u].pc = next[u].pc
                                    /\ at'[u].sym = next[u].sym
          BY <3>1, <4>2, GoneFacts
        <5> QED
          BY <1>0, <3>1, <3>2, <5>1 DEF Working
      <4> QED
        BY <3>3, <4>1, <4>2
    <3>5. positions' \in [Symbols -> {"none", "open", "flat"}]
      BY <1>0, <2>4 DEF Delete, TypeOK
    <3> QED
      BY <1>0, <2>4, <3>4, <3>5 DEF Delete, TypeOK
  <2>5. CASE CountRead(t)
    BY <1>0, <2>5 DEF CountRead, TypeOK, Working, Frame, Risk
  <2>6. CASE CountWrite(t)
    <3>1. at' \in [Threads -> Frame] /\ Working'
      BY <1>0, <2>6 DEF CountWrite, TypeOK, Working, Frame
    <3>2. at[t].seen \in Nat
      BY <1>0 DEF TypeOK, Frame
    <3>3. PICK c \in Capital :
            SetRisk([risk EXCEPT !.open = IF at[t].seen = 0 THEN 0 ELSE at[t].seen - 1,
                                 !.capital = c])
      BY <2>6 DEF CountWrite
    <3>4. [risk EXCEPT !.open = IF at[t].seen = 0 THEN 0 ELSE at[t].seen - 1,
                       !.capital = c] \in Risk
      <4> DEFINE n == IF at[t].seen = 0 THEN 0 ELSE at[t].seen - 1
      <4>1. n \in Nat
        BY <3>2
      <4> HIDE DEF n
      <4>2. [risk EXCEPT !.open = n, !.capital = c] \in Risk
        BY <1>0, <4>1 DEF TypeOK, Risk
      <4> QED
        BY <4>2 DEF n
    <3>5. risk' \in Risk /\ late' \in Nat
      BY <1>0, <3>3, <3>4, SetRiskTypes
    <3> QED
      BY <1>0, <2>6, <3>1, <3>5 DEF CountWrite, TypeOK
  <2>7. CASE Limit(t)
    <3>1. at' \in [Threads -> Frame] /\ Working'
      BY <1>0, <2>7, MoveWorks DEF Limit
    <3>2. PICK b \in BOOLEAN : SetRisk([risk EXCEPT !.halted = @ \/ b])
      BY <1>0, <2>7 DEF Limit, TypeOK, Risk, Capital
    <3>3. [risk EXCEPT !.halted = @ \/ b] \in Risk
      BY <1>0 DEF TypeOK, Risk
    <3>4. risk' \in Risk /\ late' \in Nat
      BY <1>0, <3>2, <3>3, SetRiskTypes
    <3> QED
      BY <1>0, <2>7, <3>1, <3>4 DEF Limit, TypeOK
  <2>8. CASE Forget(t) \/ Rearm(t)
    <3>1. at' \in [Threads -> Frame] /\ Working'
      BY <1>0, <2>8, MoveWorks DEF Forget, Rearm
    <3> QED
      BY <1>0, <2>8, <3>1, LimitsAssumption DEF Forget, Rearm, TypeOK
  <2>9. CASE Recheck(t)
    BY <1>0, <2>9, MoveWorks DEF Recheck, TypeOK
  <2>10. CASE Evaluate(t)
    <3>1. at' \in [Threads -> Frame] /\ Working'
      BY <1>0, <2>10, MoveWorks DEF Evaluate
    <3>2. risk' \in Risk /\ late' \in Nat
      BY <1>0, <2>10, GateFacts, SetRiskTypes DEF Evaluate, TypeOK
    <3> QED
      BY <1>0, <2>10, <3>1, <3>2 DEF Evaluate, TypeOK
  <2>11. CASE Execute(t)
    <3>1. at' \in [Threads -> Frame] /\ Working'
      BY <1>0, <2>11, MoveWorks DEF Execute
    <3>2. positions' \in [Symbols -> {"none", "open", "flat"}]
      BY <1>0, <2>11, FillTypes DEF Execute, TypeOK
    <3> QED
      BY <1>0, <2>11, <3>1, <3>2 DEF Execute, TypeOK
  <2>12. CASE Opened(t)
    <3>1. at' \in [Threads -> Frame] /\ Working'
      BY <1>0, <2>12, MoveWorks DEF Opened
    <3>2. risk' \in Risk /\ late' \in Nat
      <4> DEFINE m == risk.trades + 1
                 n == risk.open + 1
      <4>1. m \in Nat /\ n \in Nat
        BY <1>0 DEF TypeOK, Risk
      <4>2. risk' = [risk EXCEPT !.trades = m, !.open = n]
        BY <2>12 DEF Opened
      <4> HIDE DEF m, n
      <4>3. risk' \in Risk
        BY <1>0, <4>1, <4>2 DEF TypeOK, Risk
      <4>4. late' \in Nat
        BY <1>0, <2>12 DEF Opened, TypeOK
      <4> QED
        BY <4>3, <4>4
    <3> QED
      BY <1>0, <2>12, <3>1, <3>2 DEF Opened, TypeOK
  <2> QED
    BY <1>2, <2>1, <2>2, <2>3, <2>4, <2>5, <2>6, <2>7, <2>8, <2>9, <2>10,
       <2>11, <2>12 DEF Step
<1>3. ASSUME NEW t \in Threads, Raise(t) PROVE TypeOK' /\ Working'
  BY <1>0, <1>3, MoveWorks DEF Raise, TypeOK
<1>4. CASE Report
  <2>1. Today(risk) \in Risk
    BY <1>0, TodayFacts DEF TypeOK
  <2>2. risk' \in Risk /\ late' \in Nat
    BY <1>0, <1>4, <2>1, SetRiskTypes DEF Report
  <2> QED
    BY <1>0, <1>4, <2>2 DEF Report, TypeOK, Working
<1>5. CASE Midnight
  <2>1. risk' \in Risk
    BY <1>0, <1>5 DEF Midnight, TypeOK, Risk
  <2> QED
    BY <1>0, <1>5, <2>1 DEF Midnight, TypeOK, Working
<1>6. CASE Elsewhere
  <2>1. PICK s \in Symbols : \/ Fill(s) /\ UNCHANGED at
                            \/ /\ positions' = [positions EXCEPT ![s] = "none"]
                               /\ at' = Gone(s, at)
    BY <1>6 DEF Elsewhere
  <2>2. positions' \in [Symbols -> {"none", "open", "flat"}]
    BY <1>0, <2>1, FillTypes DEF TypeOK
  <2>3. at' \in [Threads -> Frame] /\ Working'
    BY <1>0, <2>1, GoneFacts DEF TypeOK, Working
  <2> QED
    BY <1>0, <1>6, <2>2, <2>3 DEF Elsewhere, TypeOK
<1>7. CASE Crash
  <2>1. NewRisk \in Risk
    BY DEF NewRisk, Risk, Capital
  <2> QED
    BY <1>0, <1>7, <2>1, IdleFacts, LimitsAssumption DEF Crash, TypeOK, Working
<1>8. CASE UNCHANGED vars
  BY <1>0, <1>8 DEF vars, TypeOK, Working
<1> QED
  BY <1>1, <1>2, <1>3, <1>4, <1>5, <1>6, <1>7, <1>8 DEF Next, OnCandle, Ask

-----------------------------------------------------------------------------
(***************************************************************************)
(* The quiet steps.                                                        *)
(***************************************************************************)

\* One thread moves, and neither past the gate nor away from the comparison.
LEMMA OneMoves ==
    ASSUME IInv, NEW t \in Threads, UNCHANGED <<risk, late>>,
           at[t].pc # "limit",
           \A u \in Threads \ {t} : at'[u].pc = at[u].pc,
           at'[t].pc \in {"execute", "opened"} => at[t].pc \in {"execute", "opened"}
    PROVE  Quiet
BY DEF Quiet, Entering

\* A step of a thread that neither asks the manager nor tells it anything.
LEMMA StepQuiet ==
    ASSUME IInv, NEW t \in Threads,
           \/ Held(t) \/ Exits(t) \/ CloseRead(t) \/ Delete(t) \/ CountRead(t)
           \/ Forget(t) \/ Recheck(t) \/ Execute(t) \/ Rearm(t) \/ Raise(t)
    PROVE  Quiet
<1>0. TypeOK /\ at \in [Threads -> Frame]
  BY DEF IInv, TypeOK
<1>1. CASE Held(t)
  BY <1>0, <1>1, MoveFacts, OneMoves DEF Held
<1>2. CASE Exits(t)
  BY <1>0, <1>2, MoveFacts, OneMoves DEF Exits
<1>3. CASE CloseRead(t)
  BY <1>0, <1>3, OneMoves DEF CloseRead, Frame
<1>4. CASE Delete(t)
  <2> DEFINE next == [at EXCEPT ![t].pc = "count"]
  <2>1. /\ next \in [Threads -> Frame]
        /\ next[t].pc = "count"
        /\ \A u \in Threads \ {t} : next[u] = at[u]
    BY <1>0 DEF Frame
  <2>2. at' = next \/ at' = Gone(Sym(t), next)
    BY <1>4 DEF Delete
  <2> HIDE DEF next
  <2>3. \A u \in Threads : at'[u].pc = next[u].pc
    BY <2>1, <2>2, GoneFacts
  <2>4. UNCHANGED <<risk, late>> /\ at[t].pc = "delete"
    BY <1>4 DEF Delete
  <2> QED
    BY <2>1, <2>3, <2>4, OneMoves
<1>5. CASE CountRead(t)
  BY <1>0, <1>5, OneMoves DEF CountRead, Frame
<1>6. CASE Forget(t)
  BY <1>0, <1>6, ReturnFacts, OneMoves DEF Forget
<1>7. CASE Recheck(t)
  BY <1>0, <1>7, MoveFacts, ReturnFacts, OneMoves DEF Recheck
<1>8. CASE Execute(t)
  BY <1>0, <1>8, MoveFacts, ReturnFacts, OneMoves DEF Execute
<1>9. CASE Rearm(t)
  BY <1>0, <1>9, ReturnFacts, OneMoves DEF Rearm
<1>10. CASE Raise(t)
  BY <1>0, <1>10, ReturnFacts, OneMoves DEF Raise
<1> QED
  BY <1>1, <1>2, <1>3, <1>4, <1>5, <1>6, <1>7, <1>8, <1>9, <1>10

\* A call that begins, and what others do to the table.
LEMMA BeginQuiet ==
    ASSUME IInv, NEW t \in Threads, NEW s \in Symbols,
           OnCandle(t, s) \/ Ask(t, s)
    PROVE  Quiet
<1>0. at \in [Threads -> Frame]
  BY DEF IInv, TypeOK
<1>1. PICK pc \in {"held", "evaluate"} : Begin(t, s, pc)
  BY DEF OnCandle, Ask
<1>2. at' = [at EXCEPT ![t] = [Idle EXCEPT !.pc = pc, !.sym = s]]
  BY <1>1 DEF Begin
<1>3. at'[t].pc = pc /\ \A u \in Threads \ {t} : at'[u] = at[u]
  BY <1>0, <1>2 DEF Idle
<1> QED
  BY <1>1, <1>3, OneMoves DEF Begin, Idle

\* What others do to the positions moves no thread.
LEMMA ElsewhereQuiet ==
    ASSUME IInv, Elsewhere
    PROVE  Quiet
<1>1. at \in [Threads -> Frame]
  BY DEF IInv, TypeOK
<1>2. \A u \in Threads : at'[u].pc = at[u].pc
  BY <1>1, GoneFacts DEF Elsewhere
<1> QED
  BY <1>2 DEF Elsewhere, Quiet, Entering

-----------------------------------------------------------------------------
(***************************************************************************)
(* The steps that ask the manager or tell it something.                    *)
(***************************************************************************)

\* A report lifts the halt of a past day, and nothing else of the three.
LEMMA ReportKeeps ==
    ASSUME IInv, Report
    PROVE  TradesBounded' /\ LossStopsTrading' /\ BreachHalts'
<1> DEFINE r == Today(risk)
<1>1. r \in Risk /\ risk \in Risk /\ late \in Nat
  BY TodayFacts DEF IInv, TypeOK
<1>2. /\ r.trades <= risk.trades
      /\ r.halted => risk.halted
      /\ r.capital = "loss" => risk.capital = "loss" /\ ~risk.past
      /\ ~risk.past => r = risk
  BY <1>1, TodayFacts
<1>3. risk' = r /\ at' = at /\ late' = IF risk.halted /\ r.halted THEN late ELSE 0
  BY DEF Report, SetRisk
<1> HIDE DEF r
<1>4. Entering' = Entering
  BY <1>3 DEF Entering
<1>5. risk.trades \in Nat /\ r.trades \in Nat
  BY <1>1 DEF Risk
<1>6. TradesBounded'
  BY <1>2, <1>3, <1>4, <1>5, EnteringFinite, LimitsAssumption DEF IInv,
     TradesBounded, Slack
<1>7. LossStopsTrading'
  BY <1>1, <1>2, <1>3, <1>4, EnteringFinite DEF IInv, LossStopsTrading, Slack
<1>8. BreachHalts'
  BY <1>2, <1>3 DEF IInv, BreachHalts
<1> QED
  BY <1>6, <1>7, <1>8

\* The loss of a close: the halt stays as it is, and the thread is about to
\* compare the loss with the limit.
LEMMA CountWriteKeeps ==
    ASSUME IInv, NEW t \in Threads, CountWrite(t)
    PROVE  TradesBounded' /\ LossStopsTrading' /\ BreachHalts'
<1>0. risk \in Risk /\ at \in [Threads -> Frame] /\ late \in Nat
  BY DEF IInv, TypeOK
<1>1. /\ at[t].pc = "counted" /\ at'[t].pc = "limit"
      /\ \A u \in Threads \ {t} : at'[u] = at[u]
  BY <1>0 DEF CountWrite, Frame
<1>2. Entering' = Entering
  BY <1>1 DEF Entering
<1>3. PICK c \in Capital :
        SetRisk([risk EXCEPT !.open = IF at[t].seen = 0 THEN 0 ELSE at[t].seen - 1,
                             !.capital = c])
  BY DEF CountWrite
<1>4. risk'.trades = risk.trades /\ risk'.halted = risk.halted
  BY <1>0, <1>3 DEF SetRisk, Risk
<1>5. risk'.halted => late' = late
  BY <1>3, <1>4 DEF SetRisk
<1>6. TradesBounded'
  BY <1>2, <1>4 DEF IInv, TradesBounded, Slack
<1>7. LossStopsTrading'
  BY <1>2, <1>4, <1>5 DEF IInv, LossStopsTrading, Slack
<1>8. BreachHalts'
  BY <1>1 DEF BreachHalts
<1> QED
  BY <1>6, <1>7, <1>8

\* The comparison: a loss becomes a halt, and the thread that halts is not
\* past the gate.
LEMMA LimitKeeps ==
    ASSUME IInv, NEW t \in Threads, Limit(t)
    PROVE  TradesBounded' /\ LossStopsTrading' /\ BreachHalts'
<1>0. TypeOK /\ risk \in Risk /\ late \in Nat
  BY DEF IInv, TypeOK
<1>1. /\ at[t].pc = "limit" /\ at'[t].pc = "forget"
      /\ \A u \in Threads \ {t} : at'[u] = at[u]
  BY <1>0, MoveFacts DEF Limit
<1>2. Entering' = Entering /\ t \notin Entering
  BY <1>1 DEF Entering
<1>3. PICK b \in BOOLEAN : /\ risk.capital = "loss" => b = TRUE
                          /\ SetRisk([risk EXCEPT !.halted = @ \/ b])
  BY <1>0 DEF Limit, Risk, Capital
<1>4. /\ risk'.trades = risk.trades
      /\ risk'.capital = risk.capital
      /\ risk'.halted = (risk.halted \/ b)
  BY <1>0, <1>3 DEF SetRisk, Risk
<1>5. late' = IF risk.halted THEN late ELSE 0
  BY <1>0, <1>3, <1>4 DEF SetRisk, Risk
<1>6. TradesBounded'
  BY <1>2, <1>4 DEF IInv, TradesBounded, Slack
<1>7. LossStopsTrading'
  BY <1>2, <1>5, OneOutside, EnteringFinite DEF IInv, LossStopsTrading, Slack
<1>8. BreachHalts'
  BY <1>3, <1>4 DEF IInv, BreachHalts
<1> QED
  BY <1>6, <1>7, <1>8

\* Whoever passes the gate while a trade is left keeps the limit, also when all
\* the threads have passed it.
LEMMA OneLeft ==
    ASSUME NEW m \in Nat, m < MaxTrades
    PROVE  m + Cardinality(Entering') <= MaxTrades + Slack
BY NextFinite, LimitsAssumption DEF Slack

\* The gate: it lets a thread through while a trade is left and there is no
\* halt, and it halts only when it does not.
LEMMA EvaluateKeeps ==
    ASSUME IInv, NEW t \in Threads, Evaluate(t)
    PROVE  TradesBounded' /\ LossStopsTrading' /\ BreachHalts'
<1> DEFINE g == CanTrade(risk)
<1>0. TypeOK /\ risk \in Risk /\ late \in Nat
  BY DEF IInv, TypeOK
<1>1. /\ g.risk \in Risk
      /\ g.risk.trades <= risk.trades
      /\ g.risk.capital = "loss" => risk.capital = "loss" /\ ~risk.past
      /\ ~risk.past /\ risk.halted => g.risk.halted
      /\ g.ok => g.risk.trades < MaxTrades /\ ~g.risk.halted
  BY <1>0, GateFacts
<1>2. /\ at[t].pc = "evaluate"
      /\ risk' = g.risk
      /\ late' = IF risk.halted /\ g.risk.halted THEN late ELSE 0
      /\ Return(t) \/ (g.ok /\ GoTo(t, "execute"))
  BY DEF Evaluate, SetRisk
<1> HIDE DEF g
<1>3. \A u \in Threads \ {t} : at'[u] = at[u]
  BY <1>0, <1>2, MoveFacts, ReturnFacts
<1>4. t \notin Entering
  BY <1>2 DEF Entering
<1>5. risk.trades \in Nat /\ g.risk.trades \in Nat
  BY <1>0, <1>1 DEF Risk
<1>6. BreachHalts'
  <2>1. ASSUME g.risk.capital = "loss"
        PROVE  risk.halted \/ \E u \in Threads : u # t /\ at[u].pc = "limit"
    BY <1>1, <1>2, <2>1 DEF IInv, BreachHalts
  <2> QED
    BY <1>1, <1>2, <1>3, <2>1 DEF BreachHalts
<1>7. CASE Return(t)
  <2>1. Entering' = Entering
    BY <1>0, <1>3, <1>4, <1>7, ReturnFacts DEF Entering
  <2>2. TradesBounded'
    BY <1>1, <1>2, <1>5, <2>1, EnteringFinite, LimitsAssumption
    DEF IInv, TradesBounded, Slack
  <2>3. LossStopsTrading'
    BY <1>2, <1>4, <2>1, OneOutside, EnteringFinite DEF IInv, LossStopsTrading,
       Slack
  <2> QED
    BY <1>6, <2>2, <2>3
<1>8. CASE g.ok /\ GoTo(t, "execute")
  <2>1. TradesBounded'
    <3>1. g.risk.trades < MaxTrades
      BY <1>1, <1>8, Zenon
    <3>2. risk' = g.risk
      BY <1>2, Zenon
    <3>3. g.risk.trades + Cardinality(Entering') <= MaxTrades + Slack
      BY <1>5, <3>1, OneLeft, Zenon
    <3> QED
      BY <3>2, <3>3 DEF TradesBounded
  <2>2. LossStopsTrading'
    <3>1. ~g.risk.halted
      BY <1>1, <1>8, Zenon
    <3>2. risk' = g.risk
      BY <1>2, Zenon
    <3> QED
      BY <3>1, <3>2, Zenon DEF LossStopsTrading
  <2> QED
    BY <1>6, <2>1, <2>2
<1> QED
  BY <1>2, <1>7, <1>8

\* A trade is counted: one thread fewer is past the gate.
LEMMA OpenedKeeps ==
    ASSUME IInv, NEW t \in Threads, Opened(t)
    PROVE  TradesBounded' /\ LossStopsTrading' /\ BreachHalts'
<1>0. TypeOK /\ risk \in Risk /\ late \in Nat
  BY DEF IInv, TypeOK
<1>1. /\ at[t].pc = "opened" /\ at'[t].pc = "rearm"
      /\ \A u \in Threads \ {t} : at'[u] = at[u]
  BY <1>0, MoveFacts DEF Opened
<1>2. Entering' = Entering \ {t} /\ t \in Entering
  BY <1>1 DEF Entering
<1>3. Cardinality(Entering') = Cardinality(Entering) - 1
  BY <1>2, EnteringFinite, FS_RemoveElement
<1>4. /\ risk'.trades = risk.trades + 1
      /\ risk'.halted = risk.halted
      /\ risk'.capital = risk.capital
      /\ risk.trades \in Nat
  BY <1>0 DEF Opened, Risk
<1>5. risk.halted => late' = late + 1
  BY DEF Opened
<1>6. TradesBounded'
  BY <1>3, <1>4, EnteringFinite, LimitsAssumption DEF IInv, TradesBounded,
     Slack
<1>7. LossStopsTrading'
  BY <1>0, <1>3, <1>4, <1>5, EnteringFinite DEF IInv, LossStopsTrading, Slack
<1>8. BreachHalts'
  BY <1>1, <1>4 DEF IInv, BreachHalts
<1> QED
  BY <1>6, <1>7, <1>8

\* The day passes: what the manager has is of yesterday.
LEMMA MidnightKeeps ==
    ASSUME IInv, Midnight
    PROVE  TradesBounded' /\ LossStopsTrading' /\ BreachHalts'
<1>1. /\ risk'.trades = risk.trades
      /\ risk'.halted = risk.halted
      /\ risk'.capital = risk.capital
  BY DEF Midnight, IInv, TypeOK, Risk
<1>2. at' = at /\ late' = late
  BY DEF Midnight
<1> QED
  BY <1>1, <1>2 DEF IInv, TradesBounded, LossStopsTrading, BreachHalts,
     Entering, Slack

\* A worker starts with nobody past the gate and a manager without a loss.
LEMMA CrashKeeps ==
    ASSUME Crash
    PROVE  TradesBounded' /\ LossStopsTrading' /\ BreachHalts'
<1>1. risk'.trades = 0 /\ risk'.halted = FALSE /\ risk'.capital = "fine"
  BY DEF Crash, NewRisk
<1>2. Entering' = {}
  BY DEF Crash, Entering, Idle
<1>3. Cardinality(Entering') = 0
  BY <1>2, FS_EmptySet
<1> QED
  BY <1>1, <1>3, EnteringFinite, LimitsAssumption
  DEF TradesBounded, LossStopsTrading, BreachHalts, Slack

-----------------------------------------------------------------------------
(***************************************************************************)
(* The theorems.                                                           *)
(***************************************************************************)

\* Every step keeps the invariant.
LEMMA NextIInv == IInv /\ [Next]_vars => IInv'
<1> SUFFICES ASSUME IInv, [Next]_vars PROVE IInv'
  OBVIOUS
<1>1. TypeOK' /\ Working'
  BY TypeStep
<1>2. TradesBounded' /\ LossStopsTrading' /\ BreachHalts'
  <2>1. ASSUME NEW t \in Threads, NEW s \in Symbols, OnCandle(t, s) \/ Ask(t, s)
        PROVE  TradesBounded' /\ LossStopsTrading' /\ BreachHalts'
    BY <2>1, BeginQuiet, QuietKeeps
  <2>2. ASSUME NEW t \in Threads, Step(t) \/ Raise(t)
        PROVE  TradesBounded' /\ LossStopsTrading' /\ BreachHalts'
    BY <2>2, StepQuiet, QuietKeeps, CountWriteKeeps, LimitKeeps, EvaluateKeeps,
       OpenedKeeps
    DEF Step
  <2>3. CASE Report
    BY <2>3, ReportKeeps
  <2>4. CASE Midnight
    BY <2>4, MidnightKeeps
  <2>5. CASE Elsewhere
    BY <2>5, ElsewhereQuiet, QuietKeeps
  <2>6. CASE Crash
    BY <2>6, CrashKeeps
  <2>7. CASE UNCHANGED vars
    <3>1. Quiet
      BY <2>7 DEF vars, Quiet, Entering
    <3> QED
      BY <3>1, QuietKeeps
  <2> QED
    BY <2>1, <2>2, <2>3, <2>4, <2>5, <2>6, <2>7 DEF Next
<1> QED
  BY <1>1, <1>2 DEF IInv

\* Whatever the threads and the days do, the manager and the frames are what
\* the code's assignments make of them, and the three limits hold together.
THEOREM Invariance == Spec => []IInv
<1> QED
  BY InitIInv, NextIInv, PTL DEF Spec

\* The counters of RiskManager and the frames of its callers stay well typed: no
\* lost update of _open_positions takes it below zero.
THEOREM TypeCorrect == Spec => []TypeOK
<1>1. IInv => TypeOK
  BY DEF IInv
<1> QED
  BY <1>1, Invariance, PTL

\* on_trade_opened counts after the order: the trades of a day exceed
\* MAX_TRADES_PER_DAY by no more than the other threads, however many.
THEOREM DayLimit == Spec => []TradesBounded
<1>1. IInv => TradesBounded
  BY DEF IInv
<1> QED
  BY <1>1, Invariance, PTL

\* After the kill switch of the risk manager only the threads that had passed
\* can_trade open a trade.
THEOREM HaltStops == Spec => []LossStopsTrading
<1>1. IInv => LossStopsTrading
  BY DEF IInv
<1> QED
  BY <1>1, Invariance, PTL

\* A day's loss at the limit has halted the manager, or the thread of
\* on_trade_closed that made it is about to.
THEOREM LossHalts == Spec => []BreachHalts
<1>1. IInv => BreachHalts
  BY DEF IInv
<1> QED
  BY <1>1, Invariance, PTL

=============================================================================
