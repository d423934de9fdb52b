------------------------- MODULE OrderRouterProofs -------------------------
(***************************************************************************)
(* Safety of OrderRouter for all values of its constants.                  *)
(*                                                                         *)
(* The invariants are proved together, as IInv: TypeOK types the state,    *)
(* ThreadOK says what a thread relies on at each control point, TableInv   *)
(* ties the columns of an order together and OwnerInv says who will write  *)
(* the outcome of an order in flight.  Each conjunct has a lemma that      *)
(* every step preserves it, with one step of the proof per action.  The    *)
(* two bounds that count, of requests and of units filled, come last: they *)
(* need an account of what is still to come (RequestInv) and of what a     *)
(* thread has loaded (FillsInv).                                           *)
(***************************************************************************)
EXTENDS OrderRouter, FiniteSetTheorems, TLAPS

\* _sync_position leaves a well-formed row, whatever it loaded.
LEMMA SyncedType ==
  ASSUME NEW loaded \in Position \cup {NoRow}, NEW d \in Detail, rowIds \in Nat
  PROVE  Synced(loaded, d) \in Position
<1> USE ConstantsAssumption, RowAssumption DEF Position, Detail
<1>1. CASE loaded = NoRow
  BY <1>1 DEF Synced
<1>2. CASE loaded \in Position
  <2>1. loaded # NoRow /\ loaded.quantity \in Nat /\ d.quantity \in Nat
    BY <1>2
  <2>2. Distance(loaded.quantity, d.quantity) \in Nat
    BY <2>1 DEF Distance
  <2>3. CASE loaded.direction = d.direction
    BY <1>2, <2>1, <2>3 DEF Synced
  <2>4. CASE loaded.direction # d.direction
    BY <1>2, <2>1, <2>2, <2>4 DEF Synced
  <2> QED BY <2>3, <2>4
<1> QED BY <1>1, <1>2

\* A fill that can be committed leaves a well-formed row in the table.
LEMMA WritePositionType ==
  ASSUME TypeOK, NEW t \in Threads, detail[cur[t]] \in Detail,
         CanWrite(t), WritePosition(t)
  PROVE  positions' \in [Keys -> Position \cup {NoRow}] /\ rowIds' \in Nat
<1> DEFINE d == detail[cur[t]]
           new == Synced(row[t], d)
<1>1. d.key \in Keys /\ row[t] \in Position \cup {NoRow} /\ rowIds \in Nat
  BY DEF TypeOK, Detail
<1>2. new \in Position
  BY <1>1, SyncedType
<1>3. CASE row[t] = NoRow
  BY <1>1, <1>2, <1>3 DEF TypeOK, WritePosition
<1>4. CASE row[t] # NoRow
  <2> DEFINE old == positions[d.key]
             upd == [old EXCEPT !.quantity =
                                    Flush(row[t].quantity, @, new.quantity),
                                !.direction =
                                    Flush(row[t].direction, @, new.direction)]
  <2>1. old \in Position
    BY <1>1, <1>4 DEF TypeOK, CanWrite
  <2>2. upd \in Position
    BY <1>2, <2>1 DEF Flush, Position
  <2>3. positions' = [positions EXCEPT ![d.key] = upd]
    BY <1>4 DEF WritePosition
  <2> QED BY <1>1, <1>4, <2>2, <2>3 DEF TypeOK, WritePosition
<1> QED BY <1>3, <1>4

\* place_order inserts an order in a mode the router really has.
LEMMA InsertedDetail ==
  ASSUME TypeOK, ThreadInv, NEW t \in Threads, NEW o \in OrderIds,
         InsertOrder(t, o)
  PROVE  detail'[o] \in Detail /\ detail' = [detail EXCEPT ![o] = detail'[o]]
<1> DEFINE new == [key |-> req[t].key, direction |-> req[t].direction,
                   quantity |-> req[t].quantity,
                   mode |-> mode[WorkerOf[t]][req[t].key[1]]]
<1>1. req[t] \in Request /\ new.mode \in Modes
  BY ConstantsAssumption DEF InsertOrder, TypeOK, ThreadInv, ThreadOK, Request,
     Keys
<1>2. new \in Detail
  BY <1>1 DEF Request, Detail
<1>3. detail' = [detail EXCEPT ![o] = new]
  BY DEF InsertOrder
<1> QED BY <1>2, <1>3 DEF TypeOK

\* Orders the broker holds are never fewer after a request.
LEMMA AcceptType ==
  ASSUME TypeOK, NEW t \in Threads, cur[t] \in OrderIds,
         Accept(t) \/ UNCHANGED broker
  PROVE  /\ broker' \in [OrderIds -> Nat]
         /\ \A p \in OrderIds : (broker[p] > 0 => broker'[p] > 0)
<1>1. CASE Accept(t)
  BY <1>1 DEF TypeOK, Accept
<1>2. CASE UNCHANGED broker
  BY <1>2 DEF TypeOK
<1> QED BY <1>1, <1>2

\* A thread between two calls satisfies ThreadOK.
LEMMA IdleThread ==
  ASSUME NEW t \in Threads, pc'[t] = "idle", tries'[t] = 0
  PROVE  ThreadOK(t)'
BY DEF ThreadOK, Executing, PaperPCs, LivePCs

\* TypeOK is preserved.
LEMMA TypeOKStep ==
  ASSUME TypeOK, ThreadInv, TableInv, [Next]_vars
  PROVE  TypeOK'
<1> USE ConstantsAssumption DEF TypeOK, Logged, Status, Executing, PCs
<1>1. ASSUME NEW t \in Threads, NEW r \in Request, PlaceOrder(t, r)
      PROVE TypeOK'
  BY <1>1 DEF PlaceOrder, Goto, tables
<1>2. ASSUME NEW t \in Threads, IdempotencyBlock(t) PROVE TypeOK'
  BY <1>2 DEF IdempotencyBlock, Return, tables
<1>3. ASSUME NEW t \in Threads, IdempotencyPass(t) PROVE TypeOK'
  BY <1>3 DEF IdempotencyPass, Goto, tables
<1>4. ASSUME NEW t \in Threads, NEW o \in OrderIds, InsertOrder(t, o)
      PROVE TypeOK'
  <2>1. detail' \in [OrderIds -> Detail \cup {NoRow}]
    BY <1>4, InsertedDetail
  <2>2. log' \in [OrderIds -> [Logged -> Nat]]
    BY <1>4 DEF InsertOrder, LogStates
  <2> QED BY <1>4, <2>1, <2>2 DEF InsertOrder, Return
<1>5. ASSUME NEW t \in Threads, NEW o \in OrderIds, ConfirmRead(t, o)
      PROVE TypeOK'
  BY <1>5 DEF ConfirmRead, Goto, tables
<1>6. ASSUME NEW t \in Threads, ConfirmReject(t) PROVE TypeOK'
  BY <1>6 DEF ConfirmReject, Return, CommitState, LogStates, ThreadInv,
     ThreadOK, Flush
<1>7. ASSUME NEW t \in Threads, ConfirmCommit(t) PROVE TypeOK'
  BY <1>7 DEF ConfirmCommit, Goto, CommitState, LogStates, ThreadInv, ThreadOK,
     Flush
<1>8. ASSUME NEW t \in Threads, ReloadConfirmed(t) PROVE TypeOK'
  BY <1>8 DEF ReloadConfirmed, Goto, tables, ThreadInv, ThreadOK
<1>9. ASSUME NEW t \in Threads, LoadPosition(t, "paper", "paperFill")
      PROVE TypeOK'
  BY <1>9 DEF LoadPosition, Goto, tables, ThreadInv, ThreadOK, TableInv, Detail
<1>10. ASSUME NEW t \in Threads, PaperFill(t) PROVE TypeOK'
  <2>1. cur[t] \in OrderIds /\ detail[cur[t]] \in Detail
    BY <1>10 DEF PaperFill, ThreadInv, ThreadOK, TableInv
  <2>2. positions' \in [Keys -> Position \cup {NoRow}] /\ rowIds' \in Nat
    BY <1>10, <2>1, WritePositionType DEF PaperFill
  <2>3. status' \in [OrderIds -> Status]
    BY <1>10, <2>1 DEF PaperFill, Flush
  <2>4. log' \in [OrderIds -> [Logged -> Nat]]
    BY <1>10, <2>1 DEF PaperFill, LogStates
  <2> QED BY <1>10, <2>2, <2>3, <2>4 DEF PaperFill, Return
<1>11. ASSUME NEW t \in Threads, LivePending(t) PROVE TypeOK'
  BY <1>11 DEF LivePending, Goto, CommitState, LogStates, ThreadInv, ThreadOK,
     Flush
<1>12. ASSUME NEW t \in Threads, LoginRaises(t) PROVE TypeOK'
  BY <1>12 DEF LoginRaises, Return, LogStates, ThreadInv, ThreadOK
<1>13. ASSUME NEW t \in Threads, LoggedIn(t) PROVE TypeOK'
  BY <1>13 DEF LoggedIn, Goto, tables, ThreadInv, ThreadOK
<1>14. ASSUME NEW t \in Threads, UnknownSymbol(t) PROVE TypeOK'
  BY <1>14 DEF UnknownSymbol, Return, CommitState, LogStates, ThreadInv,
     ThreadOK, Flush
<1>15. ASSUME NEW t \in Threads, BrokerAccepts(t) PROVE TypeOK'
  BY <1>15 DEF BrokerAccepts, Accept, ThreadInv, ThreadOK
<1>16. ASSUME NEW t \in Threads, RequestRaises(t) PROVE TypeOK'
  <2>1. cur[t] \in OrderIds
    BY <1>16 DEF RequestRaises, Goto, ThreadInv, ThreadOK
  <2>2. broker' \in [OrderIds -> Nat]
    BY <1>16, <2>1, AcceptType DEF RequestRaises
  <2> QED BY <1>16, <2>2 DEF RequestRaises, Goto
<1>17. ASSUME NEW t \in Threads, AttemptFails(t) PROVE TypeOK'
  <2>1. tries[t] \in Nat /\ tries[t] < MaxAttempts /\ cur[t] \in OrderIds
    BY <1>17 DEF AttemptFails, ThreadInv, ThreadOK
  <2>2. tries' \in [Threads -> 0 .. MaxAttempts]
    BY <1>17, <2>1 DEF AttemptFails
  <2>3. broker' \in [OrderIds -> Nat]
    BY <1>17, <2>1, AcceptType DEF AttemptFails
  <2> QED BY <1>17, <2>2, <2>3 DEF AttemptFails
<1>18. ASSUME NEW t \in Threads, LoadPosition(t, "accepted", "liveFill")
       PROVE TypeOK'
  BY <1>18 DEF LoadPosition, Goto, tables, ThreadInv, ThreadOK, TableInv,
     Detail
<1>19. ASSUME NEW t \in Threads, LiveFill(t) PROVE TypeOK'
  <2>1. cur[t] \in OrderIds /\ detail[cur[t]] \in Detail
    BY <1>19 DEF LiveFill, ThreadInv, ThreadOK, TableInv
  <2>2. positions' \in [Keys -> Position \cup {NoRow}] /\ rowIds' \in Nat
    BY <1>19, <2>1, WritePositionType DEF LiveFill
  <2>3. status' \in [OrderIds -> Status]
    BY <1>19, <2>1 DEF LiveFill, CommitState, Flush
  <2>4. log' \in [OrderIds -> [Logged -> Nat]]
    BY <1>19, <2>1 DEF LiveFill, CommitState, LogStates
  <2> QED BY <1>19, <2>2, <2>3, <2>4 DEF LiveFill, Return
<1>20. ASSUME NEW t \in Threads, LiveFail(t) PROVE TypeOK'
  BY <1>20 DEF LiveFail, Return, CommitState, LogStates, ThreadInv, ThreadOK,
     Flush
<1>21. ASSUME NEW t \in Threads, CommitRaises(t) PROVE TypeOK'
  BY <1>21 DEF CommitRaises, Return, ThreadInv, ThreadOK
<1>22. ASSUME NEW t \in Threads, NEW k \in Keys, CloseRead(t, k) PROVE TypeOK'
  BY <1>22 DEF CloseRead, Goto, tables, CloseRequest
<1>23. ASSUME NEW t \in Threads, CloseCommit(t) PROVE TypeOK'
  <2> DEFINE k == req[t].key
             left == IF positions[k] # NoRow /\ positions[k].id = row[t].id
                     THEN NoRow ELSE positions[k]
  <2>1. positions' = [positions EXCEPT ![k] = left]
    BY <1>23 DEF CloseCommit
  <2>2. k \in Keys
    BY <1>23 DEF CloseCommit, ThreadInv, ThreadOK, CloseRequest
  <2>3. left \in Position \cup {NoRow}
    BY <2>2
  <2>4. positions' \in [Keys -> Position \cup {NoRow}]
    BY <2>1, <2>3
  <2> QED BY <1>23, <2>4 DEF CloseCommit, Return
<1>24. ASSUME NEW w \in Workers, NEW u \in Users, GetExecutor(w, u)
       PROVE TypeOK'
  BY <1>24 DEF GetExecutor, tables, locals, SafeMode, Modes, Settings
<1>25. ASSUME NEW o \in OrderIds, Age(o) PROVE TypeOK'
  BY <1>25 DEF Age, locals
<1>26. ASSUME NEW w \in Workers, NEW e \in Envs, Crash(w, e) PROVE TypeOK'
  <2>1. /\ env' \in [Workers -> Envs]
        /\ mode' \in [Workers -> [Users -> Modes \cup {"UNSET"}]]
    BY <1>26 DEF Crash
  <2>2. \A t \in Threads : pc[t] \in Executing => cur[t] \in OrderIds
    BY DEF ThreadInv, ThreadOK
  <2>3. aborted' \subseteq OrderIds
    BY <1>26, <2>2 DEF Crash
  <2>4. /\ pc' \in [Threads -> PCs]
        /\ cur' \in [Threads -> OrderIds \cup {NoOrder}]
    BY <1>26 DEF Crash
  <2>5. /\ seen' \in [Threads -> Status]
        /\ row' \in [Threads -> Position \cup {NoRow}]
    BY <1>26 DEF Crash
  <2>6. req' \in [Threads -> Request \cup CloseRequest \cup {NoRow}]
    BY <1>26 DEF Crash
  <2>7. tries' \in [Threads -> 0 .. MaxAttempts]
    BY <1>26 DEF Crash
  <2> QED BY <1>26, <2>1, <2>3, <2>4, <2>5, <2>6, <2>7 DEF Crash
<1>27. CASE UNCHANGED vars
  BY <1>27 DEF vars, tables, locals
<1> QED BY <1>1, <1>2, <1>3, <1>4, <1>5, <1>6, <1>7, <1>8, <1>9, <1>10, <1>11,
   <1>12, <1>13, <1>14, <1>15, <1>16, <1>17, <1>18, <1>19, <1>20, <1>21, <1>22,
   <1>23, <1>24, <1>25, <1>26, <1>27 DEF Next, Call, Step

\* Orders are never deleted, their columns other than status never change, and
\* log rows and broker orders only accumulate.
Grows(o) ==
    status[o] # "ABSENT" =>
        /\ status'[o] # "ABSENT"
        /\ detail'[o] = detail[o]
        /\ (broker[o] > 0 => broker'[o] > 0)
        /\ \A s \in Logged : (log[o][s] > 0 => log'[o][s] > 0)

\* No step takes anything back from an order.
LEMMA GrowsStep ==
  ASSUME TypeOK, ThreadInv, TableInv, [Next]_vars
  PROVE  \A p \in OrderIds : Grows(p)
<1> USE ConstantsAssumption DEF Grows, TypeOK, Logged, Status
<1>1. ASSUME NEW t \in Threads, NEW r \in Request, PlaceOrder(t, r)
      PROVE \A p \in OrderIds : Grows(p)
  BY <1>1 DEF PlaceOrder, Goto, tables, ThreadInv, ThreadOK, TableInv, Flush,
     Executing
<1>2. ASSUME NEW t \in Threads, IdempotencyBlock(t)
      PROVE \A p \in OrderIds : Grows(p)
  BY <1>2 DEF IdempotencyBlock, Return, tables, ThreadInv, ThreadOK, TableInv,
     Flush, Executing
<1>3. ASSUME NEW t \in Threads, IdempotencyPass(t)
      PROVE \A p \in OrderIds : Grows(p)
  BY <1>3 DEF IdempotencyPass, Goto, tables, ThreadInv, ThreadOK, TableInv,
     Flush, Executing
<1>4. ASSUME NEW t \in Threads, NEW o \in OrderIds, InsertOrder(t, o)
      PROVE \A p \in OrderIds : Grows(p)
  BY <1>4 DEF InsertOrder, Return, LogStates, ThreadInv, ThreadOK, TableInv,
     Flush, Executing
<1>5. ASSUME NEW t \in Threads, NEW o \in OrderIds, ConfirmRead(t, o)
      PROVE \A p \in OrderIds : Grows(p)
  BY <1>5 DEF ConfirmRead, Goto, tables, ThreadInv, ThreadOK, TableInv, Flush,
     Executing
<1>6. ASSUME NEW t \in Threads, ConfirmReject(t)
      PROVE \A p \in OrderIds : Grows(p)
  BY <1>6 DEF ConfirmReject, Return, CommitState, LogStates, ThreadInv,
     ThreadOK, TableInv, Flush, Executing
<1>7. ASSUME NEW t \in Threads, ConfirmCommit(t)
      PROVE \A p \in OrderIds : Grows(p)
  BY <1>7 DEF ConfirmCommit, Goto, CommitState, LogStates, ThreadInv, ThreadOK,
     TableInv, Flush, Executing
<1>8. ASSUME NEW t \in Threads, ReloadConfirmed(t)
      PROVE \A p \in OrderIds : Grows(p)
  BY <1>8 DEF ReloadConfirmed, Goto, tables, ThreadInv, ThreadOK, TableInv,
     Flush, Executing
<1>9. ASSUME NEW t \in Threads, LoadPosition(t, "paper", "paperFill")
      PROVE \A p \in OrderIds : Grows(p)
  BY <1>9 DEF LoadPosition, Goto, tables, ThreadInv, ThreadOK, TableInv, Flush,
     Executing
<1>10. ASSUME NEW t \in Threads, PaperFill(t)
       PROVE \A p \in OrderIds : Grows(p)
  BY <1>10 DEF PaperFill, Return, LogStates, ThreadInv, ThreadOK, TableInv,
     Flush, Executing
<1>11. ASSUME NEW t \in Threads, LivePending(t)
       PROVE \A p \in OrderIds : Grows(p)
  BY <1>11 DEF LivePending, Goto, CommitState, LogStates, ThreadInv, ThreadOK,
     TableInv, Flush, Executing
<1>12. ASSUME NEW t \in Threads, LoginRaises(t)
       PROVE \A p \in OrderIds : Grows(p)
  BY <1>12 DEF LoginRaises, Return, LogStates, ThreadInv, ThreadOK, TableInv,
     Flush, Executing
<1>13. ASSUME NEW t \in Threads, LoggedIn(t) PROVE \A p \in OrderIds : Grows(p)
  BY <1>13 DEF LoggedIn, Goto, tables, ThreadInv, ThreadOK, TableInv, Flush,
     Executing
<1>14. ASSUME NEW t \in Threads, UnknownSymbol(t)
       PROVE \A p \in OrderIds : Grows(p)
  BY <1>14 DEF UnknownSymbol, Return, CommitState, LogStates, ThreadInv,
     ThreadOK, TableInv, Flush, Executing
<1>15. ASSUME NEW t \in Threads, BrokerAccepts(t)
       PROVE \A p \in OrderIds : Grows(p)
  BY <1>15 DEF BrokerAccepts, Accept, ThreadInv, ThreadOK, TableInv, Flush,
     Executing
<1>16. ASSUME NEW t \in Threads, RequestRaises(t)
       PROVE \A p \in OrderIds : Grows(p)
  <2>1. cur[t] \in OrderIds
    BY <1>16 DEF RequestRaises, Goto, ThreadInv, ThreadOK, Executing
  <2> QED BY <1>16, <2>1, AcceptType DEF RequestRaises
<1>17. ASSUME NEW t \in Threads, AttemptFails(t)
       PROVE \A p \in OrderIds : Grows(p)
  <2>1. cur[t] \in OrderIds
    BY <1>17 DEF AttemptFails, ThreadInv, ThreadOK, Executing
  <2> QED BY <1>17, <2>1, AcceptType DEF AttemptFails
<1>18. ASSUME NEW t \in Threads, LoadPosition(t, "accepted", "liveFill")
       PROVE \A p \in OrderIds : Grows(p)
  BY <1>18 DEF LoadPosition, Goto, tables, ThreadInv, ThreadOK, TableInv,
     Flush, Executing
<1>19. ASSUME NEW t \in Threads, LiveFill(t) PROVE \A p \in OrderIds : Grows(p)
  BY <1>19 DEF LiveFill, Return, CommitState, LogStates, ThreadInv, ThreadOK,
     TableInv, Flush, Executing
<1>20. ASSUME NEW t \in Threads, LiveFail(t) PROVE \A p \in OrderIds : Grows(p)
  BY <1>20 DEF LiveFail, Return, CommitState, LogStates, ThreadInv, ThreadOK,
     TableInv, Flush, Executing
<1>21. ASSUME NEW t \in Threads, CommitRaises(t)
       PROVE \A p \in OrderIds : Grows(p)
  BY <1>21 DEF CommitRaises, Return, ThreadInv, ThreadOK, TableInv, Flush,
     Executing
<1>22. ASSUME NEW t \in Threads, NEW k \in Keys, CloseRead(t, k)
       PROVE \A p \in OrderIds : Grows(p)
  BY <1>22 DEF CloseRead, Goto, tables, ThreadInv, ThreadOK, TableInv, Flush,
     Executing
<1>23. ASSUME NEW t \in Threads, CloseCommit(t)
       PROVE \A p \in OrderIds : Grows(p)
  BY <1>23 DEF CloseCommit, Return, ThreadInv, ThreadOK, TableInv, Flush,
     Executing
<1>24. ASSUME NEW w \in Workers, NEW u \in Users, GetExecutor(w, u)
       PROVE \A p \in OrderIds : Grows(p)
  BY <1>24 DEF GetExecutor, tables, locals, ThreadInv, ThreadOK, TableInv,
     Flush, Executing
<1>25. ASSUME NEW o \in OrderIds, Age(o) PROVE \A p \in OrderIds : Grows(p)
  BY <1>25 DEF Age, locals, ThreadInv, ThreadOK, TableInv, Flush, Executing
<1>26. ASSUME NEW w \in Workers, NEW e \in Envs, Crash(w, e)
       PROVE \A p \in OrderIds : Grows(p)
  BY <1>26 DEF Crash, ThreadInv, ThreadOK, TableInv, Flush, Executing
<1>27. CASE UNCHANGED vars
  BY <1>27 DEF vars, tables, locals, ThreadInv, ThreadOK, TableInv, Flush,
     Executing
<1> QED BY <1>1, <1>2, <1>3, <1>4, <1>5, <1>6, <1>7, <1>8, <1>9, <1>10, <1>11,
   <1>12, <1>13, <1>14, <1>15, <1>16, <1>17, <1>18, <1>19, <1>20, <1>21, <1>22,
   <1>23, <1>24, <1>25, <1>26, <1>27 DEF Next, Call, Step

\* A step of another thread or worker does not disturb what a thread relies on.
LEMMA UndisturbedThread ==
  ASSUME TypeOK, NEW x \in Threads, ThreadOK(x), \A p \in OrderIds : Grows(p),
         pc'[x] = pc[x], cur'[x] = cur[x], req'[x] = req[x],
         tries'[x] = tries[x],
         env'[WorkerOf[x]] = env[WorkerOf[x]],
         \A v \in Users : mode[WorkerOf[x]][v] # "UNSET"
            => mode'[WorkerOf[x]][v] # "UNSET"
  PROVE  ThreadOK(x)'
<1> USE ConstantsAssumption DEF TypeOK, ThreadOK, Grows
<1>1. pc[x] \in Executing => cur[x] \in OrderIds /\ status[cur[x]] # "ABSENT"
  OBVIOUS
<1>2. pc[x] \in PaperPCs \cup LivePCs \cup {"confirmed"}
         => detail'[cur[x]] = detail[cur[x]]
  BY <1>1 DEF Executing, PaperPCs, LivePCs
<1>a1. pc[x] \in LivePCs \ {"live"} => pc[x] \in Executing
  BY DEF LivePCs
<1>b1. "PENDING_EXECUTION" \in Logged
  BY DEF Logged
<1>3. pc[x] \in LivePCs \ {"live"} => log'[cur[x]]["PENDING_EXECUTION"] > 0
  BY <1>1, <1>a1, <1>b1
<1>4. pc[x] \in {"accepted", "liveFill"} => broker'[cur[x]] > 0
  BY <1>1 DEF Executing
<1>5. pc[x] \in {"gated", "insert"}
         => req[x] \in Request /\ mode'[WorkerOf[x]][req[x].key[1]] # "UNSET"
  BY DEF Request, Keys
<1> QED BY <1>1, <1>2, <1>3, <1>4, <1>5 DEF EnvOf, Executing

\* ThreadInv is preserved: the thread that moves, then all the others.
LEMMA ThreadInvStep ==
  ASSUME TypeOK, ThreadInv, TableInv, [Next]_vars
  PROVE  ThreadInv'
<1> USE ConstantsAssumption
<1> SUFFICES ASSUME NEW x \in Threads PROVE ThreadOK(x)'
  BY DEF ThreadInv
<1> ThreadOK(x) /\ \A p \in OrderIds : Grows(p)
  BY GrowsStep DEF ThreadInv
<1>1. ASSUME NEW t \in Threads, NEW r \in Request, PlaceOrder(t, r)
      PROVE ThreadOK(x)'
  <2>1. CASE x = t
    BY <1>1, <2>1 DEF PlaceOrder, Goto, tables, ThreadOK, TableInv, Executing,
       PaperPCs, LivePCs, EnvOf, TypeOK
  <2>2. CASE x # t
    BY <1>1, <2>2, UndisturbedThread DEF PlaceOrder, Goto, tables, TypeOK
  <2> QED BY <2>1, <2>2
<1>2. ASSUME NEW t \in Threads, IdempotencyBlock(t) PROVE ThreadOK(x)'
  <2>1. CASE x = t
    <3> pc'[t] = "idle"
      BY <1>2 DEF IdempotencyBlock, Return, TypeOK
    <3> tries'[t] = 0
      BY <1>2 DEF IdempotencyBlock, Return, TypeOK
    <3> QED BY <2>1, IdleThread
  <2>2. CASE x # t
    BY <1>2, <2>2, UndisturbedThread DEF IdempotencyBlock, Return, tables,
       TypeOK
  <2> QED BY <2>1, <2>2
<1>3. ASSUME NEW t \in Threads, IdempotencyPass(t) PROVE ThreadOK(x)'
  <2>1. CASE x = t
    BY <1>3, <2>1 DEF IdempotencyPass, Goto, tables, ThreadOK, TableInv,
       Executing, PaperPCs, LivePCs, EnvOf, TypeOK
  <2>2. CASE x # t
    BY <1>3, <2>2, UndisturbedThread DEF IdempotencyPass, Goto, tables, TypeOK
  <2> QED BY <2>1, <2>2
<1>4. ASSUME NEW t \in Threads, NEW o \in OrderIds, InsertOrder(t, o)
      PROVE ThreadOK(x)'
  <2>1. CASE x = t
    <3> pc'[t] = "idle"
      BY <1>4 DEF InsertOrder, Return, TypeOK
    <3> tries'[t] = 0
      BY <1>4 DEF InsertOrder, Return, TypeOK
    <3> QED BY <2>1, IdleThread
  <2>2. CASE x # t
    BY <1>4, <2>2, UndisturbedThread DEF InsertOrder, Return, LogStates, TypeOK
  <2> QED BY <2>1, <2>2
<1>5. ASSUME NEW t \in Threads, NEW o \in OrderIds, ConfirmRead(t, o)
      PROVE ThreadOK(x)'
  <2>1. CASE x = t
    BY <1>5, <2>1 DEF ConfirmRead, Goto, tables, ThreadOK, TableInv, Executing,
       PaperPCs, LivePCs, EnvOf, TypeOK
  <2>2. CASE x # t
    BY <1>5, <2>2, UndisturbedThread DEF ConfirmRead, Goto, tables, TypeOK
  <2> QED BY <2>1, <2>2
<1>6. ASSUME NEW t \in Threads, ConfirmReject(t) PROVE ThreadOK(x)'
  <2>1. CASE x = t
    <3> pc'[t] = "idle"
      BY <1>6 DEF ConfirmReject, Return, TypeOK
    <3> tries'[t] = 0
      BY <1>6 DEF ConfirmReject, Return, TypeOK
    <3> QED BY <2>1, IdleThread
  <2>2. CASE x # t
    BY <1>6, <2>2, UndisturbedThread DEF ConfirmReject, Return, CommitState,
       LogStates, TypeOK
  <2> QED BY <2>1, <2>2
<1>7. ASSUME NEW t \in Threads, ConfirmCommit(t) PROVE ThreadOK(x)'
  <2>1. CASE x = t
    BY <1>7, <2>1 DEF ConfirmCommit, Goto, CommitState, LogStates, Grows,
       ThreadOK, Executing, PaperPCs, LivePCs, EnvOf
  <2>2. CASE x # t
    BY <1>7, <2>2, UndisturbedThread DEF ConfirmCommit, Goto, CommitState,
       LogStates, TypeOK
  <2> QED BY <2>1, <2>2
<1>8. ASSUME NEW t \in Threads, ReloadConfirmed(t) PROVE ThreadOK(x)'
  <2>1. CASE x = t
    BY <1>8, <2>1 DEF ReloadConfirmed, Goto, tables, TypeOK, TableInv, Detail,
       Modes, ThreadOK, Executing, PaperPCs, LivePCs, EnvOf
  <2>2. CASE x # t
    BY <1>8, <2>2, UndisturbedThread DEF ReloadConfirmed, Goto, tables, TypeOK
  <2> QED BY <2>1, <2>2
<1>9. ASSUME NEW t \in Threads, LoadPosition(t, "paper", "paperFill")
      PROVE ThreadOK(x)'
  <2>1. CASE x = t
    BY <1>9, <2>1 DEF LoadPosition, Goto, tables, ThreadOK, TableInv,
       Executing, PaperPCs, LivePCs, EnvOf, TypeOK
  <2>2. CASE x # t
    BY <1>9, <2>2, UndisturbedThread DEF LoadPosition, Goto, tables, TypeOK
  <2> QED BY <2>1, <2>2
<1>10. ASSUME NEW t \in Threads, PaperFill(t) PROVE ThreadOK(x)'
  <2>1. CASE x = t
    <3> pc'[t] = "idle"
      BY <1>10 DEF PaperFill, Return, TypeOK
    <3> tries'[t] = 0
      BY <1>10 DEF PaperFill, Return, TypeOK
    <3> QED BY <2>1, IdleThread
  <2>2. CASE x # t
    BY <1>10, <2>2, UndisturbedThread DEF PaperFill, Return, LogStates, TypeOK
  <2> QED BY <2>1, <2>2
<1>11. ASSUME NEW t \in Threads, LivePending(t) PROVE ThreadOK(x)'
  <2>1. CASE x = t
    BY <1>11, <2>1 DEF LivePending, Goto, CommitState, LogStates, Grows,
       Logged, TypeOK, ThreadOK, Executing, PaperPCs, LivePCs, EnvOf
  <2>2. CASE x # t
    BY <1>11, <2>2, UndisturbedThread DEF LivePending, Goto, CommitState,
       LogStates, TypeOK
  <2> QED BY <2>1, <2>2
<1>12. ASSUME NEW t \in Threads, LoginRaises(t) PROVE ThreadOK(x)'
  <2>1. CASE x = t
    <3> pc'[t] = "idle"
      BY <1>12 DEF LoginRaises, Return, TypeOK
    <3> tries'[t] = 0
      BY <1>12 DEF LoginRaises, Return, TypeOK
    <3> QED BY <2>1, IdleThread
  <2>2. CASE x # t
    BY <1>12, <2>2, UndisturbedThread DEF LoginRaises, Return, LogStates,
       TypeOK
  <2> QED BY <2>1, <2>2
<1>13. ASSUME NEW t \in Threads, LoggedIn(t) PROVE ThreadOK(x)'
  <2>1. CASE x = t
    BY <1>13, <2>1 DEF LoggedIn, Goto, tables, ThreadOK, TableInv, Executing,
       PaperPCs, LivePCs, EnvOf, TypeOK
  <2>2. CASE x # t
    BY <1>13, <2>2, UndisturbedThread DEF LoggedIn, Goto, tables, TypeOK
  <2> QED BY <2>1, <2>2
<1>14. ASSUME NEW t \in Threads, UnknownSymbol(t) PROVE ThreadOK(x)'
  <2>1. CASE x = t
    <3> pc'[t] = "idle"
      BY <1>14 DEF UnknownSymbol, Return, TypeOK
    <3> tries'[t] = 0
      BY <1>14 DEF UnknownSymbol, Return, TypeOK
    <3> QED BY <2>1, IdleThread
  <2>2. CASE x # t
    BY <1>14, <2>2, UndisturbedThread DEF UnknownSymbol, Return, CommitState,
       LogStates, TypeOK
  <2> QED BY <2>1, <2>2
<1>15. ASSUME NEW t \in Threads, BrokerAccepts(t) PROVE ThreadOK(x)'
  <2>1. CASE x = t
    <3>1. cur[t] \in OrderIds /\ pc'[t] = "accepted" /\ cur'[t] = cur[t]
      BY <1>15 DEF BrokerAccepts, ThreadOK, ThreadInv, Executing, TypeOK
    <3>2. broker'[cur[t]] > 0
      BY <1>15, <3>1 DEF BrokerAccepts, Accept, TypeOK
    <3> QED BY <1>15, <2>1, <3>1, <3>2 DEF BrokerAccepts, ThreadOK, Executing,
       PaperPCs, LivePCs, EnvOf
  <2>2. CASE x # t
    BY <1>15, <2>2, UndisturbedThread DEF BrokerAccepts, Accept, TypeOK
  <2> QED BY <2>1, <2>2
<1>16. ASSUME NEW t \in Threads, RequestRaises(t) PROVE ThreadOK(x)'
  <2>1. CASE x = t
    BY <1>16, <2>1, AcceptType DEF RequestRaises, Goto, ThreadOK, Executing,
       PaperPCs, LivePCs, EnvOf, TypeOK
  <2>2. CASE x # t
    BY <1>16, <2>2, UndisturbedThread DEF RequestRaises, Goto, Accept, TypeOK
  <2> QED BY <2>1, <2>2
<1>17. ASSUME NEW t \in Threads, AttemptFails(t) PROVE ThreadOK(x)'
  <2>1. CASE x = t
    BY <1>17, <2>1, AcceptType DEF AttemptFails, ThreadOK, Executing, PaperPCs,
       LivePCs, EnvOf, TypeOK
  <2>2. CASE x # t
    BY <1>17, <2>2, UndisturbedThread DEF AttemptFails, Accept, TypeOK
  <2> QED BY <2>1, <2>2
<1>18. ASSUME NEW t \in Threads, LoadPosition(t, "accepted", "liveFill")
       PROVE ThreadOK(x)'
  <2>1. CASE x = t
    BY <1>18, <2>1 DEF LoadPosition, Goto, tables, ThreadOK, TableInv,
       Executing, PaperPCs, LivePCs, EnvOf, TypeOK
  <2>2. CASE x # t
    BY <1>18, <2>2, UndisturbedThread DEF LoadPosition, Goto, tables, TypeOK
  <2> QED BY <2>1, <2>2
<1>19. ASSUME NEW t \in Threads, LiveFill(t) PROVE ThreadOK(x)'
  <2>1. CASE x = t
    <3> pc'[t] = "idle"
      BY <1>19 DEF LiveFill, Return, TypeOK
    <3> tries'[t] = 0
      BY <1>19 DEF LiveFill, Return, TypeOK
    <3> QED BY <2>1, IdleThread
  <2>2. CASE x # t
    BY <1>19, <2>2, UndisturbedThread DEF LiveFill, Return, CommitState,
       LogStates, TypeOK
  <2> QED BY <2>1, <2>2
<1>20. ASSUME NEW t \in Threads, LiveFail(t) PROVE ThreadOK(x)'
  <2>1. CASE x = t
    <3> pc'[t] = "idle"
      BY <1>20 DEF LiveFail, Return, TypeOK
    <3> tries'[t] = 0
      BY <1>20 DEF LiveFail, Return, TypeOK
    <3> QED BY <2>1, IdleThread
  <2>2. CASE x # t
    BY <1>20, <2>2, UndisturbedThread DEF LiveFail, Return, CommitState,
       LogStates, TypeOK
  <2> QED BY <2>1, <2>2
<1>21. ASSUME NEW t \in Threads, CommitRaises(t) PROVE ThreadOK(x)'
  <2>1. CASE x = t
    <3> pc'[t] = "idle"
      BY <1>21 DEF CommitRaises, Return, TypeOK
    <3> tries'[t] = 0
      BY <1>21 DEF CommitRaises, Return, TypeOK
    <3> QED BY <2>1, IdleThread
  <2>2. CASE x # t
    BY <1>21, <2>2, UndisturbedThread DEF CommitRaises, Return, TypeOK
  <2> QED BY <2>1, <2>2
<1>22. ASSUME NEW t \in Threads, NEW k \in Keys, CloseRead(t, k)
       PROVE ThreadOK(x)'
  <2>1. CASE x = t
    BY <1>22, <2>1 DEF CloseRead, Goto, tables, CloseRequest, TypeOK, ThreadOK,
       Executing, PaperPCs, LivePCs, EnvOf
  <2>2. CASE x # t
    BY <1>22, <2>2, UndisturbedThread DEF CloseRead, Goto, tables, TypeOK
  <2> QED BY <2>1, <2>2
<1>23. ASSUME NEW t \in Threads, CloseCommit(t) PROVE ThreadOK(x)'
  <2>1. CASE x = t
    <3> pc'[t] = "idle"
      BY <1>23 DEF CloseCommit, Return, TypeOK
    <3> tries'[t] = 0
      BY <1>23 DEF CloseCommit, Return, TypeOK
    <3> QED BY <2>1, IdleThread
  <2>2. CASE x # t
    BY <1>23, <2>2, UndisturbedThread DEF CloseCommit, Return, TypeOK
  <2> QED BY <2>1, <2>2
<1>24. ASSUME NEW w \in Workers, NEW u \in Users, GetExecutor(w, u)
       PROVE ThreadOK(x)'
  <2> \A v \in Users : mode'[WorkerOf[x]][v] = "UNSET"
            => mode[WorkerOf[x]][v] = "UNSET"
    BY <1>24, UndisturbedThread DEF GetExecutor, SafeMode, TypeOK, Settings,
       Modes
  <2> QED BY <1>24, UndisturbedThread DEF GetExecutor, tables, locals
<1>25. ASSUME NEW o \in OrderIds, Age(o) PROVE ThreadOK(x)'
  BY <1>25, UndisturbedThread DEF Age, locals, TypeOK
<1>26. ASSUME NEW w \in Workers, NEW e \in Envs, Crash(w, e) PROVE ThreadOK(x)'
  <2>1. CASE WorkerOf[x] = w
    <3> pc'[x] = "idle"
      BY <1>26, <2>1 DEF Crash
    <3> tries'[x] = 0
      BY <1>26, <2>1 DEF Crash
    <3> QED BY IdleThread
  <2>2. CASE WorkerOf[x] # w
    BY <1>26, <2>2, UndisturbedThread DEF Crash, TypeOK
  <2> QED BY <2>1, <2>2
<1>27. CASE UNCHANGED vars
  BY <1>27, UndisturbedThread DEF vars, tables, locals
<1> QED BY <1>1, <1>2, <1>3, <1>4, <1>5, <1>6, <1>7, <1>8, <1>9, <1>10, <1>11,
   <1>12, <1>13, <1>14, <1>15, <1>16, <1>17, <1>18, <1>19, <1>20, <1>21, <1>22,
   <1>23, <1>24, <1>25, <1>26, <1>27 DEF Next, Call, Step

\* TableInv is preserved: only place_order creates an order.
LEMMA TableInvStep ==
  ASSUME TypeOK, ThreadInv, TableInv, [Next]_vars
  PROVE  TableInv'
<1> USE ConstantsAssumption DEF TypeOK, ThreadInv, ThreadOK, TableInv, Logged,
   Status, Executing, Flush
<1>1. ASSUME NEW t \in Threads, NEW r \in Request, PlaceOrder(t, r)
      PROVE TableInv'
  BY <1>1 DEF PlaceOrder, Goto, tables
<1>2. ASSUME NEW t \in Threads, IdempotencyBlock(t) PROVE TableInv'
  BY <1>2 DEF IdempotencyBlock, Return, tables
<1>3. ASSUME NEW t \in Threads, IdempotencyPass(t) PROVE TableInv'
  BY <1>3 DEF IdempotencyPass, Goto, tables
<1>4. ASSUME NEW t \in Threads, NEW o \in OrderIds, InsertOrder(t, o)
      PROVE TableInv'
  <2>1. detail'[o] # NoRow /\ detail' = [detail EXCEPT ![o] = detail'[o]]
    BY <1>4, InsertedDetail, RowAssumption
  <2>2. /\ status'[o] = "PENDING_CONFIRMATION"
        /\ \A p \in OrderIds \ {o} : status'[p] = status[p] /\ log'[p] = log[p]
    BY <1>4 DEF InsertOrder, LogStates
  <2> QED BY <2>1, <2>2
<1>5. ASSUME NEW t \in Threads, NEW o \in OrderIds, ConfirmRead(t, o)
      PROVE TableInv'
  BY <1>5 DEF ConfirmRead, Goto, tables
<1>6. ASSUME NEW t \in Threads, ConfirmReject(t) PROVE TableInv'
  BY <1>6 DEF ConfirmReject, Return, CommitState, LogStates
<1>7. ASSUME NEW t \in Threads, ConfirmCommit(t) PROVE TableInv'
  BY <1>7 DEF ConfirmCommit, Goto, CommitState, LogStates
<1>8. ASSUME NEW t \in Threads, ReloadConfirmed(t) PROVE TableInv'
  BY <1>8 DEF ReloadConfirmed, Goto, tables
<1>9. ASSUME NEW t \in Threads, LoadPosition(t, "paper", "paperFill")
      PROVE TableInv'
  BY <1>9 DEF LoadPosition, Goto, tables
<1>10. ASSUME NEW t \in Threads, PaperFill(t) PROVE TableInv'
  BY <1>10 DEF PaperFill, Return, LogStates
<1>11. ASSUME NEW t \in Threads, LivePending(t) PROVE TableInv'
  BY <1>11 DEF LivePending, Goto, CommitState, LogStates
<1>12. ASSUME NEW t \in Threads, LoginRaises(t) PROVE TableInv'
  BY <1>12 DEF LoginRaises, Return, LogStates
<1>13. ASSUME NEW t \in Threads, LoggedIn(t) PROVE TableInv'
  BY <1>13 DEF LoggedIn, Goto, tables
<1>14. ASSUME NEW t \in Threads, UnknownSymbol(t) PROVE TableInv'
  BY <1>14 DEF UnknownSymbol, Return, CommitState, LogStates
<1>15. ASSUME NEW t \in Threads, BrokerAccepts(t) PROVE TableInv'
  BY <1>15 DEF BrokerAccepts, Accept
<1>16. ASSUME NEW t \in Threads, RequestRaises(t) PROVE TableInv'
  BY <1>16 DEF RequestRaises, Goto, Accept
<1>17. ASSUME NEW t \in Threads, AttemptFails(t) PROVE TableInv'
  BY <1>17 DEF AttemptFails, Accept
<1>18. ASSUME NEW t \in Threads, LoadPosition(t, "accepted", "liveFill")
       PROVE TableInv'
  BY <1>18 DEF LoadPosition, Goto, tables
<1>19. ASSUME NEW t \in Threads, LiveFill(t) PROVE TableInv'
  BY <1>19 DEF LiveFill, Return, CommitState, LogStates
<1>20. ASSUME NEW t \in Threads, LiveFail(t) PROVE TableInv'
  BY <1>20 DEF LiveFail, Return, CommitState, LogStates
<1>21. ASSUME NEW t \in Threads, CommitRaises(t) PROVE TableInv'
  BY <1>21 DEF CommitRaises, Return
<1>22. ASSUME NEW t \in Threads, NEW k \in Keys, CloseRead(t, k)
       PROVE TableInv'
  BY <1>22 DEF CloseRead, Goto, tables
<1>23. ASSUME NEW t \in Threads, CloseCommit(t) PROVE TableInv'
  BY <1>23 DEF CloseCommit, Return
<1>24. ASSUME NEW w \in Workers, NEW u \in Users, GetExecutor(w, u)
       PROVE TableInv'
  BY <1>24 DEF GetExecutor, tables, locals
<1>25. ASSUME NEW o \in OrderIds, Age(o) PROVE TableInv'
  BY <1>25 DEF Age, locals
<1>26. ASSUME NEW w \in Workers, NEW e \in Envs, Crash(w, e) PROVE TableInv'
  BY <1>26 DEF Crash
<1>27. CASE UNCHANGED vars
  BY <1>27 DEF vars, tables, locals
<1> QED BY <1>1, <1>2, <1>3, <1>4, <1>5, <1>6, <1>7, <1>8, <1>9, <1>10, <1>11,
   <1>12, <1>13, <1>14, <1>15, <1>16, <1>17, <1>18, <1>19, <1>20, <1>21, <1>22,
   <1>23, <1>24, <1>25, <1>26, <1>27 DEF Next, Call, Step

\* An owner stays one when the call goes on and nothing it depends on changes.
LEMMA OwnerWhenKept ==
  ASSUME OwnerInv, UNCHANGED <<status, aborted, cur, seen>>,
         \A u \in Threads : /\ pc[u] \in Reloads => pc'[u] \in Reloads
                            /\ pc[u] \in Resolves => pc'[u] \in Resolves
  PROVE  OwnerInv'
  BY DEF OwnerInv, WillResolve

\* Steps before an order is loaded, and the requests to the broker.
LEMMA OwnerInvQuiet ==
  ASSUME TypeOK, OwnerInv, NEW t \in Threads,
         \/ \E r \in Request : PlaceOrder(t, r)
         \/ IdempotencyPass(t) \/ BrokerAccepts(t) \/ RequestRaises(t)
         \/ AttemptFails(t)
  PROVE  OwnerInv'
<1>1. UNCHANGED <<status, aborted, cur, seen>>
  BY DEF PlaceOrder, IdempotencyPass, BrokerAccepts, RequestRaises,
     AttemptFails, tables
<1>2. PICK x \in PCs : /\ pc' = [pc EXCEPT ![t] = x]
                       /\ \/ pc[t] \in {"idle", "gated"}
                          \/ pc[t] \in Resolves /\ x \in Resolves
  BY DEF PlaceOrder, IdempotencyPass, BrokerAccepts, RequestRaises,
     AttemptFails, Goto, PCs, Executing, Resolves, Reloads
<1>3. ASSUME NEW u \in Threads
      PROVE  /\ pc[u] \in Reloads => pc'[u] \in Reloads
             /\ pc[u] \in Resolves => pc'[u] \in Resolves
  <2>1. Reloads \cap Resolves = {}
        /\ {"idle", "gated"} \cap (Reloads \cup Resolves) = {}
    BY DEF Resolves, Reloads, Executing
  <2> QED
    BY <1>2, <2>1 DEF TypeOK
<1> QED
  BY <1>1, <1>3, OwnerWhenKept

\* OwnerInv is preserved: a session whose write of an outcome has no effect had
\* loaded an outcome another session committed.
LEMMA OwnerInvStep ==
  ASSUME TypeOK, ThreadInv, TableInv, OwnerInv, [Next]_vars
  PROVE  OwnerInv'
<1> USE ConstantsAssumption DEF TypeOK, ThreadInv, ThreadOK, TableInv,
   OwnerInv, WillResolve, Reloads, Resolves, InFlight, Executing, Flush
<1>1. ASSUME NEW t \in Threads, NEW r \in Request, PlaceOrder(t, r)
      PROVE OwnerInv'
  BY <1>1, OwnerInvQuiet
<1>2. ASSUME NEW t \in Threads, IdempotencyBlock(t) PROVE OwnerInv'
  <2> SUFFICES ASSUME NEW p \in OrderIds,
                      status'[p] \in InFlight, p \notin aborted'
              PROVE  \E u \in Threads : WillResolve(u, p)'
    BY DEF OwnerInv
  <2>1. PICK u \in Threads : WillResolve(u, p)
    BY <1>2 DEF IdempotencyBlock, Return, tables, OwnerInv
  <2>2. u # t
    BY <1>2, <2>1 DEF IdempotencyBlock, Return, tables, WillResolve, Reloads,
       Resolves, Executing, InFlight
  <2> QED BY <1>2, <2>1, <2>2 DEF IdempotencyBlock, Return, tables, WillResolve
<1>3. ASSUME NEW t \in Threads, IdempotencyPass(t) PROVE OwnerInv'
  BY <1>3, OwnerInvQuiet
<1>4. ASSUME NEW t \in Threads, NEW o \in OrderIds, InsertOrder(t, o)
      PROVE OwnerInv'
  <2> SUFFICES ASSUME NEW p \in OrderIds,
                      status'[p] \in InFlight, p \notin aborted'
              PROVE  \E u \in Threads : WillResolve(u, p)'
    BY DEF OwnerInv
  <2>1. PICK u \in Threads : WillResolve(u, p)
    BY <1>4 DEF InsertOrder, Return, OwnerInv
  <2>2. u # t
    BY <1>4, <2>1 DEF InsertOrder, Return, WillResolve, Reloads, Resolves,
       Executing, InFlight
  <2> QED BY <1>4, <2>1, <2>2 DEF InsertOrder, Return, WillResolve
<1>5. ASSUME NEW t \in Threads, NEW o \in OrderIds, ConfirmRead(t, o)
      PROVE OwnerInv'
  <2> SUFFICES ASSUME NEW p \in OrderIds,
                      status'[p] \in InFlight, p \notin aborted'
              PROVE  \E u \in Threads : WillResolve(u, p)'
    BY DEF OwnerInv
  <2>1. PICK u \in Threads : WillResolve(u, p)
    BY <1>5 DEF ConfirmRead, Goto, tables, OwnerInv
  <2>2. u # t
    BY <1>5, <2>1 DEF ConfirmRead, Goto, tables, WillResolve, Reloads,
       Resolves, Executing, InFlight
  <2> QED BY <1>5, <2>1, <2>2 DEF ConfirmRead, Goto, tables, WillResolve
<1>6. ASSUME NEW t \in Threads, ConfirmReject(t) PROVE OwnerInv'
  <2> SUFFICES ASSUME NEW p \in OrderIds,
                      status'[p] \in InFlight, p \notin aborted'
              PROVE  \E u \in Threads : WillResolve(u, p)'
    BY DEF OwnerInv
  <2>1. PICK u \in Threads : WillResolve(u, p)
    BY <1>6 DEF ConfirmReject, Return, CommitState, OwnerInv
  <2>2. u # t
    BY <1>6, <2>1 DEF ConfirmReject, Return, CommitState, WillResolve, Reloads,
       Resolves, Executing, InFlight
  <2> QED BY <1>6, <2>1, <2>2 DEF ConfirmReject, Return, CommitState,
     WillResolve
<1>7. ASSUME NEW t \in Threads, ConfirmCommit(t) PROVE OwnerInv'
  BY <1>7 DEF ConfirmCommit, Goto, CommitState, LogStates
<1>8. ASSUME NEW t \in Threads, ReloadConfirmed(t) PROVE OwnerInv'
  BY <1>8 DEF ReloadConfirmed, Goto, tables
<1>9. ASSUME NEW t \in Threads, LoadPosition(t, "paper", "paperFill")
      PROVE OwnerInv'
  <2> SUFFICES ASSUME NEW p \in OrderIds,
                      status'[p] \in InFlight, p \notin aborted'
              PROVE  \E u \in Threads : WillResolve(u, p)'
    BY DEF OwnerInv
  <2>1. PICK u \in Threads : WillResolve(u, p)
    BY <1>9 DEF LoadPosition, Goto, tables, OwnerInv
  <2> QED BY <1>9, <2>1 DEF LoadPosition, Goto, tables, WillResolve, Reloads,
     Resolves, Executing
<1>10. ASSUME NEW t \in Threads, PaperFill(t) PROVE OwnerInv'
  <2> SUFFICES ASSUME NEW p \in OrderIds,
                      status'[p] \in InFlight, p \notin aborted'
              PROVE  \E u \in Threads : WillResolve(u, p)'
    BY DEF OwnerInv
  <2>1. PICK u \in Threads : WillResolve(u, p)
    BY <1>10 DEF PaperFill, Return, OwnerInv
  <2>2. u # t
    BY <1>10, <2>1 DEF PaperFill, Return, WillResolve, Reloads, Resolves,
       Executing, InFlight
  <2> QED BY <1>10, <2>1, <2>2 DEF PaperFill, Return, WillResolve
<1>11. ASSUME NEW t \in Threads, LivePending(t) PROVE OwnerInv'
  BY <1>11 DEF LivePending, Goto, CommitState, LogStates
<1>12. ASSUME NEW t \in Threads, LoginRaises(t) PROVE OwnerInv'
  BY <1>12 DEF LoginRaises, Return, LogStates
<1>13. ASSUME NEW t \in Threads, LoggedIn(t) PROVE OwnerInv'
  BY <1>13 DEF LoggedIn, Goto, tables
<1>14. ASSUME NEW t \in Threads, UnknownSymbol(t) PROVE OwnerInv'
  <2> SUFFICES ASSUME NEW p \in OrderIds,
                      status'[p] \in InFlight, p \notin aborted'
              PROVE  \E u \in Threads : WillResolve(u, p)'
    BY DEF OwnerInv
  <2>1. PICK u \in Threads : WillResolve(u, p)
    BY <1>14 DEF UnknownSymbol, Return, CommitState, OwnerInv
  <2>2. u # t
    BY <1>14, <2>1 DEF UnknownSymbol, Return, CommitState, WillResolve,
       Reloads, Resolves, Executing, InFlight
  <2> QED BY <1>14, <2>1, <2>2 DEF UnknownSymbol, Return, CommitState,
     WillResolve
<1>15. ASSUME NEW t \in Threads, BrokerAccepts(t) PROVE OwnerInv'
  BY <1>15, OwnerInvQuiet
<1>16. ASSUME NEW t \in Threads, RequestRaises(t) PROVE OwnerInv'
  BY <1>16, OwnerInvQuiet
<1>17. ASSUME NEW t \in Threads, AttemptFails(t) PROVE OwnerInv'
  BY <1>17, OwnerInvQuiet
<1>18. ASSUME NEW t \in Threads, LoadPosition(t, "accepted", "liveFill")
       PROVE OwnerInv'
  <2> SUFFICES ASSUME NEW p \in OrderIds,
                      status'[p] \in InFlight, p \notin aborted'
              PROVE  \E u \in Threads : WillResolve(u, p)'
    BY DEF OwnerInv
  <2>1. PICK u \in Threads : WillResolve(u, p)
    BY <1>18 DEF LoadPosition, Goto, tables, OwnerInv
  <2> QED BY <1>18, <2>1 DEF LoadPosition, Goto, tables, WillResolve, Reloads,
     Resolves, Executing
<1>19. ASSUME NEW t \in Threads, LiveFill(t) PROVE OwnerInv'
  <2> SUFFICES ASSUME NEW p \in OrderIds,
                      status'[p] \in InFlight, p \notin aborted'
              PROVE  \E u \in Threads : WillResolve(u, p)'
    BY DEF OwnerInv
  <2>1. PICK u \in Threads : WillResolve(u, p)
    BY <1>19 DEF LiveFill, Return, CommitState, OwnerInv
  <2>2. u # t
    BY <1>19, <2>1 DEF LiveFill, Return, CommitState, WillResolve, Reloads,
       Resolves, Executing, InFlight
  <2> QED BY <1>19, <2>1, <2>2 DEF LiveFill, Return, CommitState, WillResolve
<1>20. ASSUME NEW t \in Threads, LiveFail(t) PROVE OwnerInv'
  <2> SUFFICES ASSUME NEW p \in OrderIds,
                      status'[p] \in InFlight, p \notin aborted'
              PROVE  \E u \in Threads : WillResolve(u, p)'
    BY DEF OwnerInv
  <2>1. PICK u \in Threads : WillResolve(u, p)
    BY <1>20 DEF LiveFail, Return, CommitState, OwnerInv
  <2>2. u # t
    BY <1>20, <2>1 DEF LiveFail, Return, CommitState, WillResolve, Reloads,
       Resolves, Executing, InFlight
  <2> QED BY <1>20, <2>1, <2>2 DEF LiveFail, Return, CommitState, WillResolve
<1>21. ASSUME NEW t \in Threads, CommitRaises(t) PROVE OwnerInv'
  BY <1>21 DEF CommitRaises, Return
<1>22. ASSUME NEW t \in Threads, NEW k \in Keys, CloseRead(t, k)
       PROVE OwnerInv'
  <2> SUFFICES ASSUME NEW p \in OrderIds,
                      status'[p] \in InFlight, p \notin aborted'
              PROVE  \E u \in Threads : WillResolve(u, p)'
    BY DEF OwnerInv
  <2>1. PICK u \in Threads : WillResolve(u, p)
    BY <1>22 DEF CloseRead, Goto, tables, OwnerInv
  <2>2. u # t
    BY <1>22, <2>1 DEF CloseRead, Goto, tables, WillResolve, Reloads, Resolves,
       Executing, InFlight
  <2> QED BY <1>22, <2>1, <2>2 DEF CloseRead, Goto, tables, WillResolve
<1>23. ASSUME NEW t \in Threads, CloseCommit(t) PROVE OwnerInv'
  <2> SUFFICES ASSUME NEW p \in OrderIds,
                      status'[p] \in InFlight, p \notin aborted'
              PROVE  \E u \in Threads : WillResolve(u, p)'
    BY DEF OwnerInv
  <2>1. PICK u \in Threads : WillResolve(u, p)
    BY <1>23 DEF CloseCommit, Return, OwnerInv
  <2>2. u # t
    BY <1>23, <2>1 DEF CloseCommit, Return, WillResolve, Reloads, Resolves,
       Executing, InFlight
  <2> QED BY <1>23, <2>1, <2>2 DEF CloseCommit, Return, WillResolve
<1>24. ASSUME NEW w \in Workers, NEW u \in Users, GetExecutor(w, u)
       PROVE OwnerInv'
  BY <1>24 DEF GetExecutor, tables, locals
<1>25. ASSUME NEW o \in OrderIds, Age(o) PROVE OwnerInv'
  BY <1>25 DEF Age, locals
<1>26. ASSUME NEW w \in Workers, NEW e \in Envs, Crash(w, e) PROVE OwnerInv'
  BY <1>26 DEF Crash
<1>27. CASE UNCHANGED vars
  BY <1>27 DEF vars, tables, locals
<1> QED BY <1>1, <1>2, <1>3, <1>4, <1>5, <1>6, <1>7, <1>8, <1>9, <1>10, <1>11,
   <1>12, <1>13, <1>14, <1>15, <1>16, <1>17, <1>18, <1>19, <1>20, <1>21, <1>22,
   <1>23, <1>24, <1>25, <1>26, <1>27 DEF Next, Call, Step

\* StatusLogged is preserved: a status is written together with its log row.
LEMMA StatusLoggedStep ==
  ASSUME TypeOK, ThreadInv, TableInv, StatusLogged, [Next]_vars
  PROVE  StatusLogged'
<1> USE ConstantsAssumption DEF TypeOK, ThreadInv, ThreadOK, TableInv,
   StatusLogged, Logged, Executing, Flush, Status
<1>1. ASSUME NEW t \in Threads, NEW r \in Request, PlaceOrder(t, r)
      PROVE StatusLogged'
  BY <1>1 DEF PlaceOrder, Goto, tables
<1>2. ASSUME NEW t \in Threads, IdempotencyBlock(t) PROVE StatusLogged'
  BY <1>2 DEF IdempotencyBlock, Return, tables
<1>3. ASSUME NEW t \in Threads, IdempotencyPass(t) PROVE StatusLogged'
  BY <1>3 DEF IdempotencyPass, Goto, tables
<1>4. ASSUME NEW t \in Threads, NEW o \in OrderIds, InsertOrder(t, o)
      PROVE StatusLogged'
  BY <1>4 DEF InsertOrder, Return, LogStates
<1>5. ASSUME NEW t \in Threads, NEW o \in OrderIds, ConfirmRead(t, o)
      PROVE StatusLogged'
  BY <1>5 DEF ConfirmRead, Goto, tables
<1>6. ASSUME NEW t \in Threads, ConfirmReject(t) PROVE StatusLogged'
  BY <1>6 DEF ConfirmReject, Return, CommitState, LogStates
<1>7. ASSUME NEW t \in Threads, ConfirmCommit(t) PROVE StatusLogged'
  BY <1>7 DEF ConfirmCommit, Goto, CommitState, LogStates
<1>8. ASSUME NEW t \in Threads, ReloadConfirmed(t) PROVE StatusLogged'
  BY <1>8 DEF ReloadConfirmed, Goto, tables
<1>9. ASSUME NEW t \in Threads, LoadPosition(t, "paper", "paperFill")
      PROVE StatusLogged'
  BY <1>9 DEF LoadPosition, Goto, tables
<1>10. ASSUME NEW t \in Threads, PaperFill(t) PROVE StatusLogged'
  BY <1>10 DEF PaperFill, Return, LogStates
<1>11. ASSUME NEW t \in Threads, LivePending(t) PROVE StatusLogged'
  BY <1>11 DEF LivePending, Goto, CommitState, LogStates
<1>12. ASSUME NEW t \in Threads, LoginRaises(t) PROVE StatusLogged'
  BY <1>12 DEF LoginRaises, Return, LogStates
<1>13. ASSUME NEW t \in Threads, LoggedIn(t) PROVE StatusLogged'
  BY <1>13 DEF LoggedIn, Goto, tables
<1>14. ASSUME NEW t \in Threads, UnknownSymbol(t) PROVE StatusLogged'
  BY <1>14 DEF UnknownSymbol, Return, CommitState, LogStates
<1>15. ASSUME NEW t \in Threads, BrokerAccepts(t) PROVE StatusLogged'
  BY <1>15 DEF BrokerAccepts, Accept
<1>16. ASSUME NEW t \in Threads, RequestRaises(t) PROVE StatusLogged'
  BY <1>16 DEF RequestRaises, Goto, Accept
<1>17. ASSUME NEW t \in Threads, AttemptFails(t) PROVE StatusLogged'
  BY <1>17 DEF AttemptFails, Accept
<1>18. ASSUME NEW t \in Threads, LoadPosition(t, "accepted", "liveFill")
       PROVE StatusLogged'
  BY <1>18 DEF LoadPosition, Goto, tables
<1>19. ASSUME NEW t \in Threads, LiveFill(t) PROVE StatusLogged'
  BY <1>19 DEF LiveFill, Return, CommitState, LogStates
<1>20. ASSUME NEW t \in Threads, LiveFail(t) PROVE StatusLogged'
  BY <1>20 DEF LiveFail, Return, CommitState, LogStates
<1>21. ASSUME NEW t \in Threads, CommitRaises(t) PROVE StatusLogged'
  BY <1>21 DEF CommitRaises, Return
<1>22. ASSUME NEW t \in Threads, NEW k \in Keys, CloseRead(t, k)
       PROVE StatusLogged'
  BY <1>22 DEF CloseRead, Goto, tables
<1>23. ASSUME NEW t \in Threads, CloseCommit(t) PROVE StatusLogged'
  BY <1>23 DEF CloseCommit, Return
<1>24. ASSUME NEW w \in Workers, NEW u \in Users, GetExecutor(w, u)
       PROVE StatusLogged'
  BY <1>24 DEF GetExecutor, tables, locals
<1>25. ASSUME NEW o \in OrderIds, Age(o) PROVE StatusLogged'
  BY <1>25 DEF Age, locals
<1>26. ASSUME NEW w \in Workers, NEW e \in Envs, Crash(w, e)
       PROVE StatusLogged'
  BY <1>26 DEF Crash
<1>27. CASE UNCHANGED vars
  BY <1>27 DEF vars, tables, locals
<1> QED BY <1>1, <1>2, <1>3, <1>4, <1>5, <1>6, <1>7, <1>8, <1>9, <1>10, <1>11,
   <1>12, <1>13, <1>14, <1>15, <1>16, <1>17, <1>18, <1>19, <1>20, <1>21, <1>22,
   <1>23, <1>24, <1>25, <1>26, <1>27 DEF Next, Call, Step

\* SentOnlyAfterRecord is preserved: by ThreadOK of the sending thread.
LEMMA SentOnlyAfterRecordStep ==
  ASSUME TypeOK, ThreadInv, TableInv, SentOnlyAfterRecord, [Next]_vars
  PROVE  SentOnlyAfterRecord'
<1> USE ConstantsAssumption DEF TypeOK, ThreadInv, ThreadOK, TableInv,
   SentOnlyAfterRecord, Logged, Executing, LivePCs, PaperPCs
<1>1. ASSUME NEW t \in Threads, NEW r \in Request, PlaceOrder(t, r)
      PROVE SentOnlyAfterRecord'
  BY <1>1 DEF PlaceOrder, Goto, tables
<1>2. ASSUME NEW t \in Threads, IdempotencyBlock(t) PROVE SentOnlyAfterRecord'
  BY <1>2 DEF IdempotencyBlock, Return, tables
<1>3. ASSUME NEW t \in Threads, IdempotencyPass(t) PROVE SentOnlyAfterRecord'
  BY <1>3 DEF IdempotencyPass, Goto, tables
<1>4. ASSUME NEW t \in Threads, NEW o \in OrderIds, InsertOrder(t, o)
      PROVE SentOnlyAfterRecord'
  BY <1>4 DEF InsertOrder, Return, LogStates
<1>5. ASSUME NEW t \in Threads, NEW o \in OrderIds, ConfirmRead(t, o)
      PROVE SentOnlyAfterRecord'
  BY <1>5 DEF ConfirmRead, Goto, tables
<1>6. ASSUME NEW t \in Threads, ConfirmReject(t) PROVE SentOnlyAfterRecord'
  BY <1>6 DEF ConfirmReject, Return, CommitState, LogStates
<1>7. ASSUME NEW t \in Threads, ConfirmCommit(t) PROVE SentOnlyAfterRecord'
  BY <1>7 DEF ConfirmCommit, Goto, CommitState, LogStates
<1>8. ASSUME NEW t \in Threads, ReloadConfirmed(t) PROVE SentOnlyAfterRecord'
  BY <1>8 DEF ReloadConfirmed, Goto, tables
<1>9. ASSUME NEW t \in Threads, LoadPosition(t, "paper", "paperFill")
      PROVE SentOnlyAfterRecord'
  BY <1>9 DEF LoadPosition, Goto, tables
<1>10. ASSUME NEW t \in Threads, PaperFill(t) PROVE SentOnlyAfterRecord'
  BY <1>10 DEF PaperFill, Return, LogStates
<1>11. ASSUME NEW t \in Threads, LivePending(t) PROVE SentOnlyAfterRecord'
  BY <1>11 DEF LivePending, Goto, CommitState, LogStates
<1>12. ASSUME NEW t \in Threads, LoginRaises(t) PROVE SentOnlyAfterRecord'
  BY <1>12 DEF LoginRaises, Return, LogStates
<1>13. ASSUME NEW t \in Threads, LoggedIn(t) PROVE SentOnlyAfterRecord'
  BY <1>13 DEF LoggedIn, Goto, tables
<1>14. ASSUME NEW t \in Threads, UnknownSymbol(t) PROVE SentOnlyAfterRecord'
  BY <1>14 DEF UnknownSymbol, Return, CommitState, LogStates
<1>15. ASSUME NEW t \in Threads, BrokerAccepts(t) PROVE SentOnlyAfterRecord'
  BY <1>15 DEF BrokerAccepts, Accept
<1>16. ASSUME NEW t \in Threads, RequestRaises(t) PROVE SentOnlyAfterRecord'
  BY <1>16 DEF RequestRaises, Goto, Accept
<1>17. ASSUME NEW t \in Threads, AttemptFails(t) PROVE SentOnlyAfterRecord'
  BY <1>17 DEF AttemptFails, Accept
<1>18. ASSUME NEW t \in Threads, LoadPosition(t, "accepted", "liveFill")
       PROVE SentOnlyAfterRecord'
  BY <1>18 DEF LoadPosition, Goto, tables
<1>19. ASSUME NEW t \in Threads, LiveFill(t) PROVE SentOnlyAfterRecord'
  BY <1>19 DEF LiveFill, Return, CommitState, LogStates
<1>20. ASSUME NEW t \in Threads, LiveFail(t) PROVE SentOnlyAfterRecord'
  BY <1>20 DEF LiveFail, Return, CommitState, LogStates
<1>21. ASSUME NEW t \in Threads, CommitRaises(t) PROVE SentOnlyAfterRecord'
  BY <1>21 DEF CommitRaises, Return
<1>22. ASSUME NEW t \in Threads, NEW k \in Keys, CloseRead(t, k)
       PROVE SentOnlyAfterRecord'
  BY <1>22 DEF CloseRead, Goto, tables
<1>23. ASSUME NEW t \in Threads, CloseCommit(t) PROVE SentOnlyAfterRecord'
  BY <1>23 DEF CloseCommit, Return
<1>24. ASSUME NEW w \in Workers, NEW u \in Users, GetExecutor(w, u)
       PROVE SentOnlyAfterRecord'
  BY <1>24 DEF GetExecutor, tables, locals
<1>25. ASSUME NEW o \in OrderIds, Age(o) PROVE SentOnlyAfterRecord'
  BY <1>25 DEF Age, locals
<1>26. ASSUME NEW w \in Workers, NEW e \in Envs, Crash(w, e)
       PROVE SentOnlyAfterRecord'
  BY <1>26 DEF Crash
<1>27. CASE UNCHANGED vars
  BY <1>27 DEF vars, tables, locals
<1> QED BY <1>1, <1>2, <1>3, <1>4, <1>5, <1>6, <1>7, <1>8, <1>9, <1>10, <1>11,
   <1>12, <1>13, <1>14, <1>15, <1>16, <1>17, <1>18, <1>19, <1>20, <1>21, <1>22,
   <1>23, <1>24, <1>25, <1>26, <1>27 DEF Next, Call, Step

\* FilledMeansTaken is preserved: by ThreadOK of the filling thread.
LEMMA FilledMeansTakenStep ==
  ASSUME TypeOK, ThreadInv, TableInv, FilledMeansTaken, [Next]_vars
  PROVE  FilledMeansTaken'
<1> USE ConstantsAssumption DEF TypeOK, ThreadInv, ThreadOK, TableInv,
   FilledMeansTaken, Logged, Executing, LivePCs, PaperPCs
<1>1. ASSUME NEW t \in Threads, NEW r \in Request, PlaceOrder(t, r)
      PROVE FilledMeansTaken'
  BY <1>1 DEF PlaceOrder, Goto, tables
<1>2. ASSUME NEW t \in Threads, IdempotencyBlock(t) PROVE FilledMeansTaken'
  BY <1>2 DEF IdempotencyBlock, Return, tables
<1>3. ASSUME NEW t \in Threads, IdempotencyPass(t) PROVE FilledMeansTaken'
  BY <1>3 DEF IdempotencyPass, Goto, tables
<1>4. ASSUME NEW t \in Threads, NEW o \in OrderIds, InsertOrder(t, o)
      PROVE FilledMeansTaken'
  BY <1>4 DEF InsertOrder, Return, LogStates
<1>5. ASSUME NEW t \in Threads, NEW o \in OrderIds, ConfirmRead(t, o)
      PROVE FilledMeansTaken'
  BY <1>5 DEF ConfirmRead, Goto, tables
<1>6. ASSUME NEW t \in Threads, ConfirmReject(t) PROVE FilledMeansTaken'
  BY <1>6 DEF ConfirmReject, Return, CommitState, LogStates
<1>7. ASSUME NEW t \in Threads, ConfirmCommit(t) PROVE FilledMeansTaken'
  BY <1>7 DEF ConfirmCommit, Goto, CommitState, LogStates
<1>8. ASSUME NEW t \in Threads, ReloadConfirmed(t) PROVE FilledMeansTaken'
  BY <1>8 DEF ReloadConfirmed, Goto, tables
<1>9. ASSUME NEW t \in Threads, LoadPosition(t, "paper", "paperFill")
      PROVE FilledMeansTaken'
  BY <1>9 DEF LoadPosition, Goto, tables
<1>10. ASSUME NEW t \in Threads, PaperFill(t) PROVE FilledMeansTaken'
  BY <1>10 DEF PaperFill, Return, LogStates
<1>11. ASSUME NEW t \in Threads, LivePending(t) PROVE FilledMeansTaken'
  BY <1>11 DEF LivePending, Goto, CommitState, LogStates
<1>12. ASSUME NEW t \in Threads, LoginRaises(t) PROVE FilledMeansTaken'
  BY <1>12 DEF LoginRaises, Return, LogStates
<1>13. ASSUME NEW t \in Threads, LoggedIn(t) PROVE FilledMeansTaken'
  BY <1>13 DEF LoggedIn, Goto, tables
<1>14. ASSUME NEW t \in Threads, UnknownSymbol(t) PROVE FilledMeansTaken'
  BY <1>14 DEF UnknownSymbol, Return, CommitState, LogStates
<1>15. ASSUME NEW t \in Threads, BrokerAccepts(t) PROVE FilledMeansTaken'
  BY <1>15 DEF BrokerAccepts, Accept
<1>16. ASSUME NEW t \in Threads, RequestRaises(t) PROVE FilledMeansTaken'
  <2>1. cur[t] \in OrderIds
    BY <1>16 DEF RequestRaises, Goto
  <2> QED BY <1>16, <2>1, AcceptType DEF RequestRaises, Goto
<1>17. ASSUME NEW t \in Threads, AttemptFails(t) PROVE FilledMeansTaken'
  <2>1. cur[t] \in OrderIds
    BY <1>17 DEF AttemptFails
  <2> QED BY <1>17, <2>1, AcceptType DEF AttemptFails
<1>18. ASSUME NEW t \in Threads, LoadPosition(t, "accepted", "liveFill")
       PROVE FilledMeansTaken'
  BY <1>18 DEF LoadPosition, Goto, tables
<1>19. ASSUME NEW t \in Threads, LiveFill(t) PROVE FilledMeansTaken'
  BY <1>19 DEF LiveFill, Return, CommitState, LogStates
<1>20. ASSUME NEW t \in Threads, LiveFail(t) PROVE FilledMeansTaken'
  BY <1>20 DEF LiveFail, Return, CommitState, LogStates
<1>21. ASSUME NEW t \in Threads, CommitRaises(t) PROVE FilledMeansTaken'
  BY <1>21 DEF CommitRaises, Return
<1>22. ASSUME NEW t \in Threads, NEW k \in Keys, CloseRead(t, k)
       PROVE FilledMeansTaken'
  BY <1>22 DEF CloseRead, Goto, tables
<1>23. ASSUME NEW t \in Threads, CloseCommit(t) PROVE FilledMeansTaken'
  BY <1>23 DEF CloseCommit, Return
<1>24. ASSUME NEW w \in Workers, NEW u \in Users, GetExecutor(w, u)
       PROVE FilledMeansTaken'
  BY <1>24 DEF GetExecutor, tables, locals
<1>25. ASSUME NEW o \in OrderIds, Age(o) PROVE FilledMeansTaken'
  BY <1>25 DEF Age, locals
<1>26. ASSUME NEW w \in Workers, NEW e \in Envs, Crash(w, e)
       PROVE FilledMeansTaken'
  BY <1>26 DEF Crash
<1>27. CASE UNCHANGED vars
  BY <1>27 DEF vars, tables, locals
<1> QED BY <1>1, <1>2, <1>3, <1>4, <1>5, <1>6, <1>7, <1>8, <1>9, <1>10, <1>11,
   <1>12, <1>13, <1>14, <1>15, <1>16, <1>17, <1>18, <1>19, <1>20, <1>21, <1>22,
   <1>23, <1>24, <1>25, <1>26, <1>27 DEF Next, Call, Step

\* A fill leaves a row in its own direction or in the direction it had.
LEMMA WrittenDirection ==
  ASSUME TypeOK, NEW t \in Threads, detail[cur[t]] \in Detail,
         CanWrite(t), WritePosition(t), NEW k \in Keys, positions'[k] # NoRow
  PROVE  \/ /\ k = detail[cur[t]].key
            /\ positions'[k].direction = detail[cur[t]].direction
         \/ /\ positions[k] # NoRow
            /\ positions'[k].direction = positions[k].direction
<1> DEFINE d == detail[cur[t]]
           new == Synced(row[t], d)
<1>1. \/ new.direction = d.direction
      \/ row[t] # NoRow /\ new.direction = row[t].direction
  BY DEF Synced
<1>2. CASE k # d.key
  BY <1>2 DEF TypeOK, WritePosition
<1>3. CASE k = d.key /\ row[t] = NoRow
  BY <1>1, <1>3 DEF TypeOK, WritePosition
<1>4. CASE k = d.key /\ row[t] # NoRow
  <2>1. positions[k] \in Position
    BY <1>4 DEF TypeOK, CanWrite
  <2>2. positions'[k].direction
          = Flush(row[t].direction, positions[k].direction, new.direction)
    BY <1>4, <2>1 DEF TypeOK, WritePosition, Position
  <2> QED BY <1>1, <1>4, <2>1, <2>2, RowAssumption DEF Flush
<1> QED BY <1>2, <1>3, <1>4

\* Order p accounts for the direction of the position of k.
Backs(p, k) ==
    /\ detail[p] # NoRow
    /\ detail[p].key = k
    /\ detail[p].direction = positions[k].direction
    /\ log[p]["FILLED"] > 0

\* Steps that leave positions alone keep every position backed.
LEMMA BackedWhenUnchanged ==
  ASSUME TypeOK, TableInv, PositionBacked, \A p \in OrderIds : Grows(p),
         UNCHANGED positions
  PROVE  PositionBacked'
<1> SUFFICES ASSUME NEW k \in Keys, positions[k] # NoRow
             PROVE  \E p \in OrderIds : Backs(p, k)'
  BY DEF PositionBacked, Backs
<1>1. PICK p \in OrderIds : Backs(p, k)
  BY DEF PositionBacked, Backs
<1>2. Backs(p, k)'
  BY <1>1 DEF Backs, Grows, Logged, TableInv
<1> QED BY <1>2

\* PositionBacked is preserved: fills by WrittenDirection, the rest by Grows.
LEMMA PositionBackedStep ==
  ASSUME TypeOK, ThreadInv, TableInv, PositionBacked, [Next]_vars
  PROVE  PositionBacked'
<1>0. \A p \in OrderIds : Grows(p)
  BY GrowsStep
<1>1. ASSUME NEW t \in Threads, NEW r \in Request, PlaceOrder(t, r)
      PROVE PositionBacked'
  BY <1>1, <1>0, BackedWhenUnchanged DEF PlaceOrder, tables
<1>2. ASSUME NEW t \in Threads, IdempotencyBlock(t) PROVE PositionBacked'
  BY <1>2, <1>0, BackedWhenUnchanged DEF IdempotencyBlock, tables
<1>3. ASSUME NEW t \in Threads, IdempotencyPass(t) PROVE PositionBacked'
  BY <1>3, <1>0, BackedWhenUnchanged DEF IdempotencyPass, tables
<1>4. ASSUME NEW t \in Threads, NEW o \in OrderIds, InsertOrder(t, o)
      PROVE PositionBacked'
  BY <1>4, <1>0, BackedWhenUnchanged DEF InsertOrder
<1>5. ASSUME NEW t \in Threads, NEW o \in OrderIds, ConfirmRead(t, o)
      PROVE PositionBacked'
  BY <1>5, <1>0, BackedWhenUnchanged DEF ConfirmRead, tables
<1>6. ASSUME NEW t \in Threads, ConfirmReject(t) PROVE PositionBacked'
  BY <1>6, <1>0, BackedWhenUnchanged DEF ConfirmReject
<1>7. ASSUME NEW t \in Threads, ConfirmCommit(t) PROVE PositionBacked'
  BY <1>7, <1>0, BackedWhenUnchanged DEF ConfirmCommit
<1>8. ASSUME NEW t \in Threads, ReloadConfirmed(t) PROVE PositionBacked'
  BY <1>8, <1>0, BackedWhenUnchanged DEF ReloadConfirmed, tables
<1>9. ASSUME NEW t \in Threads, LoadPosition(t, "paper", "paperFill")
      PROVE PositionBacked'
  BY <1>9, <1>0, BackedWhenUnchanged DEF LoadPosition, tables
<1>10. ASSUME NEW t \in Threads, PaperFill(t) PROVE PositionBacked'
  <2>1. /\ detail[cur[t]] \in Detail /\ cur[t] \in OrderIds
        /\ detail[cur[t]] # NoRow
    BY <1>10, RowAssumption DEF PaperFill, TypeOK, ThreadInv, ThreadOK,
       TableInv, Executing
  <2>2. log'[cur[t]]["FILLED"] > 0
    BY <1>10, <2>1 DEF PaperFill, LogStates, TypeOK, Logged
  <2> SUFFICES ASSUME NEW k \in Keys, positions'[k] # NoRow
              PROVE  \E p \in OrderIds : Backs(p, k)'
    BY DEF PositionBacked, Backs
  <2>3. CASE /\ k = detail[cur[t]].key
             /\ positions'[k].direction = detail[cur[t]].direction
    BY <1>10, <2>1, <2>2, <2>3 DEF PaperFill, Backs
  <2>4. CASE /\ positions[k] # NoRow
             /\ positions'[k].direction = positions[k].direction
    <3>1. PICK p \in OrderIds : Backs(p, k)
      BY <2>4 DEF PositionBacked, Backs
    <3>2. Backs(p, k)'
      BY <2>4, <3>1, <1>0 DEF Backs, Grows, Logged, TableInv
    <3> QED BY <3>2
  <2> QED BY <1>10, <2>1, <2>3, <2>4, WrittenDirection DEF PaperFill
<1>11. ASSUME NEW t \in Threads, LivePending(t) PROVE PositionBacked'
  BY <1>11, <1>0, BackedWhenUnchanged DEF LivePending
<1>12. ASSUME NEW t \in Threads, LoginRaises(t) PROVE PositionBacked'
  BY <1>12, <1>0, BackedWhenUnchanged DEF LoginRaises
<1>13. ASSUME NEW t \in Threads, LoggedIn(t) PROVE PositionBacked'
  BY <1>13, <1>0, BackedWhenUnchanged DEF LoggedIn, tables
<1>14. ASSUME NEW t \in Threads, UnknownSymbol(t) PROVE PositionBacked'
  BY <1>14, <1>0, BackedWhenUnchanged DEF UnknownSymbol
<1>15. ASSUME NEW t \in Threads, BrokerAccepts(t) PROVE PositionBacked'
  BY <1>15, <1>0, BackedWhenUnchanged DEF BrokerAccepts
<1>16. ASSUME NEW t \in Threads, RequestRaises(t) PROVE PositionBacked'
  BY <1>16, <1>0, BackedWhenUnchanged DEF RequestRaises
<1>17. ASSUME NEW t \in Threads, AttemptFails(t) PROVE PositionBacked'
  BY <1>17, <1>0, BackedWhenUnchanged DEF AttemptFails
<1>18. ASSUME NEW t \in Threads, LoadPosition(t, "accepted", "liveFill")
       PROVE PositionBacked'
  BY <1>18, <1>0, BackedWhenUnchanged DEF LoadPosition, tables
<1>19. ASSUME NEW t \in Threads, LiveFill(t) PROVE PositionBacked'
  <2>1. /\ detail[cur[t]] \in Detail /\ cur[t] \in OrderIds
        /\ detail[cur[t]] # NoRow
    BY <1>19, RowAssumption DEF LiveFill, TypeOK, ThreadInv, ThreadOK,
       TableInv, Executing
  <2>2. log'[cur[t]]["FILLED"] > 0
    BY <1>19, <2>1 DEF LiveFill, CommitState, LogStates, TypeOK, Logged
  <2> SUFFICES ASSUME NEW k \in Keys, positions'[k] # NoRow
              PROVE  \E p \in OrderIds : Backs(p, k)'
    BY DEF PositionBacked, Backs
  <2>3. CASE /\ k = detail[cur[t]].key
             /\ positions'[k].direction = detail[cur[t]].direction
    BY <1>19, <2>1, <2>2, <2>3 DEF LiveFill, Backs
  <2>4. CASE /\ positions[k] # NoRow
             /\ positions'[k].direction = positions[k].direction
    <3>1. PICK p \in OrderIds : Backs(p, k)
      BY <2>4 DEF PositionBacked, Backs
    <3>2. Backs(p, k)'
      BY <2>4, <3>1, <1>0 DEF Backs, Grows, Logged, TableInv
    <3> QED BY <3>2
  <2> QED BY <1>19, <2>1, <2>3, <2>4, WrittenDirection DEF LiveFill
<1>20. ASSUME NEW t \in Threads, LiveFail(t) PROVE PositionBacked'
  BY <1>20, <1>0, BackedWhenUnchanged DEF LiveFail
<1>21. ASSUME NEW t \in Threads, CommitRaises(t) PROVE PositionBacked'
  BY <1>21, <1>0, BackedWhenUnchanged DEF CommitRaises
<1>22. ASSUME NEW t \in Threads, NEW k \in Keys, CloseRead(t, k)
       PROVE PositionBacked'
  BY <1>22, <1>0, BackedWhenUnchanged DEF CloseRead, tables
<1>23. ASSUME NEW t \in Threads, CloseCommit(t) PROVE PositionBacked'
  <2> SUFFICES ASSUME NEW k \in Keys, positions'[k] # NoRow
              PROVE  \E p \in OrderIds : Backs(p, k)'
    BY DEF PositionBacked, Backs
  <2>1. positions[k] # NoRow /\ positions'[k] = positions[k]
    BY <1>23 DEF CloseCommit, TypeOK
  <2> QED BY <1>23, <2>1 DEF CloseCommit, PositionBacked, Backs
<1>24. ASSUME NEW w \in Workers, NEW u \in Users, GetExecutor(w, u)
       PROVE PositionBacked'
  BY <1>24, <1>0, BackedWhenUnchanged DEF GetExecutor, tables
<1>25. ASSUME NEW o \in OrderIds, Age(o) PROVE PositionBacked'
  BY <1>25, <1>0, BackedWhenUnchanged DEF Age
<1>26. ASSUME NEW w \in Workers, NEW e \in Envs, Crash(w, e)
       PROVE PositionBacked'
  BY <1>26, <1>0, BackedWhenUnchanged DEF Crash
<1>27. CASE UNCHANGED vars
  BY <1>27, <1>0, BackedWhenUnchanged DEF vars, tables
<1> QED BY <1>1, <1>2, <1>3, <1>4, <1>5, <1>6, <1>7, <1>8, <1>9, <1>10, <1>11,
   <1>12, <1>13, <1>14, <1>15, <1>16, <1>17, <1>18, <1>19, <1>20, <1>21, <1>22,
   <1>23, <1>24, <1>25, <1>26, <1>27 DEF Next, Call, Step

\* The inductive invariant holds initially.
LEMMA IInvInit == Init => IInv
<1> SUFFICES ASSUME Init PROVE IInv
  OBVIOUS
<1> USE ConstantsAssumption DEF Init
<1>1. TypeOK
  BY DEF TypeOK, Status, PCs
<1>2. ThreadInv
  BY DEF ThreadInv, ThreadOK, Executing, PaperPCs, LivePCs
<1>3. TableInv /\ OwnerInv
  BY DEF TableInv, OwnerInv, InFlight
<1>4. StatusLogged /\ SentOnlyAfterRecord /\ FilledMeansTaken /\ PositionBacked
  BY DEF StatusLogged, SentOnlyAfterRecord, FilledMeansTaken, PositionBacked,
     Logged
<1> QED BY <1>1, <1>2, <1>3, <1>4 DEF IInv

\* Every step preserves the inductive invariant.
LEMMA IInvStep == IInv /\ [Next]_vars => IInv'
<1> SUFFICES ASSUME IInv, [Next]_vars PROVE IInv'
  OBVIOUS
<1> QED
  BY TypeOKStep, ThreadInvStep, TableInvStep, OwnerInvStep, StatusLoggedStep,
     SentOnlyAfterRecordStep, FilledMeansTakenStep, PositionBackedStep
     DEF IInv

\* The inductive invariant holds in every reachable state of the router,
\* whatever the threads, workers, users, symbols, orders, settings and number
\* of attempts.
THEOREM Invariance == Spec => []IInv
<1>1. Init => IInv
  BY IInvInit
<1>2. IInv /\ [Next]_vars => IInv'
  BY IInvStep
<1> QED BY <1>1, <1>2, PTL DEF Spec

\* Orders, log rows, positions and the locals of every call stay well typed;
\* in particular abs() keeps every quantity _sync_position writes non-negative.
THEOREM TypeCorrect == Spec => []TypeOK
<1>1. IInv => TypeOK
  BY DEF IInv
<1> QED BY <1>1, Invariance, PTL

\* Only a crash or an exception of confirm_and_execute leaves an order in
\* CONFIRMED or PENDING_EXECUTION with no thread executing it.
THEOREM Owner == Spec => []InFlightHasOwner
<1>1. IInv => InFlightHasOwner
  <2>1. ASSUME NEW t \in Threads, NEW o \in OrderIds, WillResolve(t, o)
        PROVE  cur[t] = o /\ pc[t] \in Executing
    BY <2>1 DEF WillResolve, Resolves, Reloads, Executing
  <2> QED BY <2>1 DEF IInv, OwnerInv, InFlightHasOwner
<1> QED BY <1>1, Invariance, PTL

\* The status an order shows is always one its audit log recorded, although
\* sessions that loaded the order at different times overwrite each other.
THEOREM Audited == Spec => []StatusLogged
<1>1. IInv => StatusLogged
  BY DEF IInv
<1> QED BY <1>1, Invariance, PTL

\* _execute_live commits PENDING_EXECUTION of a LIVE order before the broker
\* can hear of it.
THEOREM RecordedFirst == Spec => []SentOnlyAfterRecord
<1>1. IInv => SentOnlyAfterRecord
  BY DEF IInv
<1> QED BY <1>1, Invariance, PTL

\* _execute_live records FILLED only for an order the broker took.
THEOREM FilledTaken == Spec => []FilledMeansTaken
<1>1. IInv => FilledMeansTaken
  BY DEF IInv
<1> QED BY <1>1, Invariance, PTL

\* Every position, whatever fills and closes raced on its row, points in the
\* direction of some filled order of its user and symbol.
THEOREM Backed == Spec => []PositionBacked
<1>1. IInv => PositionBacked
  BY DEF IInv
<1> QED BY <1>1, Invariance, PTL

\* confirm_and_execute reaches the broker only for LIVE orders and only in a
\* worker that was started with trading enabled in LIVE mode.
THEOREM Enabled == Spec => []LiveOnlyWhenEnabled
<1>1. IInv => LiveOnlyWhenEnabled
  BY DEF IInv, ThreadInv, ThreadOK, LiveOnlyWhenEnabled, LivePCs, Executing,
     PaperPCs
<1> QED BY <1>1, Invariance, PTL

-----------------------------------------------------------------------------
(***************************************************************************)
(* Bounds: what the broker was asked for, and what a position may hold.    *)
(***************************************************************************)

\* The requests a thread can still send: two for each attempt that is left.
Spare(t) ==
    CASE pc[t] = "login" -> 2 * MaxAttempts
      [] pc[t] = "send" -> 2 * (MaxAttempts - tries[t])
      [] pc[t] = "resend" -> 2 * (MaxAttempts - tries[t]) - 1
      [] OTHER -> 0

\* The requests for o that are still to come, by thread and number.
Requests(o) ==
    {r \in Threads \X (1 .. 2 * MaxAttempts) :
        cur[r[1]] = o /\ r[2] <= Spare(r[1])}

\* What was sent and what can still be sent stays within what was recorded.
RequestInv ==
    \A o \in OrderIds :
        broker[o] + Cardinality(Requests(o))
            <= 2 * MaxAttempts * log[o]["PENDING_EXECUTION"]

\* No position holds more than was filled for it, and neither does a row that
\* a fill is about to be added to.
FillsInv ==
    /\ \A k \in Keys : IsFiniteSet(FilledUnits(k))
    /\ PositionWithinFills
    /\ \A t \in Threads, k \in Keys :
          pc[t] \in {"paperFill", "liveFill"} /\ row[t] # NoRow
            /\ k = detail[cur[t]].key
              => row[t].quantity <= Cardinality(FilledUnits(k))

\* What one recorded execution allows for, times the executions.
LEMMA Products ==
  ASSUME NEW m \in Nat, NEW n \in Nat
  PROVE  /\ 2 * m * n \in Nat
         /\ 2 * m * (n + 1) = 2 * m * n + 2 * m
<1>1. 2 * m \in Nat
  OBVIOUS
<1>2. (2 * m) * n \in Nat
  BY <1>1
<1> QED BY <1>1, <1>2

\* There are finitely many requests to come.
LEMMA RequestsFinite ==
  ASSUME NEW o
  PROVE  IsFiniteSet(Requests(o)) /\ Cardinality(Requests(o)) \in Nat
<1>1. IsFiniteSet(1 .. 2 * MaxAttempts)
  BY ConstantsAssumption, FS_Interval
<1>2. IsFiniteSet(Threads \X (1 .. 2 * MaxAttempts))
  BY <1>1, ThreadsAssumption, FS_Product
<1> QED BY <1>2, FS_Subset, FS_CardinalityType DEF Requests

\* RequestInv is preserved when nothing is sent and no thread gets more
\* requests than it had for the same order.
LEMMA NothingSent ==
  ASSUME TypeOK, RequestInv, UNCHANGED broker,
         \A o \in OrderIds :
             log'[o]["PENDING_EXECUTION"] \in
                 {log[o]["PENDING_EXECUTION"], log[o]["PENDING_EXECUTION"] + 1},
         \A x \in Threads :
             \/ Spare(x)' = 0
             \/ Spare(x)' = Spare(x) /\ cur'[x] = cur[x]
  PROVE  RequestInv'
<1> SUFFICES ASSUME NEW o \in OrderIds
             PROVE  broker'[o] + Cardinality(Requests(o)')
                        <= 2 * MaxAttempts * log'[o]["PENDING_EXECUTION"]
  BY DEF RequestInv
<1>1. Requests(o)' \subseteq Requests(o)
  <2> SUFFICES ASSUME NEW x \in Threads, NEW i \in 1 .. 2 * MaxAttempts,
                      cur'[x] = o, i <= Spare(x)'
               PROVE  cur[x] = o /\ i <= Spare(x)
    BY DEF Requests
  <2>1. Spare(x)' # 0
    BY ConstantsAssumption
  <2> QED BY <2>1
<1>2. Cardinality(Requests(o)') <= Cardinality(Requests(o))
  BY <1>1, RequestsFinite, FS_Subset
<1>3. Cardinality(Requests(o)') \in Nat /\ Cardinality(Requests(o)) \in Nat
  <2>1. IsFiniteSet(Requests(o)')
    BY <1>1, RequestsFinite, FS_Subset
  <2> QED BY <2>1, RequestsFinite, FS_CardinalityType
<1>4. /\ broker[o] \in Nat /\ log[o]["PENDING_EXECUTION"] \in Nat
      /\ broker[o] + Cardinality(Requests(o))
             <= 2 * MaxAttempts * log[o]["PENDING_EXECUTION"]
  BY DEF TypeOK, Logged, RequestInv
<1>5. 2 * MaxAttempts * log[o]["PENDING_EXECUTION"]
        <= 2 * MaxAttempts * log'[o]["PENDING_EXECUTION"]
  BY <1>4, Products, ConstantsAssumption
<1> QED BY <1>2, <1>3, <1>4, <1>5, ConstantsAssumption

\* A request of one thread: whatever the broker does with it, the thread has
\* one less to send.
LEMMA RequestSent ==
  ASSUME TypeOK, RequestInv, NEW t \in Threads, cur[t] \in OrderIds,
         Accept(t) \/ UNCHANGED broker, UNCHANGED <<log, cur>>,
         Spare(t) \in 1 .. 2 * MaxAttempts, Spare(t)' \in Int,
         Spare(t)' < Spare(t),
         \A x \in Threads \ {t} : Spare(x)' = Spare(x)
  PROVE  RequestInv'
<1> DEFINE c == cur[t]
<1> SUFFICES ASSUME NEW o \in OrderIds
             PROVE  broker'[o] + Cardinality(Requests(o)')
                        <= 2 * MaxAttempts * log[o]["PENDING_EXECUTION"]
  BY DEF RequestInv
<1>1. /\ broker[o] \in Nat
      /\ broker[o] + Cardinality(Requests(o))
             <= 2 * MaxAttempts * log[o]["PENDING_EXECUTION"]
  BY DEF TypeOK, RequestInv
<1>a. 2 * MaxAttempts * log[o]["PENDING_EXECUTION"] \in Nat
  <2>1. MaxAttempts \in Nat /\ log[o]["PENDING_EXECUTION"] \in Nat
    BY ConstantsAssumption DEF TypeOK, Logged
  <2> QED BY <2>1, Products
<1>2. Requests(o)' \subseteq Requests(o)
  <2> SUFFICES ASSUME NEW x \in Threads, NEW i \in 1 .. 2 * MaxAttempts,
                      i <= Spare(x)'
               PROVE  i <= Spare(x)
    BY DEF Requests
  <2>1. CASE x = t
    <3> HIDE DEF c
    <3>1. i \in Int /\ Spare(t) \in Int
      OBVIOUS
    <3> QED BY <2>1, <3>1
  <2> QED BY <2>1
<1>3. /\ Cardinality(Requests(o)) \in Nat /\ Cardinality(Requests(o)') \in Nat
      /\ Cardinality(Requests(o)') <= Cardinality(Requests(o))
  <2>1. /\ IsFiniteSet(Requests(o)')
        /\ Cardinality(Requests(o)') <= Cardinality(Requests(o))
    BY <1>2, RequestsFinite, FS_Subset
  <2> QED BY <2>1, RequestsFinite, FS_CardinalityType
<1>4. CASE o # c
  <2>1. broker'[o] = broker[o]
    BY <1>4 DEF Accept, TypeOK
  <2> QED BY <1>1, <1>a, <1>3, <2>1
<1>5. CASE o = c
  <2> DEFINE last == <<t, Spare(t)>>
  <2>1. last \in Requests(o) /\ last \notin Requests(o)'
    <3>1. Spare(t) \in Int /\ ~(Spare(t) <= Spare(t)')
      OBVIOUS
    <3> QED BY <1>5, <3>1 DEF Requests
  <2>2. Requests(o)' \subseteq Requests(o) \ {last}
    BY <1>2, <2>1
  <2>3. /\ IsFiniteSet(Requests(o) \ {last})
        /\ Cardinality(Requests(o) \ {last}) = Cardinality(Requests(o)) - 1
    BY <2>1, RequestsFinite, FS_RemoveElement
  <2>4. Cardinality(Requests(o)') <= Cardinality(Requests(o) \ {last})
    BY <2>2, <2>3, FS_Subset
  <2>5. Cardinality(Requests(o)') + 1 <= Cardinality(Requests(o))
    BY <1>3, <2>3, <2>4
  <2>6. broker'[o] \in {broker[o], broker[o] + 1}
    BY <1>5 DEF Accept, TypeOK
  <2> QED BY <1>1, <1>a, <1>3, <2>5, <2>6
<1> QED BY <1>4, <1>5

\* Recording PENDING_EXECUTION allows for every request of the execution.
LEMMA RequestsAllowed ==
  ASSUME TypeOK, RequestInv, NEW t \in Threads, cur[t] \in OrderIds,
         LivePending(t)
  PROVE  RequestInv'
<1> USE ConstantsAssumption
<1> DEFINE c == cur[t]
           more == {t} \X (1 .. 2 * MaxAttempts)
<1> SUFFICES ASSUME NEW o \in OrderIds
             PROVE  broker[o] + Cardinality(Requests(o)')
                        <= 2 * MaxAttempts * log'[o]["PENDING_EXECUTION"]
  BY DEF RequestInv, LivePending
<1>1. /\ broker[o] \in Nat /\ log[o]["PENDING_EXECUTION"] \in Nat
      /\ broker[o] + Cardinality(Requests(o))
             <= 2 * MaxAttempts * log[o]["PENDING_EXECUTION"]
  BY DEF TypeOK, RequestInv, Logged
<1>2. \A x \in Threads \ {t} : Spare(x)' = Spare(x)
  BY DEF LivePending, Goto, Spare, TypeOK
<1>3. cur' = cur
  BY DEF LivePending
<1>4. Requests(o)' \subseteq Requests(o) \cup (IF o = c THEN more ELSE {})
  BY <1>2, <1>3 DEF Requests
<1>5. /\ IsFiniteSet(more) /\ Cardinality(more) = 2 * MaxAttempts
  <2>1. /\ IsFiniteSet(1 .. 2 * MaxAttempts)
        /\ Cardinality(1 .. 2 * MaxAttempts) = 2 * MaxAttempts
    BY FS_Interval
  <2>2. IsFiniteSet({t}) /\ Cardinality({t}) = 1
    BY FS_Singleton
  <2>3. /\ IsFiniteSet(more)
        /\ Cardinality(more) = Cardinality({t}) * Cardinality(1 .. 2 * MaxAttempts)
    BY <2>1, <2>2, FS_Product
  <2> QED BY <2>1, <2>2, <2>3
<1>6. CASE o # c
  <2>1. Requests(o)' \subseteq Requests(o)
    BY <1>4, <1>6
  <2>2. /\ Cardinality(Requests(o)) \in Nat /\ Cardinality(Requests(o)') \in Nat
        /\ Cardinality(Requests(o)') <= Cardinality(Requests(o))
    BY <2>1, RequestsFinite, FS_Subset, FS_CardinalityType
  <2>3. log'[o] = log[o]
    BY <1>6 DEF LivePending, CommitState, LogStates, TypeOK
  <2>4. 2 * MaxAttempts * log[o]["PENDING_EXECUTION"] \in Nat
    BY <1>1, Products
  <2> QED BY <1>1, <2>2, <2>3, <2>4
<1>7. CASE o = c
  <2>1. /\ IsFiniteSet(Requests(o) \cup more)
        /\ Cardinality(Requests(o) \cup more)
               = Cardinality(Requests(o)) + Cardinality(more)
                     - Cardinality(Requests(o) \cap more)
    BY <1>5, RequestsFinite, FS_Union
  <2>2. Requests(o)' \subseteq Requests(o) \cup more
    BY <1>4, <1>7
  <2>3. /\ IsFiniteSet(Requests(o)')
        /\ Cardinality(Requests(o)') <= Cardinality(Requests(o) \cup more)
    BY <2>1, <2>2, FS_Subset
  <2>4. /\ Cardinality(Requests(o)) \in Nat /\ Cardinality(Requests(o)') \in Nat
        /\ Cardinality(Requests(o) \cup more) \in Nat
        /\ Cardinality(Requests(o) \cap more) \in Nat
    BY <2>1, <2>3, RequestsFinite, FS_CardinalityType, FS_Intersection
  <2>5. Cardinality(Requests(o)') <= Cardinality(Requests(o)) + 2 * MaxAttempts
    BY <1>5, <2>1, <2>3, <2>4
  <2>6. log'[o]["PENDING_EXECUTION"] = log[o]["PENDING_EXECUTION"] + 1
    BY <1>7 DEF LivePending, CommitState, LogStates, TypeOK, Logged
  <2>7. 2 * MaxAttempts * log'[o]["PENDING_EXECUTION"]
          = 2 * MaxAttempts * log[o]["PENDING_EXECUTION"] + 2 * MaxAttempts
    BY <1>1, <2>6, Products
  <2>8. 2 * MaxAttempts * log[o]["PENDING_EXECUTION"] \in Nat
    BY <1>1, Products
  <2> QED BY <1>1, <2>4, <2>5, <2>7, <2>8
<1> QED BY <1>6, <1>7

\* RequestInv is preserved: a thread that calls the broker uses up a request,
\* a thread that records PENDING_EXECUTION gets those of one execution, and no
\* other step gives a thread any.
LEMMA RequestInvStep ==
  ASSUME TypeOK, ThreadInv, TableInv, RequestInv, [Next]_vars
  PROVE  RequestInv'
<1> DEFINE Logs == \A o \in OrderIds :
             log'[o]["PENDING_EXECUTION"] \in
                 {log[o]["PENDING_EXECUTION"], log[o]["PENDING_EXECUTION"] + 1}
           Spares == \A x \in Threads :
             \/ Spare(x)' = 0
             \/ Spare(x)' = Spare(x) /\ cur'[x] = cur[x]
<1> USE DEF TypeOK, Logged
<1>1. ASSUME NEW t \in Threads, NEW r \in Request, PlaceOrder(t, r)
      PROVE RequestInv'
  <2>1. Logs /\ UNCHANGED broker
    BY <1>1 DEF PlaceOrder, Goto, tables
  <2>2. Spares
    BY <1>1 DEF PlaceOrder, Goto, tables, Spare
  <2> QED BY <2>1, <2>2, NothingSent
<1>2. ASSUME NEW t \in Threads, IdempotencyBlock(t)
      PROVE RequestInv'
  <2>1. Logs /\ UNCHANGED broker
    BY <1>2 DEF IdempotencyBlock, Return, tables
  <2>2. Spares
    BY <1>2 DEF IdempotencyBlock, Return, tables, Spare
  <2> QED BY <2>1, <2>2, NothingSent
<1>3. ASSUME NEW t \in Threads, IdempotencyPass(t)
      PROVE RequestInv'
  <2>1. Logs /\ UNCHANGED broker
    BY <1>3 DEF IdempotencyPass, Goto, tables
  <2>2. Spares
    BY <1>3 DEF IdempotencyPass, Goto, tables, Spare
  <2> QED BY <2>1, <2>2, NothingSent
<1>4. ASSUME NEW t \in Threads, NEW o \in OrderIds, InsertOrder(t, o)
      PROVE RequestInv'
  <2>1. Logs /\ UNCHANGED broker
    BY <1>4 DEF InsertOrder, Return, LogStates
  <2>2. Spares
    BY <1>4 DEF InsertOrder, Return, LogStates, Spare
  <2> QED BY <2>1, <2>2, NothingSent
<1>5. ASSUME NEW t \in Threads, NEW o \in OrderIds, ConfirmRead(t, o)
      PROVE RequestInv'
  <2>1. Logs /\ UNCHANGED broker
    BY <1>5 DEF ConfirmRead, Goto, tables
  <2>2. Spares
    BY <1>5 DEF ConfirmRead, Goto, tables, Spare
  <2> QED BY <2>1, <2>2, NothingSent
<1>6. ASSUME NEW t \in Threads, ConfirmReject(t)
      PROVE RequestInv'
  <2>1. Logs /\ UNCHANGED broker
    BY <1>6 DEF ConfirmReject, Return, CommitState, LogStates
  <2>2. Spares
    BY <1>6 DEF ConfirmReject, Return, CommitState, LogStates, Spare
  <2> QED BY <2>1, <2>2, NothingSent
<1>7. ASSUME NEW t \in Threads, ConfirmCommit(t)
      PROVE RequestInv'
  <2>1. Logs /\ UNCHANGED broker
    BY <1>7 DEF ConfirmCommit, Goto, CommitState, LogStates
  <2>2. Spares
    BY <1>7 DEF ConfirmCommit, Goto, CommitState, LogStates, Spare
  <2> QED BY <2>1, <2>2, NothingSent
<1>8. ASSUME NEW t \in Threads, ReloadConfirmed(t)
      PROVE RequestInv'
  <2>1. Logs /\ UNCHANGED broker
    BY <1>8 DEF ReloadConfirmed, Goto, tables
  <2>2. Spares
    BY <1>8 DEF ReloadConfirmed, Goto, tables, Spare
  <2> QED BY <2>1, <2>2, NothingSent
<1>9. ASSUME NEW t \in Threads, LoadPosition(t, "paper", "paperFill")
      PROVE RequestInv'
  <2>1. Logs /\ UNCHANGED broker
    BY <1>9 DEF LoadPosition, Goto, tables
  <2>2. Spares
    BY <1>9 DEF LoadPosition, Goto, tables, Spare
  <2> QED BY <2>1, <2>2, NothingSent
<1>10. ASSUME NEW t \in Threads, PaperFill(t)
      PROVE RequestInv'
  <2>1. Logs /\ UNCHANGED broker
    BY <1>10 DEF PaperFill, Return, LogStates
  <2>2. Spares
    BY <1>10 DEF PaperFill, Return, LogStates, Spare
  <2> QED BY <2>1, <2>2, NothingSent
<1>11. ASSUME NEW t \in Threads, LivePending(t) PROVE RequestInv'
  <2>1. cur[t] \in OrderIds
    BY <1>11 DEF LivePending, Goto, ThreadInv, ThreadOK, Executing
  <2> QED BY <1>11, <2>1, RequestsAllowed
<1>12. ASSUME NEW t \in Threads, LoginRaises(t)
      PROVE RequestInv'
  <2>1. Logs /\ UNCHANGED broker
    BY <1>12 DEF LoginRaises, Return, LogStates
  <2>2. Spares
    BY <1>12 DEF LoginRaises, Return, LogStates, Spare
  <2> QED BY <2>1, <2>2, NothingSent
<1>13. ASSUME NEW t \in Threads, LoggedIn(t)
      PROVE RequestInv'
  <2>1. Logs /\ UNCHANGED broker
    BY <1>13 DEF LoggedIn, Goto, tables, ThreadInv, ThreadOK, LivePCs,
       Executing, PaperPCs
  <2>2. tries[t] = 0
    BY <1>13 DEF LoggedIn, Goto, ThreadInv, ThreadOK, LivePCs, Executing,
       PaperPCs
  <2>3. Spare(t)' = Spare(t)
    BY <1>13, <2>2, ConstantsAssumption DEF LoggedIn, Goto, Spare
  <2>4. \A x \in Threads \ {t} : Spare(x)' = Spare(x)
    BY <1>13 DEF LoggedIn, Goto, Spare
  <2>5. UNCHANGED cur
    BY <1>13 DEF LoggedIn
  <2> QED BY <2>1, <2>3, <2>4, <2>5, NothingSent
<1>14. ASSUME NEW t \in Threads, UnknownSymbol(t)
      PROVE RequestInv'
  <2>1. Logs /\ UNCHANGED broker
    BY <1>14 DEF UnknownSymbol, Return, CommitState, LogStates
  <2>2. Spares
    BY <1>14 DEF UnknownSymbol, Return, CommitState, LogStates, Spare
  <2> QED BY <2>1, <2>2, NothingSent
<1>15. ASSUME NEW t \in Threads, BrokerAccepts(t) PROVE RequestInv'
  <2>1. /\ cur[t] \in OrderIds /\ pc[t] \in {"send", "resend"}
        /\ tries[t] < MaxAttempts
    BY <1>15 DEF BrokerAccepts, ThreadInv, ThreadOK, Executing
  <2>2. Spare(t) \in 1 .. 2 * MaxAttempts
    BY <2>1, ConstantsAssumption DEF Spare
  <2>3. Spare(t)' \in Int /\ Spare(t)' < Spare(t)
    BY <1>15, <2>1, <2>2, ConstantsAssumption DEF BrokerAccepts, Spare
  <2>4. \A x \in Threads \ {t} : Spare(x)' = Spare(x)
    BY <1>15 DEF BrokerAccepts, Spare
  <2>5. /\ Accept(t) \/ UNCHANGED broker
        /\ UNCHANGED <<log, cur>>
    BY <1>15 DEF BrokerAccepts
  <2> QED BY <2>1, <2>2, <2>3, <2>4, <2>5, RequestSent
<1>16. ASSUME NEW t \in Threads, RequestRaises(t) PROVE RequestInv'
  <2>1. /\ cur[t] \in OrderIds /\ pc[t] \in {"send", "resend"}
        /\ tries[t] < MaxAttempts
    BY <1>16 DEF RequestRaises, Goto, ThreadInv, ThreadOK, Executing
  <2>2. Spare(t) \in 1 .. 2 * MaxAttempts
    BY <2>1, ConstantsAssumption DEF Spare
  <2>3. Spare(t)' \in Int /\ Spare(t)' < Spare(t)
    BY <1>16, <2>1, <2>2, ConstantsAssumption DEF RequestRaises, Goto, Spare
  <2>4. \A x \in Threads \ {t} : Spare(x)' = Spare(x)
    BY <1>16 DEF RequestRaises, Goto, Spare
  <2>5. /\ Accept(t) \/ UNCHANGED broker
        /\ UNCHANGED <<log, cur>>
    BY <1>16 DEF RequestRaises
  <2> QED BY <2>1, <2>2, <2>3, <2>4, <2>5, RequestSent
<1>17. ASSUME NEW t \in Threads, AttemptFails(t) PROVE RequestInv'
  <2>1. /\ cur[t] \in OrderIds /\ pc[t] \in {"send", "resend"}
        /\ tries[t] < MaxAttempts
    BY <1>17 DEF AttemptFails, ThreadInv, ThreadOK, Executing
  <2>2. Spare(t) \in 1 .. 2 * MaxAttempts
    BY <2>1, ConstantsAssumption DEF Spare
  <2>3. Spare(t)' \in Int /\ Spare(t)' < Spare(t)
    BY <1>17, <2>1, <2>2, ConstantsAssumption DEF AttemptFails, Spare
  <2>4. \A x \in Threads \ {t} : Spare(x)' = Spare(x)
    BY <1>17 DEF AttemptFails, Spare
  <2>5. /\ Accept(t) \/ UNCHANGED broker
        /\ UNCHANGED <<log, cur>>
    BY <1>17 DEF AttemptFails
  <2> QED BY <2>1, <2>2, <2>3, <2>4, <2>5, RequestSent
<1>18. ASSUME NEW t \in Threads, LoadPosition(t, "accepted", "liveFill")
      PROVE RequestInv'
  <2>1. Logs /\ UNCHANGED broker
    BY <1>18 DEF LoadPosition, Goto, tables
  <2>2. Spares
    BY <1>18 DEF LoadPosition, Goto, tables, Spare
  <2> QED BY <2>1, <2>2, NothingSent
<1>19. ASSUME NEW t \in Threads, LiveFill(t)
      PROVE RequestInv'
  <2>1. Logs /\ UNCHANGED broker
    BY <1>19 DEF LiveFill, Return, CommitState, LogStates
  <2>2. Spares
    BY <1>19 DEF LiveFill, Return, CommitState, LogStates, Spare
  <2> QED BY <2>1, <2>2, NothingSent
<1>20. ASSUME NEW t \in Threads, LiveFail(t)
      PROVE RequestInv'
  <2>1. Logs /\ UNCHANGED broker
    BY <1>20 DEF LiveFail, Return, CommitState, LogStates
  <2>2. Spares
    BY <1>20 DEF LiveFail, Return, CommitState, LogStates, Spare
  <2> QED BY <2>1, <2>2, NothingSent
<1>21. ASSUME NEW t \in Threads, CommitRaises(t)
      PROVE RequestInv'
  <2>1. Logs /\ UNCHANGED broker
    BY <1>21 DEF CommitRaises, Return
  <2>2. Spares
    BY <1>21 DEF CommitRaises, Return, Spare
  <2> QED BY <2>1, <2>2, NothingSent
<1>22. ASSUME NEW t \in Threads, NEW k \in Keys, CloseRead(t, k)
      PROVE RequestInv'
  <2>1. Logs /\ UNCHANGED broker
    BY <1>22 DEF CloseRead, Goto, tables
  <2>2. Spares
    BY <1>22 DEF CloseRead, Goto, tables, Spare
  <2> QED BY <2>1, <2>2, NothingSent
<1>23. ASSUME NEW t \in Threads, CloseCommit(t)
      PROVE RequestInv'
  <2>1. Logs /\ UNCHANGED broker
    BY <1>23 DEF CloseCommit, Return
  <2>2. Spares
    BY <1>23 DEF CloseCommit, Return, Spare
  <2> QED BY <2>1, <2>2, NothingSent
<1>24. ASSUME NEW w \in Workers, NEW u \in Users, GetExecutor(w, u)
      PROVE RequestInv'
  <2>1. Logs /\ UNCHANGED broker
    BY <1>24 DEF GetExecutor, tables, locals
  <2>2. Spares
    BY <1>24 DEF GetExecutor, tables, locals, Spare
  <2> QED BY <2>1, <2>2, NothingSent
<1>25. ASSUME NEW o \in OrderIds, Age(o)
      PROVE RequestInv'
  <2>1. Logs /\ UNCHANGED broker
    BY <1>25 DEF Age, locals
  <2>2. Spares
    BY <1>25 DEF Age, locals, Spare
  <2> QED BY <2>1, <2>2, NothingSent
<1>26. ASSUME NEW w \in Workers, NEW e \in Envs, Crash(w, e)
      PROVE RequestInv'
  <2>1. Logs /\ UNCHANGED broker
    BY <1>26 DEF Crash
  <2>2. Spares
    BY <1>26 DEF Crash, Spare
  <2> QED BY <2>1, <2>2, NothingSent
<1>27. CASE UNCHANGED vars
  <2>1. Logs /\ UNCHANGED broker
    BY <1>27 DEF vars, tables
  <2>2. Spares
    BY <1>27 DEF vars, locals, Spare
  <2> QED BY <2>1, <2>2, NothingSent
<1> QED BY <1>1, <1>2, <1>3, <1>4, <1>5, <1>6, <1>7, <1>8, <1>9, <1>10, <1>11,
   <1>12, <1>13, <1>14, <1>15, <1>16, <1>17, <1>18, <1>19, <1>20, <1>21, <1>22,
   <1>23, <1>24, <1>25, <1>26, <1>27 DEF Next, Call, Step

\* The units filled by a number of fills of one order of size q.
LEMMA UnitsOfFills ==
  ASSUME NEW q \in Nat, NEW n \in Nat
  PROVE  /\ q * n \in Nat
         /\ q * (n + 1) = q * n + q
         /\ IsFiniteSet(q * n + 1 .. q * n + q)
         /\ Cardinality(q * n + 1 .. q * n + q) = q
<1>1. q * n \in Nat /\ q * (n + 1) = q * n + q
  OBVIOUS
<1> DEFINE m == q * n
<1>2. m \in Nat
  BY <1>1
<1> HIDE DEF m
<1>3. /\ IsFiniteSet(m + 1 .. m + q)
      /\ Cardinality(m + 1 .. m + q) = IF m + 1 > m + q THEN 0 ELSE m + q - (m + 1) + 1
  BY <1>2, FS_Interval
<1>4. Cardinality(m + 1 .. m + q) = q
  BY <1>2, <1>3
<1> QED BY <1>1, <1>3, <1>4 DEF m

\* Without a fill the units filled stay the same.
LEMMA UnitsKept ==
  ASSUME TypeOK, TypeOK', TableInv, \A o \in OrderIds : Grows(o),
         \A o \in OrderIds : log'[o]["FILLED"] = log[o]["FILLED"],
         NEW k
  PROVE  FilledUnits(k)' = FilledUnits(k)
<1>1. ASSUME NEW o \in OrderIds, detail[o] # NoRow
      PROVE  detail'[o] = detail[o]
  BY <1>1 DEF TableInv, Grows
<1>2. ASSUME NEW o \in OrderIds, detail[o] = NoRow, detail'[o] # NoRow
      PROVE  1 .. detail'[o].quantity * log'[o]["FILLED"] = {}
  <2>1. log'[o]["FILLED"] = 0
    BY <1>2 DEF TableInv, Logged
  <2>2. detail'[o].quantity \in Nat
    BY <1>2, ConstantsAssumption DEF TypeOK, Detail
  <2>3. detail'[o].quantity * log'[o]["FILLED"] = 0
    BY <2>1, <2>2
  <2> QED BY <2>3
<1>3. ASSUME NEW u, u \in FilledUnits(k) PROVE u \in FilledUnits(k)'
  BY <1>1, <1>3 DEF FilledUnits
<1>4. ASSUME NEW u, u \in FilledUnits(k)' PROVE u \in FilledUnits(k)
  <2>1. PICK o \in OrderIds :
           /\ detail'[o] # NoRow /\ detail'[o].key = k
           /\ u \in {o} \X (1 .. detail'[o].quantity * log'[o]["FILLED"])
    BY <1>4 DEF FilledUnits
  <2>2. detail[o] # NoRow
    BY <1>2, <2>1
  <2> QED BY <1>1, <2>1, <2>2 DEF FilledUnits
<1> QED BY <1>3, <1>4

\* A fill of an order adds its size to the units filled for its user and
\* symbol, and nothing to those of any other.
LEMMA UnitsAdded ==
  ASSUME TypeOK, NEW c \in OrderIds, detail[c] # NoRow,
         UNCHANGED detail,
         log'[c]["FILLED"] = log[c]["FILLED"] + 1,
         \A o \in OrderIds \ {c} : log'[o] = log[o],
         NEW k, IsFiniteSet(FilledUnits(k))
  PROVE  /\ IsFiniteSet(FilledUnits(k)')
         /\ Cardinality(FilledUnits(k)')
              = Cardinality(FilledUnits(k))
                    + (IF detail[c].key = k THEN detail[c].quantity ELSE 0)
<1> DEFINE q == detail[c].quantity
           n == log[c]["FILLED"]
           more == {c} \X (q * n + 1 .. q * n + q)
<1>1. q \in Nat /\ n \in Nat
  <2>1. detail[c] \in Detail
    BY DEF TypeOK
  <2>2. q \in Nat
    BY <2>1, ConstantsAssumption DEF Detail
  <2>3. n \in Nat
    BY DEF TypeOK, Logged
  <2> QED BY <2>2, <2>3
<1>2. q * n \in Nat /\ q * (n + 1) = q * n + q
  BY <1>1, UnitsOfFills
<1>3. Cardinality(FilledUnits(k)) \in Nat
  BY FS_CardinalityType
<1>4. CASE detail[c].key # k
  <2>1. FilledUnits(k)' = FilledUnits(k)
    BY <1>4 DEF FilledUnits
  <2> QED BY <1>3, <1>4, <2>1
<1>5. CASE detail[c].key = k
  <2>1. 1 .. q * (n + 1) = (1 .. q * n) \cup (q * n + 1 .. q * n + q)
    BY <1>1, <1>2
  <2>2. ASSUME NEW u, u \in FilledUnits(k)'
        PROVE  u \in FilledUnits(k) \cup more
    <3>1. PICK o \in OrderIds :
             /\ detail[o] # NoRow /\ detail[o].key = k
             /\ u \in {o} \X (1 .. detail[o].quantity * log'[o]["FILLED"])
      BY <2>2 DEF FilledUnits
    <3>2. CASE o = c
      <4>1. u \in {c} \X (1 .. q * (n + 1))
        BY <3>1, <3>2
      <4>2. u \in {c} \X (1 .. q * n) \/ u \in more
        BY <2>1, <4>1
      <4> QED BY <3>1, <3>2, <4>2 DEF FilledUnits
    <3>3. CASE o # c
      BY <3>1, <3>3 DEF FilledUnits
    <3> QED BY <3>2, <3>3
  <2>3. ASSUME NEW u, u \in FilledUnits(k) PROVE u \in FilledUnits(k)'
    <3>1. PICK o \in OrderIds :
             /\ detail[o] # NoRow /\ detail[o].key = k
             /\ u \in {o} \X (1 .. detail[o].quantity * log[o]["FILLED"])
      BY <2>3 DEF FilledUnits
    <3>2. u \in {o} \X (1 .. detail[o].quantity * log'[o]["FILLED"])
      <4>1. CASE o = c
        <5>1. 1 .. q * n \subseteq 1 .. q * (n + 1)
          BY <2>1
        <5> QED BY <3>1, <4>1, <5>1
      <4>2. CASE o # c
        BY <3>1, <4>2
      <4> QED BY <4>1, <4>2
    <3> QED BY <3>1, <3>2 DEF FilledUnits
  <2>4. ASSUME NEW u, u \in more
        PROVE  u \in FilledUnits(k)' /\ u \notin FilledUnits(k)
    <3>1. u \in {c} \X (1 .. q * (n + 1))
      BY <2>1, <2>4
    <3>2. u \in FilledUnits(k)'
      BY <1>5, <3>1 DEF FilledUnits
    <3>3. u[1] = c /\ u[2] \in Int /\ ~(u[2] <= q * n)
      <4>1. u[1] = c /\ u[2] \in q * n + 1 .. q * n + q
        BY <2>4
      <4> DEFINE m == q * n
      <4>2. m \in Nat /\ u[2] \in m + 1 .. m + q
        BY <1>2, <4>1
      <4> HIDE DEF m
      <4>3. u[2] \in Int /\ ~(u[2] <= m)
        BY <1>1, <4>2
      <4> QED BY <4>1, <4>3 DEF m
    <3>4. u \notin FilledUnits(k)
      BY <3>3 DEF FilledUnits
    <3> QED BY <3>2, <3>4
  <2>5. FilledUnits(k)' = FilledUnits(k) \cup more /\ FilledUnits(k) \cap more = {}
    BY <2>2, <2>3, <2>4
  <2>6. IsFiniteSet(more) /\ Cardinality(more) = q
    <3>1. /\ IsFiniteSet(q * n + 1 .. q * n + q)
          /\ Cardinality(q * n + 1 .. q * n + q) = q
      BY <1>1, UnitsOfFills
    <3>2. IsFiniteSet({c}) /\ Cardinality({c}) = 1
      BY FS_Singleton
    <3>3. /\ IsFiniteSet(more)
          /\ Cardinality(more) = Cardinality({c}) * Cardinality(q * n + 1 .. q * n + q)
      BY <3>1, <3>2, FS_Product
    <3> QED BY <1>1, <3>1, <3>2, <3>3
  <2>7. /\ IsFiniteSet(FilledUnits(k) \cup more)
        /\ Cardinality(FilledUnits(k) \cup more)
             = Cardinality(FilledUnits(k)) + Cardinality(more)
                   - Cardinality(FilledUnits(k) \cap more)
    BY <2>6, FS_Union
  <2>8. Cardinality(FilledUnits(k) \cap more) = 0
    BY <2>5, FS_EmptySet
  <2> QED BY <1>1, <1>3, <1>5, <2>5, <2>6, <2>7, <2>8
<1> QED BY <1>4, <1>5

\* A fill leaves in the table at most what it loaded and what it adds, or what
\* was there.
LEMMA WrittenQuantity ==
  ASSUME TypeOK, NEW t \in Threads, detail[cur[t]] \in Detail,
         CanWrite(t), WritePosition(t), NEW k \in Keys, positions'[k] # NoRow
  PROVE  \/ positions[k] # NoRow /\ positions'[k].quantity = positions[k].quantity
         \/ /\ k = detail[cur[t]].key
            /\ positions'[k].quantity
                 <= detail[cur[t]].quantity
                       + (IF row[t] = NoRow THEN 0 ELSE row[t].quantity)
<1> DEFINE d == detail[cur[t]]
           new == Synced(row[t], d)
<1>1. d.quantity \in Nat
  BY ConstantsAssumption DEF Detail
<1>2. row[t] # NoRow => row[t].quantity \in Nat
  BY DEF TypeOK, Position
<1>3. new.quantity <= d.quantity + (IF row[t] = NoRow THEN 0 ELSE row[t].quantity)
  BY <1>1, <1>2 DEF Synced, Distance
<1>4. CASE k # d.key
  BY <1>4 DEF TypeOK, WritePosition
<1>5. CASE k = d.key /\ row[t] = NoRow
  BY <1>3, <1>5 DEF TypeOK, WritePosition
<1>6. CASE k = d.key /\ row[t] # NoRow
  <2>1. positions[k] \in Position
    BY <1>6 DEF TypeOK, CanWrite
  <2>2. positions'[k].quantity
          = Flush(row[t].quantity, positions[k].quantity, new.quantity)
    BY <1>6, <2>1 DEF TypeOK, WritePosition, Position
  <2> QED BY <1>3, <1>6, <2>1, <2>2, RowAssumption DEF Flush
<1> QED BY <1>4, <1>5, <1>6
\* FillsInv is preserved by a step that fills nothing: positions stay or go,
\* and a row that is loaded is the one in the table.
LEMMA NothingFilled ==
  ASSUME TypeOK, TypeOK', ThreadInv, TableInv, FillsInv,
         \A o \in OrderIds : Grows(o),
         \A o \in OrderIds : log'[o]["FILLED"] = log[o]["FILLED"],
         \A k \in Keys : positions'[k] \in {positions[k], NoRow},
         \A x \in Threads :
             pc'[x] \in {"paperFill", "liveFill"} =>
                 /\ pc[x] \in Executing /\ cur'[x] = cur[x]
                 /\ \/ pc[x] = pc'[x] /\ row'[x] = row[x]
                    \/ row'[x] = positions[detail[cur[x]].key]
  PROVE  FillsInv'
<1>1. \A k : FilledUnits(k)' = FilledUnits(k)
  BY UnitsKept
<1>2. \A k \in Keys : IsFiniteSet(FilledUnits(k)')
  BY <1>1 DEF FillsInv
<1>3. PositionWithinFills'
  <2> SUFFICES ASSUME NEW k \in Keys, positions'[k] # NoRow
               PROVE  positions'[k].quantity <= Cardinality(FilledUnits(k)')
    BY DEF PositionWithinFills
  <2> QED BY <1>1 DEF FillsInv, PositionWithinFills
<1>4. ASSUME NEW x \in Threads, pc'[x] \in {"paperFill", "liveFill"},
             row'[x] # NoRow, NEW k \in Keys, k = detail'[cur'[x]].key
      PROVE  row'[x].quantity <= Cardinality(FilledUnits(k)')
  <2>1. cur[x] \in OrderIds /\ status[cur[x]] # "ABSENT"
    BY <1>4 DEF ThreadInv, ThreadOK
  <2>2. detail[cur[x]].key = k
    BY <1>4, <2>1 DEF Grows
  <2>3. row'[x].quantity <= Cardinality(FilledUnits(k))
    BY <1>4, <2>2 DEF FillsInv, PositionWithinFills
  <2> QED BY <1>1, <2>3
<1> QED BY <1>2, <1>3, <1>4 DEF FillsInv

\* FillsInv is preserved by a fill: what it adds to the position it adds to the
\* units filled.
LEMMA Filled ==
  ASSUME TypeOK, TypeOK', ThreadInv, TableInv, FillsInv,
         NEW t \in Threads, pc[t] \in {"paperFill", "liveFill"},
         CanWrite(t), WritePosition(t), UNCHANGED detail,
         log'[cur[t]]["FILLED"] = log[cur[t]]["FILLED"] + 1,
         \A o \in OrderIds \ {cur[t]} : log'[o] = log[o],
         pc'[t] = "idle",
         \A x \in Threads \ {t} :
             pc'[x] = pc[x] /\ cur'[x] = cur[x] /\ row'[x] = row[x]
  PROVE  FillsInv'
<1> DEFINE d == detail[cur[t]]
           more(k) == IF d.key = k THEN d.quantity ELSE 0
           N(k) == Cardinality(FilledUnits(k))
<1>1. /\ cur[t] \in OrderIds /\ d # NoRow /\ d \in Detail
  BY RowAssumption DEF ThreadInv, ThreadOK, Executing, TableInv, TypeOK
<1>2. d.key \in Keys /\ d.quantity \in Nat
  BY <1>1, ConstantsAssumption DEF Detail
<1>3. ASSUME NEW k \in Keys
      PROVE  /\ IsFiniteSet(FilledUnits(k)')
             /\ Cardinality(FilledUnits(k)') = N(k) + more(k)
             /\ N(k) \in Nat /\ more(k) \in Nat
  <2>1. IsFiniteSet(FilledUnits(k))
    BY DEF FillsInv
  <2>2. N(k) \in Nat /\ more(k) \in Nat
    BY <1>2, <2>1, FS_CardinalityType
  <2>3. /\ IsFiniteSet(FilledUnits(k)')
        /\ Cardinality(FilledUnits(k)')
              = Cardinality(FilledUnits(k))
                    + (IF detail[cur[t]].key = k THEN detail[cur[t]].quantity ELSE 0)
    BY <1>1, <2>1, UnitsAdded
  <2> QED BY <2>2, <2>3
<1>4. PositionWithinFills'
  <2> SUFFICES ASSUME NEW k \in Keys, positions'[k] # NoRow
               PROVE  positions'[k].quantity <= Cardinality(FilledUnits(k)')
    BY DEF PositionWithinFills
  <2>1. positions'[k].quantity \in Nat
    BY RowAssumption DEF TypeOK, Position
  <2>2. CASE positions[k] # NoRow /\ positions'[k].quantity = positions[k].quantity
    <3>1. positions[k].quantity <= N(k)
      BY <2>2 DEF FillsInv, PositionWithinFills
    <3> QED BY <1>3, <2>1, <2>2, <3>1
  <2>3. CASE /\ k = d.key
             /\ positions'[k].quantity
                  <= d.quantity + (IF row[t] = NoRow THEN 0 ELSE row[t].quantity)
    <3>1. row[t] # NoRow => row[t].quantity \in Nat /\ row[t].quantity <= N(k)
      BY <2>3 DEF FillsInv, TypeOK, Position
    <3>2. more(k) = d.quantity
      BY <2>3
    <3> HIDE DEF d
    <3>3. CASE row[t] = NoRow
      BY <1>2, <1>3, <2>1, <2>3, <3>2, <3>3
    <3>4. CASE row[t] # NoRow
      BY <1>2, <1>3, <2>1, <2>3, <3>1, <3>2, <3>4
    <3> QED BY <3>3, <3>4
  <2> QED BY <1>1, <2>2, <2>3, WrittenQuantity
<1>5. ASSUME NEW x \in Threads, pc'[x] \in {"paperFill", "liveFill"},
             row'[x] # NoRow, NEW k \in Keys, k = detail'[cur'[x]].key
      PROVE  row'[x].quantity <= Cardinality(FilledUnits(k)')
  <2>1. x # t /\ pc[x] = pc'[x] /\ cur'[x] = cur[x] /\ row'[x] = row[x]
    BY <1>5
  <2>2. row[x].quantity \in Nat /\ row[x].quantity <= N(k)
    BY <1>5, <2>1 DEF FillsInv, TypeOK, Position
  <2> QED BY <1>3, <2>1, <2>2
<1> QED BY <1>3, <1>4, <1>5 DEF FillsInv

\* FillsInv is preserved: only the two fills add to a position, each in the step
\* that logs it.
LEMMA FillsInvStep ==
  ASSUME TypeOK, TypeOK', ThreadInv, TableInv, FillsInv, [Next]_vars
  PROVE  FillsInv'
<1> DEFINE Logs == \A o \in OrderIds : log'[o]["FILLED"] = log[o]["FILLED"]
           Stored == \A k \in Keys : positions'[k] \in {positions[k], NoRow}
           Carried == \A x \in Threads :
             pc'[x] \in {"paperFill", "liveFill"} =>
                 /\ pc[x] \in Executing /\ cur'[x] = cur[x]
                 /\ \/ pc[x] = pc'[x] /\ row'[x] = row[x]
                    \/ row'[x] = positions[detail[cur[x]].key]
<1>0. \A o \in OrderIds : Grows(o)
  BY GrowsStep
<1> USE DEF TypeOK, Logged
<1>1. ASSUME NEW t \in Threads, NEW r \in Request, PlaceOrder(t, r) PROVE FillsInv'
  <2>1. Logs /\ Stored
    BY <1>1 DEF PlaceOrder, Goto, tables
  <2>2. Carried
    BY <1>1 DEF PlaceOrder, Goto, tables, Executing
  <2> QED BY <1>0, <2>1, <2>2, NothingFilled
<1>2. ASSUME NEW t \in Threads, IdempotencyBlock(t) PROVE FillsInv'
  <2>1. Logs /\ Stored
    BY <1>2 DEF IdempotencyBlock, Return, tables
  <2>2. Carried
    BY <1>2 DEF IdempotencyBlock, Return, tables, Executing
  <2> QED BY <1>0, <2>1, <2>2, NothingFilled
<1>3. ASSUME NEW t \in Threads, IdempotencyPass(t) PROVE FillsInv'
  <2>1. Logs /\ Stored
    BY <1>3 DEF IdempotencyPass, Goto, tables
  <2>2. Carried
    BY <1>3 DEF IdempotencyPass, Goto, tables, Executing
  <2> QED BY <1>0, <2>1, <2>2, NothingFilled
<1>4. ASSUME NEW t \in Threads, NEW o \in OrderIds, InsertOrder(t, o) PROVE FillsInv'
  <2>1. Logs /\ Stored
    BY <1>4 DEF InsertOrder, Return, LogStates
  <2>2. Carried
    BY <1>4 DEF InsertOrder, Return, LogStates, Executing
  <2> QED BY <1>0, <2>1, <2>2, NothingFilled
<1>5. ASSUME NEW t \in Threads, NEW o \in OrderIds, ConfirmRead(t, o) PROVE FillsInv'
  <2>1. Logs /\ Stored
    BY <1>5 DEF ConfirmRead, Goto, tables
  <2>2. Carried
    BY <1>5 DEF ConfirmRead, Goto, tables, Executing
  <2> QED BY <1>0, <2>1, <2>2, NothingFilled
<1>6. ASSUME NEW t \in Threads, ConfirmReject(t) PROVE FillsInv'
  <2>1. Logs /\ Stored
    BY <1>6 DEF ConfirmReject, Return, CommitState, LogStates
  <2>2. Carried
    BY <1>6 DEF ConfirmReject, Return, CommitState, LogStates, Executing
  <2> QED BY <1>0, <2>1, <2>2, NothingFilled
<1>7. ASSUME NEW t \in Threads, ConfirmCommit(t) PROVE FillsInv'
  <2>1. Logs /\ Stored
    BY <1>7 DEF ConfirmCommit, Goto, CommitState, LogStates
  <2>2. Carried
    BY <1>7 DEF ConfirmCommit, Goto, CommitState, LogStates, Executing
  <2> QED BY <1>0, <2>1, <2>2, NothingFilled
<1>8. ASSUME NEW t \in Threads, ReloadConfirmed(t) PROVE FillsInv'
  <2>1. Logs /\ Stored
    BY <1>8 DEF ReloadConfirmed, Goto, tables
  <2>2. Carried
    BY <1>8 DEF ReloadConfirmed, Goto, tables, Executing
  <2> QED BY <1>0, <2>1, <2>2, NothingFilled
<1>9. ASSUME NEW t \in Threads, LoadPosition(t, "paper", "paperFill") PROVE FillsInv'
  <2>1. Logs /\ Stored
    BY <1>9 DEF LoadPosition, Goto, tables
  <2>2. Carried
    BY <1>9 DEF LoadPosition, Goto, tables, Executing
  <2> QED BY <1>0, <2>1, <2>2, NothingFilled
<1>10. ASSUME NEW t \in Threads, PaperFill(t) PROVE FillsInv'
  <2>1. pc[t] = "paperFill" /\ cur[t] \in OrderIds
    BY <1>10 DEF PaperFill, ThreadInv, ThreadOK, Executing
  <2>2. /\ log'[cur[t]]["FILLED"] = log[cur[t]]["FILLED"] + 1
        /\ \A o \in OrderIds \ {cur[t]} : log'[o] = log[o]
    BY <1>10, <2>1 DEF PaperFill, LogStates
  <2>3. /\ pc'[t] = "idle" /\ UNCHANGED detail
        /\ \A x \in Threads \ {t} :
              pc'[x] = pc[x] /\ cur'[x] = cur[x] /\ row'[x] = row[x]
    BY <1>10 DEF PaperFill, Return
  <2>4. CanWrite(t) /\ WritePosition(t)
    BY <1>10 DEF PaperFill
  <2> QED BY <2>1, <2>2, <2>3, <2>4, Filled
<1>11. ASSUME NEW t \in Threads, LivePending(t) PROVE FillsInv'
  <2>1. Logs /\ Stored
    BY <1>11 DEF LivePending, Goto, CommitState, LogStates
  <2>2. Carried
    BY <1>11 DEF LivePending, Goto, CommitState, LogStates, Executing
  <2> QED BY <1>0, <2>1, <2>2, NothingFilled
<1>12. ASSUME NEW t \in Threads, LoginRaises(t) PROVE FillsInv'
  <2>1. Logs /\ Stored
    BY <1>12 DEF LoginRaises, Return, LogStates
  <2>2. Carried
    BY <1>12 DEF LoginRaises, Return, LogStates, Executing
  <2> QED BY <1>0, <2>1, <2>2, NothingFilled
<1>13. ASSUME NEW t \in Threads, LoggedIn(t) PROVE FillsInv'
  <2>1. Logs /\ Stored
    BY <1>13 DEF LoggedIn, Goto, tables
  <2>2. Carried
    BY <1>13 DEF LoggedIn, Goto, tables, Executing
  <2> QED BY <1>0, <2>1, <2>2, NothingFilled
<1>14. ASSUME NEW t \in Threads, UnknownSymbol(t) PROVE FillsInv'
  <2>1. Logs /\ Stored
    BY <1>14 DEF UnknownSymbol, Return, CommitState, LogStates
  <2>2. Carried
    BY <1>14 DEF UnknownSymbol, Return, CommitState, LogStates, Executing
  <2> QED BY <1>0, <2>1, <2>2, NothingFilled
<1>15. ASSUME NEW t \in Threads, BrokerAccepts(t) PROVE FillsInv'
  <2>1. Logs /\ Stored
    BY <1>15 DEF BrokerAccepts
  <2>2. Carried
    BY <1>15 DEF BrokerAccepts, Executing
  <2> QED BY <1>0, <2>1, <2>2, NothingFilled
<1>16. ASSUME NEW t \in Threads, RequestRaises(t) PROVE FillsInv'
  <2>1. Logs /\ Stored
    BY <1>16 DEF RequestRaises, Goto
  <2>2. Carried
    BY <1>16 DEF RequestRaises, Goto, Executing
  <2> QED BY <1>0, <2>1, <2>2, NothingFilled
<1>17. ASSUME NEW t \in Threads, AttemptFails(t) PROVE FillsInv'
  <2>1. Logs /\ Stored
    BY <1>17 DEF AttemptFails
  <2>2. Carried
    BY <1>17 DEF AttemptFails, Executing
  <2> QED BY <1>0, <2>1, <2>2, NothingFilled
<1>18. ASSUME NEW t \in Threads, LoadPosition(t, "accepted", "liveFill") PROVE FillsInv'
  <2>1. Logs /\ Stored
    BY <1>18 DEF LoadPosition, Goto, tables
  <2>2. Carried
    BY <1>18 DEF LoadPosition, Goto, tables, Executing
  <2> QED BY <1>0, <2>1, <2>2, NothingFilled
<1>19. ASSUME NEW t \in Threads, LiveFill(t) PROVE FillsInv'
  <2>1. pc[t] = "liveFill" /\ cur[t] \in OrderIds
    BY <1>19 DEF LiveFill, ThreadInv, ThreadOK, Executing
  <2>2. /\ log'[cur[t]]["FILLED"] = log[cur[t]]["FILLED"] + 1
        /\ \A o \in OrderIds \ {cur[t]} : log'[o] = log[o]
    BY <1>19, <2>1 DEF LiveFill, CommitState, LogStates
  <2>3. /\ pc'[t] = "idle" /\ UNCHANGED detail
        /\ \A x \in Threads \ {t} :
              pc'[x] = pc[x] /\ cur'[x] = cur[x] /\ row'[x] = row[x]
    BY <1>19 DEF LiveFill, Return
  <2>4. CanWrite(t) /\ WritePosition(t)
    BY <1>19 DEF LiveFill
  <2> QED BY <2>1, <2>2, <2>3, <2>4, Filled
<1>20. ASSUME NEW t \in Threads, LiveFail(t) PROVE FillsInv'
  <2>1. Logs /\ Stored
    BY <1>20 DEF LiveFail, Return, CommitState, LogStates
  <2>2. Carried
    BY <1>20 DEF LiveFail, Return, CommitState, LogStates, Executing
  <2> QED BY <1>0, <2>1, <2>2, NothingFilled
<1>21. ASSUME NEW t \in Threads, CommitRaises(t) PROVE FillsInv'
  <2>1. Logs /\ Stored
    BY <1>21 DEF CommitRaises, Return
  <2>2. Carried
    BY <1>21 DEF CommitRaises, Return, Executing
  <2> QED BY <1>0, <2>1, <2>2, NothingFilled
<1>22. ASSUME NEW t \in Threads, NEW k \in Keys, CloseRead(t, k) PROVE FillsInv'
  <2>1. Logs /\ Stored
    BY <1>22 DEF CloseRead, Goto, tables
  <2>2. Carried
    BY <1>22 DEF CloseRead, Goto, tables, Executing
  <2> QED BY <1>0, <2>1, <2>2, NothingFilled
<1>23. ASSUME NEW t \in Threads, CloseCommit(t) PROVE FillsInv'
  <2>1. Logs /\ Stored
    BY <1>23 DEF CloseCommit, Return
  <2>2. Carried
    BY <1>23 DEF CloseCommit, Return, Executing
  <2> QED BY <1>0, <2>1, <2>2, NothingFilled
<1>24. ASSUME NEW w \in Workers, NEW u \in Users, GetExecutor(w, u) PROVE FillsInv'
  <2>1. Logs /\ Stored
    BY <1>24 DEF GetExecutor, tables, locals
  <2>2. Carried
    BY <1>24 DEF GetExecutor, tables, locals, Executing
  <2> QED BY <1>0, <2>1, <2>2, NothingFilled
<1>25. ASSUME NEW o \in OrderIds, Age(o) PROVE FillsInv'
  <2>1. Logs /\ Stored
    BY <1>25 DEF Age, locals
  <2>2. Carried
    BY <1>25 DEF Age, locals, Executing
  <2> QED BY <1>0, <2>1, <2>2, NothingFilled
<1>26. ASSUME NEW w \in Workers, NEW e \in Envs, Crash(w, e) PROVE FillsInv'
  <2>1. Logs /\ Stored
    BY <1>26 DEF Crash
  <2>2. Carried
    BY <1>26 DEF Crash, Executing
  <2> QED BY <1>0, <2>1, <2>2, NothingFilled
<1>27. CASE UNCHANGED vars
  <2>1. Logs /\ Stored
    BY <1>27 DEF vars, tables
  <2>2. Carried
    BY <1>27 DEF vars, locals, Executing
  <2> QED BY <1>0, <2>1, <2>2, NothingFilled
<1> QED BY <1>1, <1>2, <1>3, <1>4, <1>5, <1>6, <1>7, <1>8, <1>9, <1>10, <1>11,
   <1>12, <1>13, <1>14, <1>15, <1>16, <1>17, <1>18, <1>19, <1>20, <1>21, <1>22,
   <1>23, <1>24, <1>25, <1>26, <1>27 DEF Next, Call, Step

-----------------------------------------------------------------------------

\* What holds the two bounds up, together with IInv.
BInv == IInv /\ RequestInv /\ FillsInv

\* Requests sent and to come, and units held and filled, balance in every
\* reachable state.
THEOREM BoundsInvariance == Spec => []BInv
<1>1. Init => BInv
  <2> SUFFICES ASSUME Init PROVE BInv
    OBVIOUS
  <2>1. IInv
    BY IInvInit
  <2>2. RequestInv
    <3> SUFFICES ASSUME NEW o \in OrderIds
                 PROVE  broker[o] + Cardinality(Requests(o))
                            <= 2 * MaxAttempts * log[o]["PENDING_EXECUTION"]
      BY DEF RequestInv
    <3>1. \A t \in Threads : Spare(t) = 0
      BY DEF Init, Spare
    <3>2. Requests(o) = {}
      BY <3>1, ConstantsAssumption DEF Requests
    <3>3. broker[o] = 0 /\ log[o]["PENDING_EXECUTION"] = 0
      BY DEF Init, Logged
    <3> QED BY <3>2, <3>3, FS_EmptySet, ConstantsAssumption
  <2>3. FillsInv
    <3>1. \A k : FilledUnits(k) = {}
      BY DEF Init, FilledUnits
    <3> QED BY <3>1, FS_EmptySet DEF Init, FillsInv, PositionWithinFills
  <2> QED BY <2>1, <2>2, <2>3 DEF BInv
<1>2. BInv /\ [Next]_vars => BInv'
  <2> SUFFICES ASSUME BInv, [Next]_vars PROVE BInv'
    OBVIOUS
  <2>1. IInv'
    BY IInvStep DEF BInv
  <2>2. RequestInv'
    BY RequestInvStep DEF BInv, IInv
  <2>3. FillsInv'
    BY <2>1, FillsInvStep DEF BInv, IInv
  <2> QED BY <2>1, <2>2, <2>3 DEF BInv
<1> QED BY <1>1, <1>2, PTL DEF Spec

\* However many threads execute an order, lose answers and try again, the broker
\* has taken it at most twice for each attempt of each execution in the log.
THEOREM RequestBound == Spec => []BrokerOrdersBounded
<1>1. BInv => BrokerOrdersBounded
  <2> SUFFICES ASSUME BInv, NEW o \in OrderIds
               PROVE  broker[o] <= 2 * MaxAttempts * log[o]["PENDING_EXECUTION"]
    BY DEF BrokerOrdersBounded
  <2>1. broker[o] \in Nat /\ log[o]["PENDING_EXECUTION"] \in Nat
    BY DEF BInv, IInv, TypeOK, Logged
  <2>2. 2 * MaxAttempts * log[o]["PENDING_EXECUTION"] \in Nat
    BY <2>1, Products, ConstantsAssumption
  <2>3. broker[o] + Cardinality(Requests(o))
           <= 2 * MaxAttempts * log[o]["PENDING_EXECUTION"]
    BY DEF BInv, RequestInv
  <2> QED BY <2>1, <2>2, <2>3, RequestsFinite
<1> QED BY <1>1, BoundsInvariance, PTL

\* Whatever fills, closes and crashes overlap, a position never holds more than
\* the orders of that user and symbol were filled for: updates may be lost, but
\* none is counted twice.
THEOREM FillBound == Spec => []PositionWithinFills
<1>1. BInv => PositionWithinFills
  BY DEF BInv, FillsInv
<1> QED BY <1>1, BoundsInvariance, PTL

=============================================================================
