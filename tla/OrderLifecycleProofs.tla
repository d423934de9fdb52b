------------------------ MODULE OrderLifecycleProofs ------------------------
(***************************************************************************)
(* OrderRouter implements OrderLifecycle, for all values of its constants. *)
(*                                                                         *)
(* The invariant of the router does not bound what the log may hold.  That *)
(* takes a count of the threads that have confirmed an order and not begun *)
(* to execute it, and of those that have begun and not written an outcome  *)
(* (CountInv); and a commit that leaves the status alone is one of the     *)
(* lifecycle because what the session had loaded was logged (SeenInv).     *)
(***************************************************************************)
EXTENDS OrderRouterProofs, FiniteSetTheorems

\* The threads that may still begin an execution of o, and those that may
\* still write the outcome of one.
Beginning == PaperPCs \cup {"confirmed", "live"}
Ending == LivePCs \ {"live"}

Beginners(o) == {t \in Threads : cur[t] = o /\ pc[t] \in Beginning}
Enders(o) == {t \in Threads : cur[t] = o /\ pc[t] \in Ending}

CountOK(o) ==
    /\ Cardinality(Beginners(o)) + log[o]["PENDING_EXECUTION"]
           <= log[o]["CONFIRMED"]
    /\ Cardinality(Enders(o)) + log[o]["FILLED"] + log[o]["FAILED"]
           <= log[o]["PENDING_EXECUTION"]

CountInv == \A o \in OrderIds : CountOK(o)

\* The state a session has loaded is one the log has.
Loaded == Executing \cup {"confirm"}

SeenOK(t) ==
    pc[t] \in Loaded => seen[t] \in Logged /\ log[cur[t]][seen[t]] > 0

SeenInv == \A t \in Threads : SeenOK(t)

\* An order that exists was logged when it was placed.
PlacedInv ==
    \A o \in OrderIds :
        status[o] # "ABSENT" => log[o]["PENDING_CONFIRMATION"] > 0

LInv == IInv /\ CountInv /\ SeenInv /\ PlacedInv

-----------------------------------------------------------------------------

\* Threads leave a set, but for one that may join it.
LEMMA Counted ==
  ASSUME NEW S \in SUBSET Threads, NEW T \in SUBSET Threads
  PROVE  /\ Cardinality(S) \in Nat /\ Cardinality(T) \in Nat
         /\ T \subseteq S => Cardinality(T) <= Cardinality(S)
         /\ \A t \in S : T \subseteq S \ {t} => Cardinality(T) + 1 <= Cardinality(S)
         /\ \A t : T \subseteq S \cup {t} => Cardinality(T) <= Cardinality(S) + 1
<1>1. IsFiniteSet(S) /\ IsFiniteSet(T)
  BY ThreadsAssumption, FS_Subset
<1>2. Cardinality(S) \in Nat /\ Cardinality(T) \in Nat
  BY <1>1, FS_CardinalityType
<1>3. ASSUME T \subseteq S PROVE Cardinality(T) <= Cardinality(S)
  BY <1>1, <1>3, FS_Subset
<1>4. ASSUME NEW t \in S, T \subseteq S \ {t}
      PROVE  Cardinality(T) + 1 <= Cardinality(S)
  <2>1. IsFiniteSet(S \ {t}) /\ Cardinality(S \ {t}) = Cardinality(S) - 1
    BY <1>1, FS_RemoveElement
  <2>2. Cardinality(T) <= Cardinality(S \ {t})
    BY <1>4, <2>1, FS_Subset
  <2> QED BY <1>2, <2>1, <2>2
<1>5. ASSUME NEW t, T \subseteq S \cup {t}
      PROVE  Cardinality(T) <= Cardinality(S) + 1
  <2>1. IsFiniteSet(S \cup {t}) /\ Cardinality(S \cup {t}) <= Cardinality(S) + 1
    <3>1. /\ IsFiniteSet(S \cup {t})
          /\ Cardinality(S \cup {t}) =
                IF t \in S THEN Cardinality(S) ELSE Cardinality(S) + 1
      BY <1>1, FS_AddElement
    <3> QED BY <1>2, <3>1
  <2>2. Cardinality(T) <= Cardinality(S \cup {t}) /\ Cardinality(S \cup {t}) \in Nat
    BY <1>5, <2>1, FS_Subset, FS_CardinalityType
  <2> QED BY <1>2, <2>1, <2>2
<1> QED BY <1>2, <1>3, <1>4, <1>5

-----------------------------------------------------------------------------

\* What a thread has loaded is what it had, or the status the order now has.
Reads(x) ==
    pc'[x] \in Loaded =>
        \/ pc[x] \in Loaded /\ cur'[x] = cur[x] /\ seen'[x] = seen[x]
        \/ /\ cur'[x] \in OrderIds /\ status[cur'[x]] # "ABSENT"
           /\ seen'[x] = status[cur'[x]]

\* No step makes a thread believe anything else.
LEMMA ReadsStep ==
  ASSUME IInv, [Next]_vars
  PROVE  \A x \in Threads : Reads(x)
<1> USE DEF Reads, Loaded, Executing, IInv, TypeOK
<1>1. ASSUME NEW t \in Threads, NEW r \in Request, PlaceOrder(t, r)
      PROVE  \A x \in Threads : Reads(x)
  BY <1>1 DEF PlaceOrder, Goto, tables
<1>2. ASSUME NEW t \in Threads, IdempotencyBlock(t)
      PROVE  \A x \in Threads : Reads(x)
  BY <1>2 DEF IdempotencyBlock, Return, tables
<1>3. ASSUME NEW t \in Threads, IdempotencyPass(t)
      PROVE  \A x \in Threads : Reads(x)
  BY <1>3 DEF IdempotencyPass, Goto, tables
<1>4. ASSUME NEW t \in Threads, NEW o \in OrderIds, InsertOrder(t, o)
      PROVE  \A x \in Threads : Reads(x)
  BY <1>4 DEF InsertOrder, Return, LogStates
<1>5. ASSUME NEW t \in Threads, NEW o \in OrderIds, ConfirmRead(t, o)
      PROVE  \A x \in Threads : Reads(x)
  BY <1>5 DEF ConfirmRead, Goto, tables
<1>6. ASSUME NEW t \in Threads, ConfirmReject(t)
      PROVE  \A x \in Threads : Reads(x)
  BY <1>6 DEF ConfirmReject, Return, CommitState, LogStates
<1>7. ASSUME NEW t \in Threads, ConfirmCommit(t)
      PROVE  \A x \in Threads : Reads(x)
  BY <1>7 DEF ConfirmCommit, Goto, CommitState, LogStates
<1>8. ASSUME NEW t \in Threads, ReloadConfirmed(t)
      PROVE  \A x \in Threads : Reads(x)
  BY <1>8 DEF ReloadConfirmed, Goto, tables, ThreadInv, ThreadOK
<1>9. ASSUME NEW t \in Threads, LoadPosition(t, "paper", "paperFill")
      PROVE  \A x \in Threads : Reads(x)
  BY <1>9 DEF LoadPosition, Goto, tables
<1>10. ASSUME NEW t \in Threads, PaperFill(t)
      PROVE  \A x \in Threads : Reads(x)
  BY <1>10 DEF PaperFill, Return, LogStates
<1>11. ASSUME NEW t \in Threads, LivePending(t)
      PROVE  \A x \in Threads : Reads(x)
  BY <1>11 DEF LivePending, Goto, CommitState, LogStates
<1>12. ASSUME NEW t \in Threads, LoginRaises(t)
      PROVE  \A x \in Threads : Reads(x)
  BY <1>12 DEF LoginRaises, Return, LogStates
<1>13. ASSUME NEW t \in Threads, LoggedIn(t)
      PROVE  \A x \in Threads : Reads(x)
  BY <1>13 DEF LoggedIn, Goto, tables, ThreadInv, ThreadOK
<1>14. ASSUME NEW t \in Threads, UnknownSymbol(t)
      PROVE  \A x \in Threads : Reads(x)
  BY <1>14 DEF UnknownSymbol, Return, CommitState, LogStates
<1>15. ASSUME NEW t \in Threads, BrokerAccepts(t)
      PROVE  \A x \in Threads : Reads(x)
  BY <1>15 DEF BrokerAccepts
<1>16. ASSUME NEW t \in Threads, RequestRaises(t)
      PROVE  \A x \in Threads : Reads(x)
  BY <1>16 DEF RequestRaises, Goto
<1>17. ASSUME NEW t \in Threads, AttemptFails(t)
      PROVE  \A x \in Threads : Reads(x)
  BY <1>17 DEF AttemptFails
<1>18. ASSUME NEW t \in Threads, LoadPosition(t, "accepted", "liveFill")
      PROVE  \A x \in Threads : Reads(x)
  BY <1>18 DEF LoadPosition, Goto, tables
<1>19. ASSUME NEW t \in Threads, LiveFill(t)
      PROVE  \A x \in Threads : Reads(x)
  BY <1>19 DEF LiveFill, Return, CommitState, LogStates
<1>20. ASSUME NEW t \in Threads, LiveFail(t)
      PROVE  \A x \in Threads : Reads(x)
  BY <1>20 DEF LiveFail, Return, CommitState, LogStates
<1>21. ASSUME NEW t \in Threads, CommitRaises(t)
      PROVE  \A x \in Threads : Reads(x)
  BY <1>21 DEF CommitRaises, Return
<1>22. ASSUME NEW t \in Threads, NEW k \in Keys, CloseRead(t, k)
      PROVE  \A x \in Threads : Reads(x)
  BY <1>22 DEF CloseRead, Goto, tables
<1>23. ASSUME NEW t \in Threads, CloseCommit(t)
      PROVE  \A x \in Threads : Reads(x)
  BY <1>23 DEF CloseCommit, Return
<1>24. ASSUME NEW w \in Workers, NEW u \in Users, GetExecutor(w, u)
      PROVE  \A x \in Threads : Reads(x)
  BY <1>24 DEF GetExecutor, tables, locals
<1>25. ASSUME NEW o \in OrderIds, Age(o)
      PROVE  \A x \in Threads : Reads(x)
  BY <1>25 DEF Age, locals
<1>26. ASSUME NEW w \in Workers, NEW e \in Envs, Crash(w, e)
      PROVE  \A x \in Threads : Reads(x)
  BY <1>26 DEF Crash
<1>27. CASE UNCHANGED vars
  BY <1>27 DEF vars, tables, locals
<1> QED BY <1>1, <1>2, <1>3, <1>4, <1>5, <1>6, <1>7, <1>8, <1>9, <1>10, <1>11,
   <1>12, <1>13, <1>14, <1>15, <1>16, <1>17, <1>18, <1>19, <1>20, <1>21,
   <1>22, <1>23, <1>24, <1>25, <1>26, <1>27 DEF Next, Call, Step

\* SeenInv is preserved: log rows are never deleted.
LEMMA SeenInvStep ==
  ASSUME IInv, SeenInv, [Next]_vars
  PROVE  SeenInv'
<1> SUFFICES ASSUME NEW x \in Threads, pc'[x] \in Loaded
             PROVE  seen'[x] \in Logged /\ log'[cur'[x]][seen'[x]] > 0
  BY DEF SeenInv, SeenOK
<1>1. Reads(x) /\ \A o \in OrderIds : Grows(o)
  BY ReadsStep, GrowsStep DEF IInv
<1>2. CASE pc[x] \in Loaded /\ cur'[x] = cur[x] /\ seen'[x] = seen[x]
  <2>1. cur[x] \in OrderIds /\ status[cur[x]] # "ABSENT"
    BY <1>2 DEF IInv, ThreadInv, ThreadOK, Loaded
  <2>2. seen[x] \in Logged /\ log[cur[x]][seen[x]] > 0
    BY <1>2 DEF SeenInv, SeenOK
  <2> QED BY <1>1, <1>2, <2>1, <2>2 DEF Grows
<1>3. CASE /\ cur'[x] \in OrderIds /\ status[cur'[x]] # "ABSENT"
           /\ seen'[x] = status[cur'[x]]
  <2>1. seen'[x] \in Logged
    BY <1>3 DEF IInv, TypeOK, Status
  <2>2. log[cur'[x]][seen'[x]] > 0
    BY <1>3 DEF IInv, StatusLogged
  <2> QED BY <1>1, <1>3, <2>1, <2>2 DEF Grows
<1> QED BY <1>1, <1>2, <1>3 DEF Reads

-----------------------------------------------------------------------------

\* b threads more may begin an execution of o and e more may end one; c
\* confirmations, p executions and x outcomes of o have been logged.
Moves(o, b, e, c, p, x) ==
    /\ Cardinality(Beginners(o)') <= Cardinality(Beginners(o)) + b
    /\ Cardinality(Enders(o)') <= Cardinality(Enders(o)) + e
    /\ log'[o]["CONFIRMED"] = log[o]["CONFIRMED"] + c
    /\ log'[o]["PENDING_EXECUTION"] = log[o]["PENDING_EXECUTION"] + p
    /\ log'[o]["FILLED"] + log'[o]["FAILED"]
          = log[o]["FILLED"] + log[o]["FAILED"] + x

\* Who begins has been confirmed, and who ends has begun.
LEMMA MovesCount ==
  ASSUME TypeOK, TypeOK', NEW o \in OrderIds, CountOK(o),
         NEW b \in Int, NEW e \in Int, NEW c \in Int, NEW p \in Int, NEW x \in Int,
         Moves(o, b, e, c, p, x), b + p <= c, e + x <= p
  PROVE  CountOK(o)'
<1> DEFINE B == Cardinality(Beginners(o))   B1 == Cardinality(Beginners(o)')
           E == Cardinality(Enders(o))      E1 == Cardinality(Enders(o)')
<1>1. B \in Nat /\ B1 \in Nat /\ E \in Nat /\ E1 \in Nat
  BY Counted DEF Beginners, Enders
<1>2. /\ log[o]["CONFIRMED"] \in Nat /\ log'[o]["CONFIRMED"] \in Nat
      /\ log[o]["PENDING_EXECUTION"] \in Nat /\ log'[o]["PENDING_EXECUTION"] \in Nat
      /\ log[o]["FILLED"] \in Nat /\ log'[o]["FILLED"] \in Nat
      /\ log[o]["FAILED"] \in Nat /\ log'[o]["FAILED"] \in Nat
  BY DEF TypeOK, Logged
<1>3. /\ B + log[o]["PENDING_EXECUTION"] <= log[o]["CONFIRMED"]
      /\ E + log[o]["FILLED"] + log[o]["FAILED"] <= log[o]["PENDING_EXECUTION"]
  BY DEF CountOK
<1>4. /\ B1 <= B + b /\ E1 <= E + e
      /\ log'[o]["CONFIRMED"] = log[o]["CONFIRMED"] + c
      /\ log'[o]["PENDING_EXECUTION"] = log[o]["PENDING_EXECUTION"] + p
      /\ log'[o]["FILLED"] + log'[o]["FAILED"]
            = log[o]["FILLED"] + log[o]["FAILED"] + x
  BY DEF Moves
<1>5. /\ B1 + log'[o]["PENDING_EXECUTION"] <= log'[o]["CONFIRMED"]
      /\ E1 + log'[o]["FILLED"] + log'[o]["FAILED"]
            <= log'[o]["PENDING_EXECUTION"]
  <2> HIDE DEF B, B1, E, E1
  <2> QED BY <1>1, <1>2, <1>3, <1>4
<1> QED BY <1>5 DEF CountOK

\* No thread comes to count for o, and no row that is counted is added.
Quiet(o) ==
    /\ Beginners(o)' \subseteq Beginners(o)
    /\ Enders(o)' \subseteq Enders(o)
    /\ \A s \in {"CONFIRMED", "PENDING_EXECUTION", "FILLED", "FAILED"} :
           log'[o][s] = log[o][s]

LEMMA QuietCount ==
  ASSUME TypeOK, TypeOK', NEW o \in OrderIds, CountOK(o), Quiet(o)
  PROVE  CountOK(o)'
<1>1. /\ Cardinality(Beginners(o)') <= Cardinality(Beginners(o)) + 0
      /\ Cardinality(Enders(o)') <= Cardinality(Enders(o)) + 0
  <2>1. /\ Beginners(o) \in SUBSET Threads /\ Beginners(o)' \in SUBSET Threads
        /\ Enders(o) \in SUBSET Threads /\ Enders(o)' \in SUBSET Threads
    BY DEF Beginners, Enders
  <2> QED BY <2>1, Counted DEF Quiet
<1>2. log[o] \in [Logged -> Nat]
  BY DEF TypeOK
<1>3. Moves(o, 0, 0, 0, 0, 0)
  BY <1>1, <1>2 DEF Quiet, Moves, Logged
<1> QED BY <1>3, MovesCount

\* A confirmation is logged and may be executed.
LEMMA ConfirmCommitCount ==
  ASSUME IInv, IInv', CountInv, NEW t \in Threads, ConfirmCommit(t), NEW o \in OrderIds
  PROVE  CountOK(o)'
<1> TypeOK /\ TypeOK' /\ CountOK(o)
  BY DEF IInv, CountInv
<1> cur[t] \in OrderIds
  BY DEF ConfirmCommit, Goto, IInv, ThreadInv, ThreadOK, Executing
<1>1. CASE o = cur[t]
  <2>1. Beginners(o)' \subseteq Beginners(o) \cup {t}
    BY <1>1 DEF ConfirmCommit, Goto, CommitState, LogStates, Beginners,
       Beginning, PaperPCs, LivePCs, Executing, TypeOK
  <2>2. Enders(o)' \subseteq Enders(o)
    BY <1>1 DEF ConfirmCommit, Goto, CommitState, LogStates, Enders, Ending,
       PaperPCs, LivePCs, Executing, TypeOK
  <2>3. /\ Cardinality(Beginners(o)') <= Cardinality(Beginners(o)) + 1
        /\ Cardinality(Enders(o)') <= Cardinality(Enders(o)) + 0
    <3>1. /\ Beginners(o) \in SUBSET Threads /\ Beginners(o)' \in SUBSET Threads
          /\ Enders(o) \in SUBSET Threads /\ Enders(o)' \in SUBSET Threads
      BY DEF Beginners, Enders
    <3>2. Cardinality(Beginners(o)') <= Cardinality(Beginners(o)) + 1
      BY <2>1, <3>1, Counted
    <3>3. Cardinality(Enders(o)') <= Cardinality(Enders(o)) + 0
      BY <2>2, <3>1, Counted
    <3> QED BY <3>2, <3>3
  <2>4. /\ log'[o]["CONFIRMED"] = log[o]["CONFIRMED"] + 1
        /\ log'[o]["PENDING_EXECUTION"] = log[o]["PENDING_EXECUTION"] + 0
        /\ log'[o]["FILLED"] = log[o]["FILLED"] + 0
        /\ log'[o]["FAILED"] = log[o]["FAILED"] + 0
    BY <1>1 DEF ConfirmCommit, Goto, CommitState, LogStates, TypeOK, Logged
  <2>5. Moves(o, 1, 0, 1, 0, 0)
    BY <2>3, <2>4 DEF Moves, TypeOK, Logged
  <2> QED BY <2>5, MovesCount
<1>2. CASE o # cur[t]
  <2>1. Quiet(o)
    BY <1>2 DEF ConfirmCommit, Goto, CommitState, LogStates, Quiet, Beginners,
       Enders, Beginning, Ending, PaperPCs, LivePCs, Executing, TypeOK, Logged
  <2> QED BY <2>1, QuietCount
<1> QED BY <1>1, <1>2

\* On paper the execution begins and ends with its fill.
LEMMA PaperFillCount ==
  ASSUME IInv, IInv', CountInv, NEW t \in Threads, PaperFill(t), NEW o \in OrderIds
  PROVE  CountOK(o)'
<1> TypeOK /\ TypeOK' /\ CountOK(o)
  BY DEF IInv, CountInv
<1> cur[t] \in OrderIds
  BY DEF PaperFill, IInv, ThreadInv, ThreadOK, Executing
<1>1. CASE o = cur[t]
  <2>1. t \in Beginners(o) /\ Beginners(o)' \subseteq Beginners(o) \ {t}
    BY <1>1 DEF PaperFill, Return, LogStates, Beginners, Beginning, PaperPCs,
       LivePCs, Executing, TypeOK
  <2>2. Enders(o)' \subseteq Enders(o)
    BY <1>1 DEF PaperFill, Return, LogStates, Enders, Ending, PaperPCs,
       LivePCs, Executing, TypeOK
  <2>3. /\ Cardinality(Beginners(o)') <= Cardinality(Beginners(o)) + (-1)
        /\ Cardinality(Enders(o)') <= Cardinality(Enders(o)) + 0
    <3>1. /\ Beginners(o) \in SUBSET Threads /\ Beginners(o)' \in SUBSET Threads
          /\ Enders(o) \in SUBSET Threads /\ Enders(o)' \in SUBSET Threads
      BY DEF Beginners, Enders
    <3>2. Cardinality(Beginners(o)') <= Cardinality(Beginners(o)) + (-1)
      BY <2>1, <3>1, Counted
    <3>3. Cardinality(Enders(o)') <= Cardinality(Enders(o)) + 0
      BY <2>2, <3>1, Counted
    <3> QED BY <3>2, <3>3
  <2>4. /\ log'[o]["CONFIRMED"] = log[o]["CONFIRMED"] + 0
        /\ log'[o]["PENDING_EXECUTION"] = log[o]["PENDING_EXECUTION"] + 1
        /\ log'[o]["FILLED"] = log[o]["FILLED"] + 1
        /\ log'[o]["FAILED"] = log[o]["FAILED"] + 0
    BY <1>1 DEF PaperFill, Return, LogStates, TypeOK, Logged
  <2>5. Moves(o, -1, 0, 0, 1, 1)
    BY <2>3, <2>4 DEF Moves, TypeOK, Logged
  <2> QED BY <2>5, MovesCount
<1>2. CASE o # cur[t]
  <2>1. Quiet(o)
    BY <1>2 DEF PaperFill, Return, LogStates, Quiet, Beginners, Enders,
       Beginning, Ending, PaperPCs, LivePCs, Executing, TypeOK, Logged
  <2> QED BY <2>1, QuietCount
<1> QED BY <1>1, <1>2

\* A live execution begins.
LEMMA LivePendingCount ==
  ASSUME IInv, IInv', CountInv, NEW t \in Threads, LivePending(t), NEW o \in OrderIds
  PROVE  CountOK(o)'
<1> TypeOK /\ TypeOK' /\ CountOK(o)
  BY DEF IInv, CountInv
<1> cur[t] \in OrderIds
  BY DEF LivePending, Goto, IInv, ThreadInv, ThreadOK, Executing
<1>1. CASE o = cur[t]
  <2>1. t \in Beginners(o) /\ Beginners(o)' \subseteq Beginners(o) \ {t}
    BY <1>1 DEF LivePending, Goto, CommitState, LogStates, Beginners,
       Beginning, PaperPCs, LivePCs, Executing, TypeOK
  <2>2. Enders(o)' \subseteq Enders(o) \cup {t}
    BY <1>1 DEF LivePending, Goto, CommitState, LogStates, Enders, Ending,
       PaperPCs, LivePCs, Executing, TypeOK
  <2>3. /\ Cardinality(Beginners(o)') <= Cardinality(Beginners(o)) + (-1)
        /\ Cardinality(Enders(o)') <= Cardinality(Enders(o)) + 1
    <3>1. /\ Beginners(o) \in SUBSET Threads /\ Beginners(o)' \in SUBSET Threads
          /\ Enders(o) \in SUBSET Threads /\ Enders(o)' \in SUBSET Threads
      BY DEF Beginners, Enders
    <3>2. Cardinality(Beginners(o)') <= Cardinality(Beginners(o)) + (-1)
      BY <2>1, <3>1, Counted
    <3>3. Cardinality(Enders(o)') <= Cardinality(Enders(o)) + 1
      BY <2>2, <3>1, Counted
    <3> QED BY <3>2, <3>3
  <2>4. /\ log'[o]["CONFIRMED"] = log[o]["CONFIRMED"] + 0
        /\ log'[o]["PENDING_EXECUTION"] = log[o]["PENDING_EXECUTION"] + 1
        /\ log'[o]["FILLED"] = log[o]["FILLED"] + 0
        /\ log'[o]["FAILED"] = log[o]["FAILED"] + 0
    BY <1>1 DEF LivePending, Goto, CommitState, LogStates, TypeOK, Logged
  <2>5. Moves(o, -1, 1, 0, 1, 0)
    BY <2>3, <2>4 DEF Moves, TypeOK, Logged
  <2> QED BY <2>5, MovesCount
<1>2. CASE o # cur[t]
  <2>1. Quiet(o)
    BY <1>2 DEF LivePending, Goto, CommitState, LogStates, Quiet, Beginners,
       Enders, Beginning, Ending, PaperPCs, LivePCs, Executing, TypeOK, Logged
  <2> QED BY <2>1, QuietCount
<1> QED BY <1>1, <1>2

\* A failed login ends the execution.
LEMMA LoginRaisesCount ==
  ASSUME IInv, IInv', CountInv, NEW t \in Threads, LoginRaises(t), NEW o \in OrderIds
  PROVE  CountOK(o)'
<1> TypeOK /\ TypeOK' /\ CountOK(o)
  BY DEF IInv, CountInv
<1> cur[t] \in OrderIds
  BY DEF LoginRaises, IInv, ThreadInv, ThreadOK, Executing
<1>1. CASE o = cur[t]
  <2>1. Beginners(o)' \subseteq Beginners(o)
    BY <1>1 DEF LoginRaises, Return, LogStates, Beginners, Beginning, PaperPCs,
       LivePCs, Executing, TypeOK
  <2>2. t \in Enders(o) /\ Enders(o)' \subseteq Enders(o) \ {t}
    BY <1>1 DEF LoginRaises, Return, LogStates, Enders, Ending, PaperPCs,
       LivePCs, Executing, TypeOK
  <2>3. /\ Cardinality(Beginners(o)') <= Cardinality(Beginners(o)) + 0
        /\ Cardinality(Enders(o)') <= Cardinality(Enders(o)) + (-1)
    <3>1. /\ Beginners(o) \in SUBSET Threads /\ Beginners(o)' \in SUBSET Threads
          /\ Enders(o) \in SUBSET Threads /\ Enders(o)' \in SUBSET Threads
      BY DEF Beginners, Enders
    <3>2. Cardinality(Beginners(o)') <= Cardinality(Beginners(o)) + 0
      BY <2>1, <3>1, Counted
    <3>3. Cardinality(Enders(o)') <= Cardinality(Enders(o)) + (-1)
      BY <2>2, <3>1, Counted
    <3> QED BY <3>2, <3>3
  <2>4. /\ log'[o]["CONFIRMED"] = log[o]["CONFIRMED"] + 0
        /\ log'[o]["PENDING_EXECUTION"] = log[o]["PENDING_EXECUTION"] + 0
        /\ log'[o]["FILLED"] = log[o]["FILLED"] + 0
        /\ log'[o]["FAILED"] = log[o]["FAILED"] + 1
    BY <1>1 DEF LoginRaises, Return, LogStates, TypeOK, Logged
  <2>5. Moves(o, 0, -1, 0, 0, 1)
    BY <2>3, <2>4 DEF Moves, TypeOK, Logged
  <2> QED BY <2>5, MovesCount
<1>2. CASE o # cur[t]
  <2>1. Quiet(o)
    BY <1>2 DEF LoginRaises, Return, LogStates, Quiet, Beginners, Enders,
       Beginning, Ending, PaperPCs, LivePCs, Executing, TypeOK, Logged
  <2> QED BY <2>1, QuietCount
<1> QED BY <1>1, <1>2

\* A fill ends the execution.
LEMMA LiveFillCount ==
  ASSUME IInv, IInv', CountInv, NEW t \in Threads, LiveFill(t), NEW o \in OrderIds
  PROVE  CountOK(o)'
<1> TypeOK /\ TypeOK' /\ CountOK(o)
  BY DEF IInv, CountInv
<1> cur[t] \in OrderIds
  BY DEF LiveFill, IInv, ThreadInv, ThreadOK, Executing
<1>1. CASE o = cur[t]
  <2>1. Beginners(o)' \subseteq Beginners(o)
    BY <1>1 DEF LiveFill, Return, CommitState, LogStates, Beginners, Beginning,
       PaperPCs, LivePCs, Executing, TypeOK
  <2>2. t \in Enders(o) /\ Enders(o)' \subseteq Enders(o) \ {t}
    BY <1>1 DEF LiveFill, Return, CommitState, LogStates, Enders, Ending,
       PaperPCs, LivePCs, Executing, TypeOK
  <2>3. /\ Cardinality(Beginners(o)') <= Cardinality(Beginners(o)) + 0
        /\ Cardinality(Enders(o)') <= Cardinality(Enders(o)) + (-1)
    <3>1. /\ Beginners(o) \in SUBSET Threads /\ Beginners(o)' \in SUBSET Threads
          /\ Enders(o) \in SUBSET Threads /\ Enders(o)' \in SUBSET Threads
      BY DEF Beginners, Enders
    <3>2. Cardinality(Beginners(o)') <= Cardinality(Beginners(o)) + 0
      BY <2>1, <3>1, Counted
    <3>3. Cardinality(Enders(o)') <= Cardinality(Enders(o)) + (-1)
      BY <2>2, <3>1, Counted
    <3> QED BY <3>2, <3>3
  <2>4. /\ log'[o]["CONFIRMED"] = log[o]["CONFIRMED"] + 0
        /\ log'[o]["PENDING_EXECUTION"] = log[o]["PENDING_EXECUTION"] + 0
        /\ log'[o]["FILLED"] = log[o]["FILLED"] + 1
        /\ log'[o]["FAILED"] = log[o]["FAILED"] + 0
    BY <1>1 DEF LiveFill, Return, CommitState, LogStates, TypeOK, Logged
  <2>5. Moves(o, 0, -1, 0, 0, 1)
    BY <2>3, <2>4 DEF Moves, TypeOK, Logged
  <2> QED BY <2>5, MovesCount
<1>2. CASE o # cur[t]
  <2>1. Quiet(o)
    BY <1>2 DEF LiveFill, Return, CommitState, LogStates, Quiet, Beginners,
       Enders, Beginning, Ending, PaperPCs, LivePCs, Executing, TypeOK, Logged
  <2> QED BY <2>1, QuietCount
<1> QED BY <1>1, <1>2

\* Running out of attempts ends the execution.
LEMMA LiveFailCount ==
  ASSUME IInv, IInv', CountInv, NEW t \in Threads, LiveFail(t), NEW o \in OrderIds
  PROVE  CountOK(o)'
<1> TypeOK /\ TypeOK' /\ CountOK(o)
  BY DEF IInv, CountInv
<1> cur[t] \in OrderIds
  BY DEF LiveFail, IInv, ThreadInv, ThreadOK, Executing
<1>1. CASE o = cur[t]
  <2>1. Beginners(o)' \subseteq Beginners(o)
    BY <1>1 DEF LiveFail, Return, CommitState, LogStates, Beginners, Beginning,
       PaperPCs, LivePCs, Executing, TypeOK
  <2>2. t \in Enders(o) /\ Enders(o)' \subseteq Enders(o) \ {t}
    BY <1>1 DEF LiveFail, Return, CommitState, LogStates, Enders, Ending,
       PaperPCs, LivePCs, Executing, TypeOK
  <2>3. /\ Cardinality(Beginners(o)') <= Cardinality(Beginners(o)) + 0
        /\ Cardinality(Enders(o)') <= Cardinality(Enders(o)) + (-1)
    <3>1. /\ Beginners(o) \in SUBSET Threads /\ Beginners(o)' \in SUBSET Threads
          /\ Enders(o) \in SUBSET Threads /\ Enders(o)' \in SUBSET Threads
      BY DEF Beginners, Enders
    <3>2. Cardinality(Beginners(o)') <= Cardinality(Beginners(o)) + 0
      BY <2>1, <3>1, Counted
    <3>3. Cardinality(Enders(o)') <= Cardinality(Enders(o)) + (-1)
      BY <2>2, <3>1, Counted
    <3> QED BY <3>2, <3>3
  <2>4. /\ log'[o]["CONFIRMED"] = log[o]["CONFIRMED"] + 0
        /\ log'[o]["PENDING_EXECUTION"] = log[o]["PENDING_EXECUTION"] + 0
        /\ log'[o]["FILLED"] = log[o]["FILLED"] + 0
        /\ log'[o]["FAILED"] = log[o]["FAILED"] + 1
    BY <1>1 DEF LiveFail, Return, CommitState, LogStates, TypeOK, Logged
  <2>5. Moves(o, 0, -1, 0, 0, 1)
    BY <2>3, <2>4 DEF Moves, TypeOK, Logged
  <2> QED BY <2>5, MovesCount
<1>2. CASE o # cur[t]
  <2>1. Quiet(o)
    BY <1>2 DEF LiveFail, Return, CommitState, LogStates, Quiet, Beginners,
       Enders, Beginning, Ending, PaperPCs, LivePCs, Executing, TypeOK, Logged
  <2> QED BY <2>1, QuietCount
<1> QED BY <1>1, <1>2

\* CountInv is preserved: five steps log a row that is counted, and the
\* thread that takes one of them leaves or joins the threads that count.
LEMMA CountInvStep ==
  ASSUME IInv, IInv', CountInv, [Next]_vars
  PROVE  CountInv'
<1> TypeOK /\ TypeOK'
  BY DEF IInv
<1> SUFFICES ASSUME NEW o \in OrderIds PROVE CountOK(o)'
  BY DEF CountInv
<1> CountOK(o)
  BY DEF CountInv
<1>0. Quiet(o) => CountOK(o)'
  BY QuietCount
<1>1. ASSUME NEW t \in Threads, NEW r \in Request, PlaceOrder(t, r)
      PROVE  Quiet(o)
  BY <1>1 DEF PlaceOrder, Goto, tables, Quiet, Beginners, Enders, Beginning,
     Ending, PaperPCs, LivePCs, Executing, TypeOK, Logged
<1>2. ASSUME NEW t \in Threads, IdempotencyBlock(t)
      PROVE  Quiet(o)
  BY <1>2 DEF IdempotencyBlock, Return, tables, Quiet, Beginners, Enders,
     Beginning, Ending, PaperPCs, LivePCs, Executing, TypeOK, Logged
<1>3. ASSUME NEW t \in Threads, IdempotencyPass(t)
      PROVE  Quiet(o)
  BY <1>3 DEF IdempotencyPass, Goto, tables, Quiet, Beginners, Enders,
     Beginning, Ending, PaperPCs, LivePCs, Executing, TypeOK, Logged
<1>4. ASSUME NEW t \in Threads, NEW p \in OrderIds, InsertOrder(t, p)
      PROVE  Quiet(o)
  BY <1>4 DEF InsertOrder, Return, LogStates, Quiet, Beginners, Enders,
     Beginning, Ending, PaperPCs, LivePCs, Executing, TypeOK, Logged
<1>5. ASSUME NEW t \in Threads, NEW p \in OrderIds, ConfirmRead(t, p)
      PROVE  Quiet(o)
  BY <1>5 DEF ConfirmRead, Goto, tables, Quiet, Beginners, Enders, Beginning,
     Ending, PaperPCs, LivePCs, Executing, TypeOK, Logged
<1>6. ASSUME NEW t \in Threads, ConfirmReject(t)
      PROVE  Quiet(o)
  BY <1>6 DEF ConfirmReject, Return, CommitState, LogStates, Quiet, Beginners,
     Enders, Beginning, Ending, PaperPCs, LivePCs, Executing, TypeOK, Logged
<1>7. ASSUME NEW t \in Threads, ConfirmCommit(t) PROVE CountOK(o)'
  BY <1>7, ConfirmCommitCount DEF CountInv
<1>8. ASSUME NEW t \in Threads, ReloadConfirmed(t)
      PROVE  Quiet(o)
  BY <1>8 DEF ReloadConfirmed, Goto, tables, Quiet, Beginners, Enders,
     Beginning, Ending, PaperPCs, LivePCs, Executing, TypeOK, Logged
<1>9. ASSUME NEW t \in Threads, LoadPosition(t, "paper", "paperFill")
      PROVE  Quiet(o)
  BY <1>9 DEF LoadPosition, Goto, tables, Quiet, Beginners, Enders, Beginning,
     Ending, PaperPCs, LivePCs, Executing, TypeOK, Logged
<1>10. ASSUME NEW t \in Threads, PaperFill(t) PROVE CountOK(o)'
  BY <1>10, PaperFillCount DEF CountInv
<1>11. ASSUME NEW t \in Threads, LivePending(t) PROVE CountOK(o)'
  BY <1>11, LivePendingCount DEF CountInv
<1>12. ASSUME NEW t \in Threads, LoginRaises(t) PROVE CountOK(o)'
  BY <1>12, LoginRaisesCount DEF CountInv
<1>13. ASSUME NEW t \in Threads, LoggedIn(t)
      PROVE  Quiet(o)
  BY <1>13 DEF LoggedIn, Goto, tables, Quiet, Beginners, Enders, Beginning,
     Ending, PaperPCs, LivePCs, Executing, TypeOK, Logged
<1>14. ASSUME NEW t \in Threads, UnknownSymbol(t)
      PROVE  Quiet(o)
  BY <1>14 DEF UnknownSymbol, Return, CommitState, LogStates, Quiet,
     Beginners, Enders, Beginning, Ending, PaperPCs, LivePCs, Executing,
     TypeOK, Logged
<1>15. ASSUME NEW t \in Threads, BrokerAccepts(t)
      PROVE  Quiet(o)
  BY <1>15 DEF BrokerAccepts, Quiet, Beginners, Enders, Beginning, Ending,
     PaperPCs, LivePCs, Executing, TypeOK, Logged
<1>16. ASSUME NEW t \in Threads, RequestRaises(t)
      PROVE  Quiet(o)
  BY <1>16 DEF RequestRaises, Goto, Quiet, Beginners, Enders, Beginning,
     Ending, PaperPCs, LivePCs, Executing, TypeOK, Logged
<1>17. ASSUME NEW t \in Threads, AttemptFails(t)
      PROVE  Quiet(o)
  BY <1>17 DEF AttemptFails, Quiet, Beginners, Enders, Beginning, Ending,
     PaperPCs, LivePCs, Executing, TypeOK, Logged
<1>18. ASSUME NEW t \in Threads, LoadPosition(t, "accepted", "liveFill")
      PROVE  Quiet(o)
  BY <1>18 DEF LoadPosition, Goto, tables, Quiet, Beginners, Enders,
     Beginning, Ending, PaperPCs, LivePCs, Executing, TypeOK, Logged
<1>19. ASSUME NEW t \in Threads, LiveFill(t) PROVE CountOK(o)'
  BY <1>19, LiveFillCount DEF CountInv
<1>20. ASSUME NEW t \in Threads, LiveFail(t) PROVE CountOK(o)'
  BY <1>20, LiveFailCount DEF CountInv
<1>21. ASSUME NEW t \in Threads, CommitRaises(t)
      PROVE  Quiet(o)
  BY <1>21 DEF CommitRaises, Return, Quiet, Beginners, Enders, Beginning,
     Ending, PaperPCs, LivePCs, Executing, TypeOK, Logged
<1>22. ASSUME NEW t \in Threads, NEW k \in Keys, CloseRead(t, k)
      PROVE  Quiet(o)
  BY <1>22 DEF CloseRead, Goto, tables, Quiet, Beginners, Enders, Beginning,
     Ending, PaperPCs, LivePCs, Executing, TypeOK, Logged
<1>23. ASSUME NEW t \in Threads, CloseCommit(t)
      PROVE  Quiet(o)
  BY <1>23 DEF CloseCommit, Return, Quiet, Beginners, Enders, Beginning,
     Ending, PaperPCs, LivePCs, Executing, TypeOK, Logged
<1>24. ASSUME NEW w \in Workers, NEW u \in Users, GetExecutor(w, u)
      PROVE  Quiet(o)
  BY <1>24 DEF GetExecutor, tables, locals, Quiet, Beginners, Enders,
     Beginning, Ending, PaperPCs, LivePCs, Executing, TypeOK, Logged
<1>25. ASSUME NEW p \in OrderIds, Age(p)
      PROVE  Quiet(o)
  BY <1>25 DEF Age, locals, Quiet, Beginners, Enders, Beginning, Ending,
     PaperPCs, LivePCs, Executing, TypeOK, Logged
<1>26. ASSUME NEW w \in Workers, NEW e \in Envs, Crash(w, e)
      PROVE  Quiet(o)
  <2>1. \A t \in Threads : \/ pc'[t] = "idle"
                           \/ pc'[t] = pc[t] /\ cur'[t] = cur[t]
    BY <1>26 DEF Crash, TypeOK
  <2>2. "idle" \notin Beginning /\ "idle" \notin Ending
    BY DEF Beginning, Ending, PaperPCs, LivePCs, Executing
  <2>3. log' = log
    BY <1>26 DEF Crash
  <2> QED BY <2>1, <2>2, <2>3 DEF Quiet, Beginners, Enders
<1>27. CASE UNCHANGED vars
  BY <1>0, <1>27 DEF vars, tables, locals, Quiet, Beginners, Enders
<1> QED BY <1>0, <1>1, <1>2, <1>3, <1>4, <1>5, <1>6, <1>7, <1>8, <1>9, <1>10,
   <1>11,
   <1>12, <1>13, <1>14, <1>15, <1>16, <1>17, <1>18, <1>19, <1>20, <1>21,
   <1>22, <1>23, <1>24, <1>25, <1>26, <1>27 DEF Next, Call, Step

-----------------------------------------------------------------------------

\* A commit of a thread is one of the abstract specification: the status that
\* it leaves alone was logged.
LEMMA CommitRecords ==
  ASSUME IInv, SeenInv, NEW t \in Threads, pc[t] \in Loaded,
         NEW s \in Logged, CommitState(t, s)
  PROVE  Lifecycle!Record(cur[t], {s}, s)
<1>1. cur[t] \in OrderIds
  BY DEF IInv, ThreadInv, ThreadOK, Loaded
<1>2. log[cur[t]][seen[t]] > 0
  BY DEF SeenInv, SeenOK
<1> QED BY <1>1, <1>2 DEF CommitState, LogStates, Flush, IInv, TypeOK,
           Logged, Lifecycle!Record, Lifecycle!States

\* A thread that still counts for an order leaves room in its log.
LEMMA Room ==
  ASSUME IInv, CountInv, NEW t \in Threads, cur[t] \in OrderIds
  PROVE  /\ pc[t] \in Beginning
               => log[cur[t]]["PENDING_EXECUTION"] < log[cur[t]]["CONFIRMED"]
         /\ pc[t] \in Ending
               => log[cur[t]]["FILLED"] + log[cur[t]]["FAILED"]
                     < log[cur[t]]["PENDING_EXECUTION"]
<1> DEFINE o == cur[t]
<1>1. /\ Cardinality(Beginners(o)) + log[o]["PENDING_EXECUTION"]
            <= log[o]["CONFIRMED"]
      /\ Cardinality(Enders(o)) + log[o]["FILLED"] + log[o]["FAILED"]
            <= log[o]["PENDING_EXECUTION"]
  BY DEF CountInv, CountOK
<1>2. /\ log[o]["CONFIRMED"] \in Nat /\ log[o]["PENDING_EXECUTION"] \in Nat
      /\ log[o]["FILLED"] \in Nat /\ log[o]["FAILED"] \in Nat
  BY DEF IInv, TypeOK, Logged
<1>3. ASSUME NEW S \in SUBSET Threads, t \in S
      PROVE  Cardinality(S) \in Nat /\ Cardinality(S) >= 1
  <2>1. {} \in SUBSET Threads /\ {} \subseteq S \ {t}
    OBVIOUS
  <2>2. Cardinality(S) \in Nat /\ Cardinality({}) + 1 <= Cardinality(S)
    BY <1>3, <2>1, Counted
  <2> QED BY <2>2, FS_EmptySet
<1>4. ASSUME pc[t] \in Beginning
      PROVE  Cardinality(Beginners(o)) \in Nat /\ Cardinality(Beginners(o)) >= 1
  BY <1>3, <1>4 DEF Beginners
<1>5. ASSUME pc[t] \in Ending
      PROVE  Cardinality(Enders(o)) \in Nat /\ Cardinality(Enders(o)) >= 1
  BY <1>3, <1>5 DEF Enders
<1>6. ASSUME pc[t] \in Beginning
      PROVE  log[o]["PENDING_EXECUTION"] < log[o]["CONFIRMED"]
  BY <1>1, <1>2, <1>4, <1>6
<1>7. ASSUME pc[t] \in Ending
      PROVE  log[o]["FILLED"] + log[o]["FAILED"] < log[o]["PENDING_EXECUTION"]
  BY <1>1, <1>2, <1>5, <1>7
<1> QED BY <1>6, <1>7

\* Every step of the router is a step of the lifecycle of an order, or none.
LEMMA LifecycleStep ==
  ASSUME IInv, CountInv, SeenInv, PlacedInv, [Next]_vars
  PROVE  [Lifecycle!Next]_<<status, log>>
<1> DEFINE Goal == [Lifecycle!Next]_<<status, log>>
<1>0. \A x \in Threads :
         pc[x] \in Loaded =>
             /\ cur[x] \in OrderIds
             /\ Lifecycle!Placed(cur[x])
  BY DEF IInv, ThreadInv, ThreadOK, Loaded, PlacedInv, Lifecycle!Placed
<1>1. ASSUME NEW t \in Threads, NEW r \in Request, PlaceOrder(t, r) PROVE Goal
  BY <1>1 DEF PlaceOrder, tables
<1>2. ASSUME NEW t \in Threads, IdempotencyBlock(t) PROVE Goal
  BY <1>2 DEF IdempotencyBlock, tables
<1>3. ASSUME NEW t \in Threads, IdempotencyPass(t) PROVE Goal
  BY <1>3 DEF IdempotencyPass, tables
<1>4. ASSUME NEW t \in Threads, NEW o \in OrderIds, InsertOrder(t, o) PROVE
       Goal
  BY <1>4 DEF InsertOrder, LogStates, Logged, Lifecycle!Next,
     Lifecycle!Place, Lifecycle!Record, Lifecycle!States
<1>5. ASSUME NEW t \in Threads, NEW o \in OrderIds, ConfirmRead(t, o) PROVE
       Goal
  BY <1>5 DEF ConfirmRead, tables
<1>6. ASSUME NEW t \in Threads, ConfirmReject(t) PROVE Goal
  <2>1. pc[t] \in Loaded /\ CommitState(t, "REJECTED")
    BY <1>6 DEF ConfirmReject, Loaded, Executing
  <2>2. Lifecycle!Record(cur[t], {"REJECTED"}, "REJECTED")
    BY <2>1, CommitRecords DEF Logged
  <2> QED BY <1>0, <2>1, <2>2 DEF Lifecycle!Next, Lifecycle!Reject
<1>7. ASSUME NEW t \in Threads, ConfirmCommit(t) PROVE Goal
  <2>1. pc[t] \in Loaded /\ CommitState(t, "CONFIRMED")
    BY <1>7 DEF ConfirmCommit, Goto, Loaded, Executing
  <2>2. Lifecycle!Record(cur[t], {"CONFIRMED"}, "CONFIRMED")
    BY <2>1, CommitRecords DEF Logged
  <2> QED BY <1>0, <2>1, <2>2 DEF Lifecycle!Next, Lifecycle!Confirm
<1>8. ASSUME NEW t \in Threads, ReloadConfirmed(t) PROVE Goal
  BY <1>8 DEF ReloadConfirmed, tables
<1>9. ASSUME NEW t \in Threads, LoadPosition(t, "paper", "paperFill") PROVE
       Goal
  BY <1>9 DEF LoadPosition, tables
<1>10. ASSUME NEW t \in Threads, PaperFill(t) PROVE Goal
  <2>1. pc[t] \in Loaded /\ pc[t] \in Beginning
    BY <1>10 DEF PaperFill, Loaded, Executing, Beginning, PaperPCs
  <2>2. cur[t] \in OrderIds /\ log[cur[t]][seen[t]] > 0
    BY <1>0, <2>1 DEF SeenInv, SeenOK
  <2>3. Lifecycle!Record(cur[t], {"PENDING_EXECUTION", "FILLED"}, "FILLED")
    BY <1>10, <2>2 DEF PaperFill, LogStates, Flush, Logged, IInv, TypeOK,
       Lifecycle!Record, Lifecycle!States
  <2>4. Lifecycle!Executable(cur[t])
    BY <2>1, <2>2, Room DEF Lifecycle!Executable
  <2> QED BY <2>2, <2>3, <2>4 DEF Lifecycle!Next, Lifecycle!PaperFill
<1>11. ASSUME NEW t \in Threads, LivePending(t) PROVE Goal
  <2>1. pc[t] \in Loaded /\ CommitState(t, "PENDING_EXECUTION")
    BY <1>11 DEF LivePending, Goto, Loaded, Executing
  <2>2. Lifecycle!Record(cur[t], {"PENDING_EXECUTION"}, "PENDING_EXECUTION")
    BY <2>1, CommitRecords DEF Logged
  <2>3. Lifecycle!Executable(cur[t])
    BY <1>0, <1>11, <2>1, Room DEF LivePending, Goto, Beginning,
       Lifecycle!Executable
  <2> QED BY <1>0, <2>1, <2>2, <2>3 DEF Lifecycle!Next, Lifecycle!Start
<1>12. ASSUME NEW t \in Threads, LoginRaises(t) PROVE Goal
  <2>1. pc[t] \in Loaded /\ pc[t] \in Ending
    BY <1>12 DEF LoginRaises, Loaded, Ending, LivePCs, PaperPCs, Executing
  <2>2. Lifecycle!Record(cur[t], {"FAILED"}, "FAILED")
    BY <1>12 DEF LoginRaises, LogStates, Logged, Lifecycle!Record,
       Lifecycle!States
  <2> QED BY <1>0, <2>1, <2>2, Room DEF Lifecycle!Next, Lifecycle!Settle
<1>13. ASSUME NEW t \in Threads, LoggedIn(t) PROVE Goal
  BY <1>13 DEF LoggedIn, tables
<1>14. ASSUME NEW t \in Threads, UnknownSymbol(t) PROVE Goal
  <2>1. pc[t] \in Loaded /\ CommitState(t, "REJECTED")
    BY <1>14 DEF UnknownSymbol, Loaded, Executing
  <2>2. Lifecycle!Record(cur[t], {"REJECTED"}, "REJECTED")
    BY <2>1, CommitRecords DEF Logged
  <2> QED BY <1>0, <2>1, <2>2 DEF Lifecycle!Next, Lifecycle!Reject
<1>15. ASSUME NEW t \in Threads, BrokerAccepts(t) PROVE Goal
  BY <1>15 DEF BrokerAccepts
<1>16. ASSUME NEW t \in Threads, RequestRaises(t) PROVE Goal
  BY <1>16 DEF RequestRaises
<1>17. ASSUME NEW t \in Threads, AttemptFails(t) PROVE Goal
  BY <1>17 DEF AttemptFails
<1>18. ASSUME NEW t \in Threads, LoadPosition(t, "accepted", "liveFill") PROVE
       Goal
  BY <1>18 DEF LoadPosition, tables
<1>19. ASSUME NEW t \in Threads, LiveFill(t) PROVE Goal
  <2>1. pc[t] \in Loaded /\ CommitState(t, "FILLED")
    BY <1>19 DEF LiveFill, Loaded, Executing
  <2>2. Lifecycle!Record(cur[t], {"FILLED"}, "FILLED")
    BY <2>1, CommitRecords DEF Logged
  <2>3. pc[t] \in Ending
    BY <1>19 DEF LiveFill, Ending, LivePCs, PaperPCs, Executing
  <2> QED BY <1>0, <2>1, <2>2, <2>3, Room DEF Lifecycle!Next, Lifecycle!Settle
<1>20. ASSUME NEW t \in Threads, LiveFail(t) PROVE Goal
  <2>1. pc[t] \in Loaded /\ CommitState(t, "FAILED")
    BY <1>20 DEF LiveFail, Loaded, Executing
  <2>2. Lifecycle!Record(cur[t], {"FAILED"}, "FAILED")
    BY <2>1, CommitRecords DEF Logged
  <2>3. pc[t] \in Ending
    BY <1>20 DEF LiveFail, Ending, LivePCs, PaperPCs, Executing
  <2> QED BY <1>0, <2>1, <2>2, <2>3, Room DEF Lifecycle!Next, Lifecycle!Settle
<1>21. ASSUME NEW t \in Threads, CommitRaises(t) PROVE Goal
  BY <1>21 DEF CommitRaises
<1>22. ASSUME NEW t \in Threads, NEW k \in Keys, CloseRead(t, k) PROVE Goal
  BY <1>22 DEF CloseRead, tables
<1>23. ASSUME NEW t \in Threads, CloseCommit(t) PROVE Goal
  BY <1>23 DEF CloseCommit
<1>24. ASSUME NEW w \in Workers, NEW u \in Users, GetExecutor(w, u) PROVE Goal
  BY <1>24 DEF GetExecutor, tables, locals
<1>25. ASSUME NEW o \in OrderIds, Age(o) PROVE Goal
  BY <1>25 DEF Age, locals
<1>26. ASSUME NEW w \in Workers, NEW e \in Envs, Crash(w, e) PROVE Goal
  BY <1>26 DEF Crash
<1>27. CASE UNCHANGED vars
  BY <1>27 DEF vars, tables
<1> QED BY <1>1, <1>2, <1>3, <1>4, <1>5, <1>6, <1>7, <1>8, <1>9, <1>10, <1>11,
   <1>12, <1>13, <1>14, <1>15, <1>16, <1>17, <1>18, <1>19, <1>20, <1>21,
   <1>22, <1>23, <1>24, <1>25, <1>26, <1>27 DEF Next, Call, Step

\* PlacedInv is preserved: the abstract step that changes the status of an
\* order is Place, or one of an order that is placed.
LEMMA PlacedInvStep ==
  ASSUME IInv, PlacedInv, [Lifecycle!Next]_<<status, log>>
  PROVE  PlacedInv'
<1> SUFFICES ASSUME NEW p \in OrderIds, status'[p] # "ABSENT"
             PROVE  log'[p]["PENDING_CONFIRMATION"] > 0
  BY DEF PlacedInv
<1> USE DEF IInv, TypeOK, Logged
<1>1. ASSUME NEW o \in OrderIds, NEW states, NEW last,
             Lifecycle!Record(o, states, last),
             \/ status[o] # "ABSENT"
             \/ "PENDING_CONFIRMATION" \in states
      PROVE  log'[p]["PENDING_CONFIRMATION"] > 0
  <2>1. status[p] # "ABSENT" \/ p = o
    BY <1>1 DEF Lifecycle!Record
  <2>2. log[p]["PENDING_CONFIRMATION"] \in Nat
    OBVIOUS
  <2>3. /\ log'[p]["PENDING_CONFIRMATION"] \in Nat
        /\ log'[p]["PENDING_CONFIRMATION"] >= log[p]["PENDING_CONFIRMATION"]
    <3>1. CASE p = o
      BY <1>1, <2>2, <3>1 DEF Lifecycle!Record, Lifecycle!States
    <3>2. CASE p # o
      <4>1. log'[p] = log[p]
        BY <1>1, <3>2 DEF Lifecycle!Record
      <4> QED BY <2>2, <4>1
    <3> QED BY <3>1, <3>2
  <2>4. CASE p = o /\ "PENDING_CONFIRMATION" \in states
    <3>1. log'[o] = [s \in Lifecycle!States |->
                       log[o][s] + (IF s \in states THEN 1 ELSE 0)]
      BY <1>1 DEF Lifecycle!Record
    <3>2. log'[p]["PENDING_CONFIRMATION"] = log[p]["PENDING_CONFIRMATION"] + 1
      BY <2>4, <3>1 DEF Lifecycle!States
    <3> QED BY <2>2, <3>2
  <2>5. CASE status[p] # "ABSENT"
    BY <2>2, <2>3, <2>5 DEF PlacedInv
  <2> QED BY <1>1, <2>1, <2>4, <2>5
<1>2. ASSUME NEW o \in OrderIds, NEW s \in Logged, log[o][s] > 0
      PROVE  status[o] # "ABSENT"
  BY <1>2 DEF TableInv
<1>3. ASSUME NEW o \in OrderIds, Lifecycle!Place(o)
      PROVE  log'[p]["PENDING_CONFIRMATION"] > 0
  BY <1>1, <1>3 DEF Lifecycle!Place
<1>4. ASSUME NEW o \in OrderIds, Lifecycle!Confirm(o)
      PROVE  log'[p]["PENDING_CONFIRMATION"] > 0
  BY <1>1, <1>2, <1>4 DEF Lifecycle!Confirm, Lifecycle!Placed
<1>5. ASSUME NEW o \in OrderIds, Lifecycle!Reject(o)
      PROVE  log'[p]["PENDING_CONFIRMATION"] > 0
  BY <1>1, <1>2, <1>5 DEF Lifecycle!Reject, Lifecycle!Placed
<1>6. ASSUME NEW o \in OrderIds, Lifecycle!Executable(o)
      PROVE  status[o] # "ABSENT"
  BY <1>2, <1>6 DEF Lifecycle!Executable
<1>7. ASSUME NEW o \in OrderIds, Lifecycle!Start(o)
      PROVE  log'[p]["PENDING_CONFIRMATION"] > 0
  BY <1>1, <1>6, <1>7 DEF Lifecycle!Start
<1>8. ASSUME NEW o \in OrderIds, Lifecycle!Settle(o)
      PROVE  log'[p]["PENDING_CONFIRMATION"] > 0
  <2>1. log[o]["PENDING_EXECUTION"] > 0
    BY <1>8 DEF Lifecycle!Settle
  <2> QED BY <1>1, <1>2, <1>8, <2>1 DEF Lifecycle!Settle
<1>9. ASSUME NEW o \in OrderIds, Lifecycle!PaperFill(o)
      PROVE  log'[p]["PENDING_CONFIRMATION"] > 0
  BY <1>1, <1>6, <1>9 DEF Lifecycle!PaperFill
<1>10. CASE UNCHANGED <<status, log>>
  BY <1>10 DEF PlacedInv
<1> QED BY <1>3, <1>4, <1>5, <1>7, <1>8, <1>9, <1>10 DEF Lifecycle!Next

-----------------------------------------------------------------------------

\* The invariant under which each step of the router is one of the lifecycle
\* holds in every reachable state.
THEOREM LifecycleInvariance == Spec => []LInv
<1>1. Init => LInv
  <2> SUFFICES ASSUME Init PROVE LInv
    OBVIOUS
  <2>1. IInv
    BY IInvInit
  <2>2. CountInv
    <3> SUFFICES ASSUME NEW o \in OrderIds PROVE CountOK(o)
      BY DEF CountInv
    <3>1. Beginners(o) = {} /\ Enders(o) = {}
      BY DEF Init, Beginners, Enders, Beginning, Ending, PaperPCs, LivePCs,
         Executing
    <3> QED BY <3>1, FS_EmptySet DEF CountOK, Init, Logged
  <2>3. SeenInv /\ PlacedInv
    BY DEF Init, SeenInv, SeenOK, Loaded, Executing, PlacedInv
  <2> QED BY <2>1, <2>2, <2>3 DEF LInv
<1>2. LInv /\ [Next]_vars => LInv'
  <2> SUFFICES ASSUME LInv, [Next]_vars PROVE LInv'
    OBVIOUS
  <2>1. IInv'
    BY IInvStep DEF LInv
  <2>2. CountInv' /\ SeenInv'
    BY <2>1, CountInvStep, SeenInvStep DEF LInv
  <2>3. PlacedInv'
    BY LifecycleStep, PlacedInvStep DEF LInv
  <2> QED BY <2>1, <2>2, <2>3 DEF LInv
<1> QED BY <1>1, <1>2, PTL DEF Spec

\* The router implements the lifecycle: whatever threads and workers do to an
\* order and wherever they die, its rows in order_states and its status are
\* written as if one actor took it through the states, executing it at most
\* once for each confirmation and resolving each execution at most once.
THEOREM Refinement == Spec => Implements
<1>1. Init => Lifecycle!Init
  BY DEF Init, Logged, Lifecycle!Init, Lifecycle!States
<1>2. LInv /\ [Next]_vars => [Lifecycle!Next]_<<status, log>>
  BY LifecycleStep DEF LInv
<1> QED BY <1>1, <1>2, LifecycleInvariance, PTL
        DEF Spec, Implements, Lifecycle!Spec

-----------------------------------------------------------------------------
(***************************************************************************)
(* What the lifecycle bounds: executions by confirmations, and with the    *)
(* bound of OrderRouterProofs the orders the broker takes.                 *)
(***************************************************************************)

\* An order is executed at most once for each confirmation of it, and each
\* execution has at most one outcome.
OncePerConfirmation ==
    \A o \in OrderIds :
        /\ log[o]["FILLED"] + log[o]["FAILED"] <= log[o]["PENDING_EXECUTION"]
        /\ log[o]["PENDING_EXECUTION"] <= log[o]["CONFIRMED"]

\* The broker takes at most two orders for each attempt of each confirmation.
BrokerOrdersConfirmed ==
    \A o \in OrderIds : broker[o] <= 2 * MaxAttempts * log[o]["CONFIRMED"]

\* A smaller factor, a smaller product.
LEMMA ProductsGrow ==
  ASSUME NEW q \in Nat, NEW m \in Nat, NEW n \in Nat, m <= n
  PROVE  q * m <= q * n
<1>1. PICK d \in Nat : n = m + d
  <2>1. n - m \in Nat /\ n = m + (n - m)
    OBVIOUS
  <2> QED BY <2>1
<1>2. q * n = q * m + q * d /\ q * d \in Nat /\ q * m \in Nat
  BY <1>1
<1> QED BY <1>2

\* The counts of LInv leave room for no second execution of a confirmation.
LEMMA ExecutionsCounted == LInv => OncePerConfirmation
<1> SUFFICES ASSUME LInv, NEW o \in OrderIds
             PROVE  /\ log[o]["FILLED"] + log[o]["FAILED"]
                           <= log[o]["PENDING_EXECUTION"]
                    /\ log[o]["PENDING_EXECUTION"] <= log[o]["CONFIRMED"]
  BY DEF OncePerConfirmation
<1>1. /\ Cardinality(Beginners(o)) + log[o]["PENDING_EXECUTION"]
            <= log[o]["CONFIRMED"]
      /\ Cardinality(Enders(o)) + log[o]["FILLED"] + log[o]["FAILED"]
            <= log[o]["PENDING_EXECUTION"]
  BY DEF LInv, CountInv, CountOK
<1>2. /\ log[o]["CONFIRMED"] \in Nat /\ log[o]["PENDING_EXECUTION"] \in Nat
      /\ log[o]["FILLED"] \in Nat /\ log[o]["FAILED"] \in Nat
  BY DEF LInv, IInv, TypeOK, Logged
<1>3. Cardinality(Beginners(o)) \in Nat /\ Cardinality(Enders(o)) \in Nat
  BY Counted DEF Beginners, Enders
<1> QED BY <1>1, <1>2, <1>3

\* Confirmations that overlap execute an order more than once (see the run
\* confirm_twice), but never more often than it was confirmed, whatever threads
\* and workers die; and no execution is settled twice.
THEOREM Executions == Spec => []OncePerConfirmation
<1> QED BY LifecycleInvariance, ExecutionsCounted, PTL

\* Between the confirmations of a user and the orders at the broker nothing
\* multiplies but the retries: lost answers, restarts and overlapping threads
\* leave the factor at two requests for each attempt.
THEOREM Confirmed == Spec => []BrokerOrdersConfirmed
<1>1. LInv /\ BrokerOrdersBounded => BrokerOrdersConfirmed
  <2> SUFFICES ASSUME LInv, BrokerOrdersBounded, NEW o \in OrderIds
               PROVE  broker[o] <= 2 * MaxAttempts * log[o]["CONFIRMED"]
    BY DEF BrokerOrdersConfirmed
  <2>1. /\ log[o]["PENDING_EXECUTION"] <= log[o]["CONFIRMED"]
        /\ log[o]["PENDING_EXECUTION"] \in Nat /\ log[o]["CONFIRMED"] \in Nat
        /\ broker[o] \in Nat
    BY ExecutionsCounted DEF OncePerConfirmation, LInv, IInv, TypeOK, Logged
  <2>2. 2 * MaxAttempts \in Nat
    BY ConstantsAssumption
  <2>3. 2 * MaxAttempts * log[o]["PENDING_EXECUTION"]
           <= 2 * MaxAttempts * log[o]["CONFIRMED"]
    BY <2>1, <2>2, ProductsGrow
  <2>4. broker[o] <= 2 * MaxAttempts * log[o]["PENDING_EXECUTION"]
    BY DEF BrokerOrdersBounded
  <2>5. /\ 2 * MaxAttempts * log[o]["PENDING_EXECUTION"] \in Nat
        /\ 2 * MaxAttempts * log[o]["CONFIRMED"] \in Nat
    BY <2>1, Products, ConstantsAssumption
  <2> QED BY <2>1, <2>3, <2>4, <2>5
<1> QED BY <1>1, LifecycleInvariance, RequestBound, PTL
=============================================================================
