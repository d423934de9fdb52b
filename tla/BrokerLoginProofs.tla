-------------------------- MODULE BrokerLoginProofs --------------------------
(***************************************************************************)
(* What holds of BrokerLogin for any number of threads, retries, sessions  *)
(* and any thresholds: types, then the critical section of the mutex, then *)
(* the circuit breaker, whose bound rests on it.                           *)
(***************************************************************************)
EXTENDS BrokerLogin, TLAPS

-----------------------------------------------------------------------------
(***************************************************************************)
(* Frames.                                                                 *)
(***************************************************************************)

Ops == Work \cup {"none", "error", "retry"}
Calls == {"none", "valid", "login", "force", "refresh", "cached", "clear"}

\* Changing one field of a frame within its range gives a frame.
LEMMA FrameFields ==
    ASSUME NEW f \in Frame, NEW p \in PCs, NEW s \in SomeSession,
           NEW r \in SomeSession, NEW n \in 0 .. MaxRetries
    PROVE  /\ [f EXCEPT !.pc = p] \in Frame
           /\ [f EXCEPT !.pc = p, !.held = s] \in Frame
           /\ [f EXCEPT !.pc = p, !.held = s, !.prev = r] \in Frame
           /\ [f EXCEPT !.pc = p, !.attempt = n] \in Frame
           /\ [f EXCEPT !.pc = p, !.attempt = n, !.held = s] \in Frame
           /\ [f EXCEPT !.pc = p, !.attempt = n, !.held = s, !.prev = r] \in Frame
           /\ [f EXCEPT !.pc = p, !.prev = r] \in Frame
           /\ [f EXCEPT !.pc = p, !.call = "none"] \in Frame
           /\ [f EXCEPT !.attempt = n] \in Frame
  BY DEF Frame

LEMMA FrameRecord ==
    ASSUME NEW p \in PCs, NEW o \in Ops, NEW c \in Calls, NEW n \in 0 .. MaxRetries,
           NEW k \in 0 .. MaxFetches, NEW s \in SomeSession, NEW r \in SomeSession
    PROVE  [pc |-> p, op |-> o, call |-> c, attempt |-> n, fetches |-> k,
            held |-> s, prev |-> r] \in Frame
  BY DEF Frame, Ops, Calls

LEMMA FrameRanges ==
    /\ {0, 1} \subseteq 0 .. MaxRetries
    /\ 0 \in 0 .. MaxFetches
    /\ NoSession \in SomeSession
    /\ Critical \subseteq PCs
    /\ {"idle", "lock", "enter", "update", "request", "recorded", "again"} \subseteq PCs
    /\ {"none", "fetch", "login", "force", "refresh", "error", "retry"} \subseteq Ops
<1>1. {0, 1} \subseteq 0 .. MaxRetries /\ 0 \in 0 .. MaxFetches
  BY BoundsAssumption
<1>2. QED BY <1>1 DEF SomeSession, PCs, Ops, Work

LEMMA IdleFrame == Idle \in Frame /\ Idle.pc = "idle"
<1>1. "none" \in Calls
  BY DEF Calls
<1>2. QED BY <1>1, FrameRecord, FrameRanges DEF Idle, At

\* Where the helpers of the specification send a thread: a frame whose pc is
\* inside the mutex only for the login loop.
LEMMA FrameHelpers ==
    ASSUME NEW f \in Frame
    PROVE  /\ \A c \in Calls : Enter(f, c) \in Frame /\ Enter(f, c).pc = "enter"
           /\ \A o \in Ops : Refresh(f, o) \in Frame /\ Refresh(f, o).pc = "lock"
           /\ NextFetch(f) \in Frame /\ NextFetch(f).pc \in {"request", "idle"}
           /\ LoginLoop(f) \in Frame /\ LoginLoop(f).pc = "login"
<1>1. f.fetches \in 0 .. MaxFetches /\ f.op \in Ops /\ f.call \in Calls
  BY DEF Frame, Ops, Calls
<1>2. "none" \in Calls
  BY DEF Calls
<1>3. ASSUME NEW c \in Calls PROVE Enter(f, c) \in Frame /\ Enter(f, c).pc = "enter"
  <2>1. Enter(f, c) = [pc |-> "enter", op |-> f.op, call |-> c, attempt |-> 0,
                       fetches |-> f.fetches, held |-> NoSession, prev |-> NoSession]
    BY DEF Enter, At
  <2>2. QED BY <1>1, <2>1, FrameRecord, FrameRanges
<1>4. ASSUME NEW o \in Ops PROVE Refresh(f, o) \in Frame /\ Refresh(f, o).pc = "lock"
  <2>1. Refresh(f, o) = [pc |-> "lock", op |-> o, call |-> "none", attempt |-> 0,
                         fetches |-> f.fetches, held |-> NoSession, prev |-> NoSession]
    BY DEF Refresh, At
  <2>2. QED BY <1>1, <1>2, <2>1, FrameRecord, FrameRanges
<1>5. NextFetch(f) \in Frame /\ NextFetch(f).pc \in {"request", "idle"}
  <2>1. CASE f.fetches < MaxFetches
    <3>1. f.fetches + 1 \in 0 .. MaxFetches
      BY <1>1, <2>1, BoundsAssumption
    <3>2. NextFetch(f) = [pc |-> "request", op |-> "fetch", call |-> "none",
                          attempt |-> 0, fetches |-> f.fetches + 1,
                          held |-> NoSession, prev |-> NoSession]
      BY <2>1 DEF NextFetch, At
    <3>3. QED BY <1>2, <3>1, <3>2, FrameRecord, FrameRanges
  <2>2. CASE ~(f.fetches < MaxFetches)
    BY <2>2, IdleFrame DEF NextFetch
  <2>3. QED BY <2>1, <2>2
<1>6. LoginLoop(f) \in Frame /\ LoginLoop(f).pc = "login"
  <2>1. "login" \in PCs
    BY DEF PCs, Critical
  <2>2. LoginLoop(f) \in Frame
    BY <2>1, FrameFields, FrameRanges DEF LoginLoop
  <2>3. LoginLoop(f).pc = "login"
    BY DEF LoginLoop, Frame
  <2>4. QED BY <2>2, <2>3
<1>7. QED BY <1>3, <1>4, <1>5, <1>6

LEMMA ReturnedFrame ==
    ASSUME NEW f \in Frame, NEW ok \in BOOLEAN
    PROVE  Returned(f, ok) \in Frame /\ Returned(f, ok).pc \in {"request", "idle", "again"}
<1>1. At("again", "error", "none", 0)
        = [pc |-> "again", op |-> "error", call |-> "none", attempt |-> 0,
           fetches |-> 0, held |-> NoSession, prev |-> NoSession]
  BY DEF At
<1>2. "none" \in Calls
  BY DEF Calls
<1>3. CASE f.op = "retry" \/ (f.op = "error" /\ ok)
  <2>1. Returned(f, ok) = NextFetch(f)
    BY <1>3 DEF Returned
  <2>2. QED BY <2>1, FrameHelpers
<1>4. CASE f.op = "error" /\ ~ok
  <2>1. Returned(f, ok) = At("again", "error", "none", 0)
    BY <1>4 DEF Returned
  <2>2. QED BY <1>1, <1>2, <2>1, FrameRecord, FrameRanges
<1>5. CASE f.op # "retry" /\ f.op # "error"
  <2>1. Returned(f, ok) = Idle
    BY <1>5 DEF Returned
  <2>2. QED BY <2>1, IdleFrame
<1>6. QED BY <1>3, <1>4, <1>5

\* A step of t leaves the frames of the others alone.
LEMMA GoMoves ==
    ASSUME NEW t \in Threads, NEW f \in Frame,
           at \in [Threads -> Frame], Go(t, f)
    PROVE  /\ at' \in [Threads -> Frame]
           /\ at'[t] = f
           /\ \A u \in Threads \ {t} : at'[u] = at[u]
  BY DEF Go

-----------------------------------------------------------------------------
(***************************************************************************)
(* What a step of thread t does to the frames and the mutex.               *)
(***************************************************************************)

\* A thread inside the critical section holds the mutex, and there is no
\* cooldown.
Own == \A t \in Threads : at[t].pc \in Critical => mutex = t /\ ~cooldown

\* The step moves thread t alone; it touches the mutex only when t holds it
\* or nobody does; and when it ends inside the critical section t holds it.
Moves(t) ==
    /\ at' \in [Threads -> Frame]
    /\ \A u \in Threads \ {t} : at'[u] = at[u]
    /\ mutex' \in Threads \cup {NoThread}
    /\ loginLock' \in Threads \cup {NoThread}
    /\ cooldown' \in BOOLEAN

Keeps(t) ==
    /\ at[t].pc \in Critical \/ mutex = NoThread
       \/ (mutex' = mutex /\ cooldown' = cooldown)
    /\ at'[t].pc \in Critical => mutex' = t /\ ~cooldown'

LEMMA NotCritical ==
    {"idle", "lock", "enter", "update", "request", "recorded", "again"} \cap Critical = {}
  BY DEF Critical

LEMMA RaiseMoves ==
    ASSUME TypeOK, NEW t \in Threads, Raise(t)
    PROVE  /\ at' \in [Threads -> Frame]
           /\ \A u \in Threads \ {t} : at'[u] = at[u]
           /\ at'[t].pc \notin Critical
           /\ loginLock' \in Threads \cup {NoThread}
<1>1. at \in [Threads -> Frame] /\ at[t] \in Frame
       /\ loginLock \in Threads \cup {NoThread}
  BY DEF TypeOK
<1>2. CASE at[t].call = "refresh"
  <2>1. Go(t, Enter(at[t], "force")) /\ UNCHANGED loginLock
    BY <1>2 DEF Raise
  <2>2. Enter(at[t], "force") \in Frame /\ Enter(at[t], "force").pc = "enter"
    BY <1>1, FrameHelpers DEF Calls
  <2>3. QED BY <1>1, <2>1, <2>2, GoMoves, NotCritical
<1>3. CASE at[t].call # "refresh"
  <2>1. Go(t, Returned(at[t], FALSE)) /\ LeaveLoginLock(t)
    BY <1>3 DEF Raise
  <2>2. /\ Returned(at[t], FALSE) \in Frame
        /\ Returned(at[t], FALSE).pc \in {"request", "idle", "again"}
    BY <1>1, ReturnedFrame
  <2>3. loginLock' \in Threads \cup {NoThread}
    BY <1>1, <2>1 DEF LeaveLoginLock
  <2>4. QED BY <1>1, <2>1, <2>2, <2>3, GoMoves, NotCritical
<1>4. QED BY <1>2, <1>3

\* A failed attempt leads to the next one, still inside, or out of the
\* critical section and into the cooldown.
LEMMA AttemptMoves ==
    ASSUME TypeOK, Own, NEW t \in Threads, at[t].pc \in {"login", "sent"},
           AttemptFailed(t)
    PROVE  Moves(t) /\ Keeps(t) /\ at'[t].pc # "sent"
<1>1. at \in [Threads -> Frame] /\ at[t] \in Frame /\ at[t].attempt \in 0 .. MaxRetries
       /\ mutex \in Threads \cup {NoThread} /\ loginLock \in Threads \cup {NoThread}
       /\ cooldown \in BOOLEAN
  BY DEF TypeOK, Frame
<1>2. at[t].pc \in Critical /\ mutex = t /\ ~cooldown
  BY DEF Own, Critical
<1>3. CASE /\ at[t].attempt < MaxRetries
           /\ Go(t, [at[t] EXCEPT !.pc = "login", !.attempt = @ + 1])
           /\ UNCHANGED <<cooldown, mutex, loginLock>>
  <2> DEFINE f == [at[t] EXCEPT !.pc = "login", !.attempt = @ + 1]
  <2>1. at[t].attempt + 1 \in 0 .. MaxRetries /\ "login" \in PCs
    BY <1>1, <1>3, BoundsAssumption DEF PCs, Critical
  <2>2. f \in Frame
    BY <1>1, <2>1 DEF Frame
  <2>3. f.pc = "login"
    BY <1>1 DEF Frame
  <2>4. /\ at' \in [Threads -> Frame] /\ at'[t] = f
        /\ \A u \in Threads \ {t} : at'[u] = at[u]
    BY <1>1, <1>3, <2>2, GoMoves
  <2>5. QED BY <1>1, <1>2, <1>3, <2>3, <2>4 DEF Moves, Keeps
<1>4. CASE at[t].attempt = MaxRetries /\ cooldown' = TRUE /\ mutex' = NoThread /\ Raise(t)
  <2>1. "sent" \in Critical
    BY DEF Critical
  <2>2. QED BY <1>1, <1>2, <1>4, <2>1, RaiseMoves DEF Moves, Keeps
<1>5. QED BY <1>3, <1>4 DEF AttemptFailed

\* The shape most steps have: a new frame for t, and the mutex kept, taken or
\* released accordingly.
LEMMA FrameMoves ==
    ASSUME TypeOK, Own, NEW t \in Threads, NEW f \in Frame, Go(t, f),
           loginLock' \in Threads \cup {NoThread}, cooldown' \in {cooldown, FALSE},
           \/ f.pc \in Critical /\ at[t].pc \in Critical
              /\ mutex' = mutex
           \/ f.pc \in Critical /\ mutex = NoThread /\ mutex' = t /\ ~cooldown'
           \/ f.pc \notin Critical /\ at[t].pc \in Critical /\ mutex' = NoThread
           \/ f.pc \notin Critical /\ mutex' = mutex /\ cooldown' = cooldown
    PROVE  Moves(t) /\ Keeps(t) /\ at'[t] = f
<1>1. at \in [Threads -> Frame] /\ mutex \in Threads \cup {NoThread} /\ cooldown \in BOOLEAN
  BY DEF TypeOK
<1>2. /\ at' \in [Threads -> Frame] /\ at'[t] = f
      /\ \A u \in Threads \ {t} : at'[u] = at[u]
  BY <1>1, GoMoves
<1>3. at[t].pc \in Critical => mutex = t /\ ~cooldown
  BY DEF Own
<1>4. mutex' \in Threads \cup {NoThread} /\ cooldown' \in BOOLEAN
  BY <1>1
<1>5. at[t].pc \in Critical \/ mutex = NoThread \/ (mutex' = mutex /\ cooldown' = cooldown)
  OBVIOUS
<1>6. f.pc \in Critical => mutex' = t /\ ~cooldown'
  BY <1>3
<1>7. QED BY <1>2, <1>4, <1>5, <1>6 DEF Moves, Keeps

\* What the frames and the locks are before a step.
LEMMA Before ==
    ASSUME TypeOK, NEW t \in Threads
    PROVE  /\ at \in [Threads -> Frame] /\ at[t] \in Frame
           /\ mutex \in Threads \cup {NoThread} /\ loginLock \in Threads \cup {NoThread}
           /\ cooldown \in BOOLEAN
           /\ redis \in SomeSession /\ session \in SomeSession /\ conn \in SomeSession
           /\ Loaded \in SomeSession
           /\ at[t].held \in SomeSession /\ at[t].prev \in SomeSession
  BY DEF TypeOK, Frame, Loaded

LEMMA BeginMoves ==
    ASSUME TypeOK, Own, NEW t \in Threads,
           BeginFetch(t) \/ BeginSession(t) \/ TakeLoginLock(t)
    PROVE  Moves(t) /\ Keeps(t) /\ at'[t].pc # "sent"
<1>1. "sent" \in Critical
  BY DEF Critical
<1>2. CASE BeginFetch(t)
  <2> DEFINE f == At("enter", "fetch", "valid", 0)
  <2>1. Go(t, f) /\ UNCHANGED <<mutex, loginLock, cooldown>>
    BY <1>2 DEF BeginFetch
  <2>2. f \in Frame /\ f.pc = "enter"
    <3>1. "valid" \in Calls
      BY DEF Calls
    <3>2. QED BY <3>1, FrameRecord, FrameRanges DEF At
  <2> HIDE DEF f
  <2>3. QED BY <1>1, <2>1, <2>2, Before, FrameMoves, NotCritical
<1>3. CASE BeginSession(t)
  <2>1. PICK o \in Works[t] \ {"fetch"} : Go(t, Refresh(at[t], o))
    BY <1>3 DEF BeginSession
  <2>2. o \in Ops
    BY ThreadsAssumption DEF Ops
  <2>3. Refresh(at[t], o) \in Frame /\ Refresh(at[t], o).pc = "lock"
    BY <2>2, Before, FrameHelpers
  <2>4. UNCHANGED <<mutex, loginLock, cooldown>>
    BY <1>3 DEF BeginSession
  <2>5. QED BY <1>1, <2>1, <2>3, <2>4, Before, FrameMoves, NotCritical
<1>4. CASE TakeLoginLock(t)
  <2> DEFINE c == IF at[t].op \in {"login", "force"} THEN at[t].op ELSE "refresh"
  <2>1. Go(t, Enter(at[t], c)) /\ loginLock' = t /\ UNCHANGED <<mutex, cooldown>>
    BY <1>4 DEF TakeLoginLock
  <2>2. c \in Calls
    BY DEF Calls
  <2> HIDE DEF c
  <2>3. Enter(at[t], c) \in Frame /\ Enter(at[t], c).pc = "enter"
    BY <2>2, Before, FrameHelpers
  <2>4. QED BY <1>1, <2>1, <2>3, Before, FrameMoves, NotCritical
<1>5. QED BY <1>2, <1>3, <1>4

LEMMA AcquireMoves ==
    ASSUME TypeOK, Own, NEW t \in Threads, Acquire(t)
    PROVE  Moves(t) /\ Keeps(t) /\ at'[t].pc # "sent"
<1>1. "sent" \in Critical /\ {"reload", "probe", "login"} \subseteq Critical
  BY DEF Critical
<1>2. at[t] \in Frame /\ NoSession \in SomeSession
  BY Before, FrameRanges
<1>3. CASE CoolingDown(t)
  <2>1. Raise(t) /\ mutex = NoThread /\ UNCHANGED <<mutex, cooldown>>
    BY <1>3 DEF CoolingDown, Waiting
  <2>2. QED BY <1>1, <2>1, Before, RaiseMoves DEF Moves, Keeps
<1>4. CASE UseCached(t)
  <2>1. Go(t, Enter(at[t], "cached")) /\ UNCHANGED <<mutex, cooldown, loginLock>>
    BY <1>4 DEF UseCached
  <2>2. Enter(at[t], "cached") \in Frame /\ Enter(at[t], "cached").pc = "enter"
    BY <1>2, FrameHelpers DEF Calls
  <2>3. QED BY <1>1, <2>1, <2>2, Before, FrameMoves, NotCritical
<1>5. CASE StartRefresh(t)
  <2> DEFINE f == [at[t] EXCEPT !.pc = "reload"]
  <2>1. /\ Go(t, f) /\ mutex = NoThread /\ mutex' = t
        /\ ~cooldown /\ UNCHANGED <<cooldown, loginLock>>
    BY <1>5 DEF StartRefresh, Waiting
  <2>2. f \in Frame /\ f.pc = "reload"
    BY <1>2 DEF Frame, PCs, Critical
  <2> HIDE DEF f
  <2>3. QED BY <1>1, <2>1, <2>2, Before, FrameMoves
<1>6. CASE EnterLogin(t)
  <2>1. mutex = NoThread /\ ~cooldown /\ UNCHANGED <<cooldown, loginLock>>
    BY <1>6 DEF EnterLogin, Waiting
  <2>2. CASE /\ UNCHANGED mutex
             /\ Go(t, [at[t] EXCEPT !.pc = "update", !.held = Loaded])
    <3> DEFINE f == [at[t] EXCEPT !.pc = "update", !.held = Loaded]
    <3>1. f \in Frame
      BY <1>2, Before, FrameFields, FrameRanges
    <3>2. f.pc = "update" /\ Go(t, f)
      BY <1>2, <2>2 DEF Frame
    <3> HIDE DEF f
    <3>3. QED BY <1>1, <2>1, <2>2, <3>1, <3>2, Before, FrameMoves, NotCritical
  <2>3. CASE /\ mutex' = t
             /\ Go(t, [at[t] EXCEPT !.pc = "probe", !.held = Loaded, !.prev = conn])
    <3> DEFINE f == [at[t] EXCEPT !.pc = "probe", !.held = Loaded, !.prev = conn]
    <3>1. f \in Frame
      BY <1>1, <1>2, Before, FrameFields, FrameRanges
    <3>2. f.pc = "probe" /\ Go(t, f)
      BY <1>2, <2>3 DEF Frame
    <3> HIDE DEF f
    <3>3. QED BY <1>1, <2>1, <2>3, <3>1, <3>2, Before, FrameMoves
  <2>4. CASE mutex' = t /\ Go(t, LoginLoop(at[t]))
    <3>1. LoginLoop(at[t]) \in Frame /\ LoginLoop(at[t]).pc = "login"
      BY <1>2, FrameHelpers
    <3>2. QED BY <1>1, <2>1, <2>4, <3>1, Before, FrameMoves
  <2>5. QED BY <1>6, <2>2, <2>3, <2>4 DEF EnterLogin
<1>7. CASE EnterForce(t)
  <2>1. /\ Go(t, LoginLoop(at[t])) /\ mutex = NoThread /\ mutex' = t
        /\ cooldown' = FALSE /\ UNCHANGED loginLock
    BY <1>7 DEF EnterForce, Waiting
  <2>2. LoginLoop(at[t]) \in Frame /\ LoginLoop(at[t]).pc = "login"
    BY <1>2, FrameHelpers
  <2>3. QED BY <1>1, <2>1, <2>2, Before, FrameMoves
<1>8. CASE EnterCached(t)
  <2>1. UNCHANGED <<mutex, cooldown, loginLock>>
    BY <1>8 DEF EnterCached
  <2>2. CASE Loaded = NoSession
    <3>1. Go(t, NextFetch(at[t]))
      BY <1>8, <2>2 DEF EnterCached
    <3>2. NextFetch(at[t]) \in Frame /\ NextFetch(at[t]).pc \in {"request", "idle"}
      BY <1>2, FrameHelpers
    <3>3. QED BY <1>1, <2>1, <3>1, <3>2, Before, FrameMoves, NotCritical
  <2>3. CASE Loaded # NoSession
    <3> DEFINE f == [at[t] EXCEPT !.pc = "update", !.held = Loaded]
    <3>1. f \in Frame
      BY <1>2, Before, FrameFields, FrameRanges
    <3>2. f.pc = "update" /\ Go(t, f)
      BY <1>2, <1>8, <2>3 DEF Frame, EnterCached
    <3> HIDE DEF f
    <3>3. QED BY <1>1, <2>1, <3>1, <3>2, Before, FrameMoves, NotCritical
  <2>4. QED BY <2>2, <2>3
<1>9. CASE EnterClear(t)
  <2>1. UNCHANGED <<mutex, cooldown, loginLock>>
    BY <1>9 DEF EnterClear
  <2>2. CASE at[t].op = "error"
    <3>1. Go(t, Idle)
      BY <1>9, <2>2 DEF EnterClear
    <3>2. QED BY <1>1, <2>1, <3>1, Before, IdleFrame, FrameMoves, NotCritical
  <2>3. CASE at[t].op # "error"
    <3> DEFINE f == [at[t] EXCEPT !.pc = "recorded", !.call = "none"]
    <3>1. f \in Frame
      BY <1>2, FrameFields, FrameRanges
    <3>2. f.pc = "recorded" /\ Go(t, f)
      BY <1>2, <1>9, <2>3 DEF Frame, EnterClear
    <3> HIDE DEF f
    <3>3. QED BY <1>1, <2>1, <3>1, <3>2, Before, FrameMoves, NotCritical
  <2>4. QED BY <2>2, <2>3
<1>10. QED
  BY <1>3, <1>4, <1>5, <1>6, <1>7, <1>8, <1>9 DEF Acquire

\* Only sending the request leads to "sent".
LEMMA InsideMoves ==
    ASSUME TypeOK, Own, NEW t \in Threads, Inside(t)
    PROVE  /\ Moves(t) /\ Keeps(t) /\ at[t].pc \in Critical
           /\ at'[t].pc = "sent" => LoginSend(t)
<1>1. /\ {"reload", "refreshing", "probe", "login", "sent", "store", "apply"} = Critical
      /\ at[t] \in Frame /\ NoSession \in SomeSession
      /\ 0 \in 0 .. MaxRetries /\ 1 \in 0 .. MaxRetries
  BY Before, FrameRanges DEF Critical
<1>2. CASE Reload(t)
  <2>1. at[t].pc \in Critical /\ UNCHANGED <<mutex, cooldown, loginLock>>
    BY <1>1, <1>2 DEF Reload
  <2>2. CASE Loaded = NoSession
    <3>1. Go(t, LoginLoop(at[t]))
      BY <1>2, <2>2 DEF Reload
    <3>2. LoginLoop(at[t]) \in Frame /\ LoginLoop(at[t]).pc = "login"
      BY <1>1, FrameHelpers
    <3>3. QED BY <1>1, <2>1, <3>1, <3>2, Before, FrameMoves
  <2>3. CASE Loaded # NoSession
    <3> DEFINE f == [at[t] EXCEPT !.pc = "refreshing", !.attempt = 1, !.held = Loaded]
    <3>1. f \in Frame
      BY <1>1, Before, FrameFields, FrameRanges
    <3>2. f.pc = "refreshing" /\ Go(t, f)
      BY <1>1, <1>2, <2>3 DEF Frame, Reload
    <3> HIDE DEF f
    <3>3. QED BY <1>1, <2>1, <3>1, <3>2, Before, FrameMoves
  <2>4. QED BY <2>2, <2>3
<1>3. CASE RefreshOK(t) \/ LoginOK(t)
  <2>1. at[t].pc \in Critical /\ UNCHANGED <<mutex, cooldown, loginLock>>
    BY <1>1, <1>3 DEF RefreshOK, LoginOK
  <2>2. PICK s \in Sessions : Go(t, [at[t] EXCEPT !.pc = "store", !.held = s])
    BY <1>3 DEF RefreshOK, LoginOK
  <2> DEFINE f == [at[t] EXCEPT !.pc = "store", !.held = s]
  <2>3. f \in Frame /\ f.pc = "store"
    BY <1>1, FrameRanges DEF Frame, SomeSession
  <2>4. Go(t, f)
    BY <2>2
  <2> HIDE DEF f
  <2>5. QED BY <1>1, <2>1, <2>3, <2>4, Before, FrameMoves
<1>4. CASE RefreshRejected(t) \/ ProbeFails(t)
  <2>1. /\ at[t].pc \in Critical /\ UNCHANGED <<mutex, cooldown, loginLock>>
        /\ Go(t, LoginLoop(at[t]))
    BY <1>1, <1>4 DEF RefreshRejected, ProbeFails
  <2>2. LoginLoop(at[t]) \in Frame /\ LoginLoop(at[t]).pc = "login"
    BY <1>1, FrameHelpers
  <2>3. QED BY <1>1, <2>1, <2>2, Before, FrameMoves
<1>5. CASE RefreshFails(t)
  <2>1. at[t].pc = "refreshing" /\ UNCHANGED <<mutex, cooldown, loginLock>>
    BY <1>5 DEF RefreshFails
  <2>2. CASE at[t].attempt < MaxRetries
    <3> DEFINE f == [at[t] EXCEPT !.attempt = @ + 1]
    <3>1. at[t].attempt + 1 \in 0 .. MaxRetries
      BY <1>1, <2>2, BoundsAssumption DEF Frame
    <3>2. f \in Frame /\ f.pc = "refreshing"
      BY <1>1, <2>1, <3>1 DEF Frame
    <3>3. Go(t, f)
      BY <1>5, <2>2 DEF RefreshFails
    <3> HIDE DEF f
    <3>4. QED BY <1>1, <2>1, <3>2, <3>3, Before, FrameMoves
  <2>3. CASE ~(at[t].attempt < MaxRetries)
    <3>1. Go(t, LoginLoop(at[t]))
      BY <1>5, <2>3 DEF RefreshFails
    <3>2. LoginLoop(at[t]) \in Frame /\ LoginLoop(at[t]).pc = "login"
      BY <1>1, FrameHelpers
    <3>3. QED BY <1>1, <2>1, <3>1, <3>2, Before, FrameMoves
  <2>4. QED BY <2>2, <2>3
<1>6. CASE ProbeOK(t)
  <2> DEFINE f == [at[t] EXCEPT !.pc = "update", !.prev = NoSession]
  <2>1. /\ at[t].pc \in Critical /\ mutex' = NoThread
        /\ UNCHANGED <<cooldown, loginLock>> /\ Go(t, f)
    BY <1>1, <1>6 DEF ProbeOK
  <2>2. f \in Frame
    BY <1>1, FrameFields, FrameRanges
  <2>3. f.pc = "update"
    BY <1>1 DEF Frame
  <2> HIDE DEF f
  <2>4. QED BY <1>1, <2>1, <2>2, <2>3, Before, FrameMoves, NotCritical
<1>7. CASE LoginBlocked(t) \/ LoginUnsent(t) \/ LoginEmpty(t) \/ LoginFails(t)
  <2>1. at[t].pc \in {"login", "sent"} /\ AttemptFailed(t)
    BY <1>7 DEF LoginBlocked, LoginUnsent, LoginEmpty, LoginFails
  <2>2. QED BY <1>1, <2>1, AttemptMoves
<1>8. CASE LoginSend(t)
  <2> DEFINE f == [at[t] EXCEPT !.pc = "sent"]
  <2>1. /\ at[t].pc \in Critical /\ UNCHANGED <<mutex, cooldown, loginLock>> /\ Go(t, f)
    BY <1>1, <1>8 DEF LoginSend
  <2>2. f \in Frame /\ f.pc = "sent"
    BY <1>1 DEF Frame, PCs
  <2> HIDE DEF f
  <2>3. QED BY <1>1, <1>8, <2>1, <2>2, Before, FrameMoves
<1>9. CASE Store(t)
  <2> DEFINE f == [at[t] EXCEPT !.pc = "apply"]
  <2>1. /\ at[t].pc \in Critical /\ UNCHANGED <<mutex, cooldown, loginLock>> /\ Go(t, f)
    BY <1>1, <1>9 DEF Store
  <2>2. f \in Frame /\ f.pc = "apply"
    BY <1>1 DEF Frame, PCs
  <2> HIDE DEF f
  <2>3. QED BY <1>1, <2>1, <2>2, Before, FrameMoves
<1>10. CASE Apply(t)
  <2>1. /\ at[t].pc \in Critical /\ mutex' = NoThread /\ cooldown' = FALSE
        /\ UNCHANGED loginLock
    BY <1>1, <1>10 DEF Apply
  <2>2. CASE at[t].call = "valid"
    <3>1. Go(t, Enter(at[t], "cached"))
      BY <1>10, <2>2 DEF Apply
    <3>2. Enter(at[t], "cached") \in Frame /\ Enter(at[t], "cached").pc = "enter"
      BY <1>1, FrameHelpers DEF Calls
    <3>3. QED BY <1>1, <2>1, <3>1, <3>2, Before, FrameMoves, NotCritical
  <2>3. CASE at[t].call # "valid"
    <3> DEFINE f == [at[t] EXCEPT !.pc = "update", !.attempt = 0]
    <3>1. f \in Frame
      BY <1>1, FrameFields, FrameRanges
    <3>2. f.pc = "update" /\ Go(t, f)
      BY <1>1, <1>10, <2>3 DEF Frame, Apply
    <3> HIDE DEF f
    <3>3. QED BY <1>1, <2>1, <3>1, <3>2, Before, FrameMoves, NotCritical
  <2>4. QED BY <2>2, <2>3
<1>11. QED
  BY <1>2, <1>3, <1>4, <1>5, <1>6, <1>7, <1>8, <1>9, <1>10 DEF Inside

\* _record_auth_failure keeps its count below the threshold.
LEMMA RecordMoves ==
    ASSUME TypeOK, Own, NEW t \in Threads, NEW f \in Frame, f.pc \notin Critical,
           RecordAuthFailure(t, f), UNCHANGED <<mutex, cooldown, loginLock>>
    PROVE  /\ Moves(t) /\ Keeps(t) /\ at'[t].pc \notin Critical
           /\ failures' \in 0 .. AuthThreshold - 1 /\ suspended' \in BOOLEAN
<1>1. failures \in 0 .. AuthThreshold - 1 /\ suspended \in BOOLEAN
  BY DEF TypeOK
<1>2. PICK n \in {1, failures + 1} :
        LET opens == n >= AuthThreshold
        IN /\ failures' = IF opens THEN 0 ELSE n
           /\ suspended' = (suspended \/ opens)
           /\ Go(t, IF opens THEN Enter(at[t], "clear") ELSE f)
  BY DEF RecordAuthFailure
<1>3. failures' \in 0 .. AuthThreshold - 1
  BY <1>1, <1>2, BoundsAssumption
<1>4. suspended' \in BOOLEAN
  BY <1>1, <1>2
<1>5. Enter(at[t], "clear") \in Frame /\ Enter(at[t], "clear").pc = "enter"
  BY Before, FrameHelpers DEF Calls
<1>6. CASE n >= AuthThreshold
  <2>1. Go(t, Enter(at[t], "clear"))
    BY <1>2, <1>6
  <2>2. QED BY <1>3, <1>4, <1>5, <2>1, Before, FrameMoves, NotCritical
<1>7. CASE ~(n >= AuthThreshold)
  <2>1. Go(t, f)
    BY <1>2, <1>7
  <2>2. QED BY <1>3, <1>4, <2>1, Before, FrameMoves
<1>8. QED BY <1>6, <1>7

LEMMA OutsideMoves ==
    ASSUME TypeOK, Own, NEW t \in Threads, Outside(t)
    PROVE  Moves(t) /\ Keeps(t) /\ at'[t].pc \notin Critical
<1>1. at[t] \in Frame
  BY Before
<1>2. CASE Update(t)
  <2>1. UNCHANGED <<mutex, cooldown>>
    BY <1>2 DEF Update
  <2>2. CASE at[t].op = "fetch"
    <3>1. Go(t, NextFetch(at[t])) /\ UNCHANGED loginLock
      BY <1>2, <2>2 DEF Update
    <3>2. NextFetch(at[t]) \in Frame /\ NextFetch(at[t]).pc \in {"request", "idle"}
      BY <1>1, FrameHelpers
    <3>3. QED BY <2>1, <3>1, <3>2, Before, FrameMoves, NotCritical
  <2>3. CASE at[t].op # "fetch"
    <3>1. Go(t, Returned(at[t], TRUE)) /\ LeaveLoginLock(t)
      BY <1>2, <2>3 DEF Update
    <3>2. /\ Returned(at[t], TRUE) \in Frame
          /\ Returned(at[t], TRUE).pc \in {"request", "idle", "again"}
      BY <1>1, ReturnedFrame
    <3>3. loginLock' \in Threads \cup {NoThread}
      BY <3>1, Before DEF LeaveLoginLock
    <3>4. QED BY <2>1, <3>1, <3>2, <3>3, Before, FrameMoves, NotCritical
  <2>4. QED BY <2>2, <2>3
<1>3. CASE RequestOK(t)
  <2>1. Go(t, Idle) /\ UNCHANGED <<mutex, cooldown, loginLock>>
    BY <1>3 DEF RequestOK
  <2>2. QED BY <2>1, Before, IdleFrame, FrameMoves, NotCritical
<1>4. CASE RequestFails(t)
  <2>1. Go(t, NextFetch(at[t])) /\ UNCHANGED <<mutex, cooldown, loginLock>>
    BY <1>4 DEF RequestFails
  <2>2. NextFetch(at[t]) \in Frame /\ NextFetch(at[t]).pc \in {"request", "idle"}
    BY <1>1, FrameHelpers
  <2>3. QED BY <2>1, <2>2, Before, FrameMoves, NotCritical
<1>5. CASE RequestRaises(t) \/ HandleTokenError(t)
  <2>1. UNCHANGED <<mutex, cooldown, loginLock>>
    BY <1>5 DEF RequestRaises, HandleTokenError
  <2>2. PICK f \in {Refresh(at[t], "retry"), Refresh(at[t], "error"), Idle} : Go(t, f)
    BY <1>5 DEF RequestRaises, HandleTokenError
  <2>3. f \in Frame /\ f.pc \in {"lock", "idle"}
    <3>1. "retry" \in Ops /\ "error" \in Ops
      BY DEF Ops
    <3>2. /\ Refresh(at[t], "retry") \in Frame /\ Refresh(at[t], "retry").pc = "lock"
          /\ Refresh(at[t], "error") \in Frame /\ Refresh(at[t], "error").pc = "lock"
      BY <1>1, <3>1, FrameHelpers
    <3>3. QED BY <2>2, <3>2, IdleFrame
  <2>4. QED BY <2>1, <2>2, <2>3, Before, FrameMoves, NotCritical
<1>6. CASE TokenError(t)
  <2> DEFINE f == [at[t] EXCEPT !.pc = "recorded"]
  <2>1. RecordAuthFailure(t, f) /\ UNCHANGED <<mutex, cooldown, loginLock>>
    BY <1>6 DEF TokenError
  <2>2. f \in Frame /\ f.pc = "recorded"
    BY <1>1 DEF Frame, PCs
  <2> HIDE DEF f
  <2>3. QED BY <2>1, <2>2, RecordMoves, NotCritical
<1>7. CASE RefreshGaveUp(t)
  <2>1. RecordAuthFailure(t, Idle) /\ UNCHANGED <<mutex, cooldown, loginLock>>
    BY <1>7 DEF RefreshGaveUp
  <2>2. QED BY <2>1, IdleFrame, RecordMoves, NotCritical
<1>8. QED BY <1>2, <1>3, <1>4, <1>5, <1>6, <1>7 DEF Outside

\* The environment moves no thread; at most it ends the cooldown.
LEMMA EnvironmentMoves ==
    ASSUME TypeOK, Environment
    PROVE  UNCHANGED <<mutex, loginLock, breakerVars, at>>
           /\ cooldown' \in {cooldown, FALSE}
  BY DEF Environment, Age, Revoke, ProbeAges, CooldownEnds, SuspensionEnds,
         ElsewhereStores, ElsewhereClears, breakerVars

-----------------------------------------------------------------------------
(***************************************************************************)
(* The critical section.                                                   *)
(***************************************************************************)

ThreadStep(t) == BeginFetch(t) \/ BeginSession(t) \/ TakeLoginLock(t)
                 \/ Acquire(t) \/ Inside(t) \/ Outside(t)

LEMMA StepMoves ==
    ASSUME TypeOK, Own, NEW t \in Threads, ThreadStep(t)
    PROVE  Moves(t) /\ Keeps(t) /\ (at'[t].pc = "sent" => LoginSend(t))
<1>1. "sent" \in Critical
  BY DEF Critical
<1>2. QED
  BY <1>1, BeginMoves, AcquireMoves, InsideMoves, OutsideMoves DEF ThreadStep

LEMMA OwnStep ==
    ASSUME TypeOK, Own, [Next]_vars
    PROVE  Own'
<1>1. CASE \E t \in Threads : ThreadStep(t)
  <2>1. PICK t \in Threads : ThreadStep(t)
    BY <1>1
  <2>2. Moves(t) /\ Keeps(t)
    BY <2>1, StepMoves
  <2>3. SUFFICES ASSUME NEW u \in Threads, at'[u].pc \in Critical
                 PROVE  mutex' = u /\ ~cooldown'
    BY DEF Own
  <2>4. CASE u = t
    BY <2>2, <2>3, <2>4 DEF Keeps
  <2>5. CASE u # t
    <3>1. at[u].pc \in Critical
      BY <2>2, <2>3, <2>5 DEF Moves
    <3>2. mutex = u /\ ~cooldown
      BY <3>1 DEF Own
    <3>3. at[t].pc \notin Critical /\ mutex # NoThread
      BY <2>5, <3>2, ThreadsAssumption DEF Own
    <3>4. QED BY <2>2, <3>2, <3>3 DEF Keeps
  <2>6. QED BY <2>4, <2>5
<1>2. CASE Environment
  <2>1. mutex' = mutex /\ at' = at /\ cooldown' \in {cooldown, FALSE}
    BY <1>2, EnvironmentMoves
  <2>2. QED BY <2>1 DEF Own
<1>3. CASE UNCHANGED vars
  BY <1>3 DEF vars, Own
<1>4. QED BY <1>1, <1>2, <1>3 DEF Next, ThreadStep

-----------------------------------------------------------------------------
(***************************************************************************)
(* Types.                                                                  *)
(***************************************************************************)

\* The variables Moves does not speak of.
DataOK ==
    /\ issued \in 0 .. MaxSessions
    /\ valid \subseteq Sessions
    /\ fresh \subseteq Sessions
    /\ redis \in SomeSession
    /\ session \in SomeSession
    /\ conn \in SomeSession
    /\ checked \in BOOLEAN
    /\ breaker \in [state : {"CLOSED", "OPEN", "HALF_OPEN"},
                    failures : 0 .. BreakerThreshold]
    /\ tried \in Nat
    /\ failures \in 0 .. AuthThreshold - 1
    /\ suspended \in BOOLEAN

LEMMA GrantTypes ==
    ASSUME TypeOK, NEW s \in Sessions, Grant(s)
    PROVE  issued' \in 0 .. MaxSessions /\ valid' \subseteq Sessions /\ fresh' \subseteq Sessions
  BY BoundsAssumption DEF TypeOK, Grant, Sessions

LEMMA LoadedTypes ==
    ASSUME TypeOK, KeepLoaded
    PROVE  session' \in SomeSession
  BY DEF TypeOK, KeepLoaded, Loaded

LEMMA ForgottenTypes ==
    ASSUME ForgetSession
    PROVE  redis' \in SomeSession /\ session' \in SomeSession
  BY DEF ForgetSession, SomeSession

LEMMA BreakerTypes ==
    ASSUME TypeOK, CanAttempt \/ RecordFailure \/ breaker' = Closed
    PROVE  breaker' \in [state : {"CLOSED", "OPEN", "HALF_OPEN"},
                         failures : 0 .. BreakerThreshold]
<1> DEFINE B == [state : {"CLOSED", "OPEN", "HALF_OPEN"},
                 failures : 0 .. BreakerThreshold]
<1>1. breaker \in B
  BY DEF TypeOK
<1>2. CASE CanAttempt
  BY <1>1, <1>2 DEF CanAttempt
<1>3. CASE RecordFailure
  <2> DEFINE n == breaker.failures + 1
  <2>1. CASE n >= BreakerThreshold \/ breaker.state = "HALF_OPEN"
    <3>1. breaker' = [state |-> "OPEN", failures |-> BreakerThreshold]
      BY <1>3, <2>1 DEF RecordFailure
    <3>2. QED BY <3>1, BoundsAssumption
  <2>2. CASE ~(n >= BreakerThreshold \/ breaker.state = "HALF_OPEN")
    <3>1. breaker' = [state |-> breaker.state, failures |-> n]
      BY <1>3, <2>2 DEF RecordFailure
    <3>2. n \in 0 .. BreakerThreshold
      BY <1>1, <2>2, BoundsAssumption
    <3>3. QED BY <1>1, <3>1, <3>2
  <2>3. QED BY <2>1, <2>2
<1>4. CASE breaker' = Closed
  BY <1>4, BoundsAssumption DEF Closed
<1>5. QED BY <1>2, <1>3, <1>4

LEMMA DataStep ==
    ASSUME TypeOK, Own, [Next]_vars
    PROVE  DataOK'
<1>1. DataOK
  BY DEF TypeOK, DataOK
<1> USE DEF brokerVars, tokenVars, breakerVars, authVars
<1>2. ASSUME NEW t \in Threads, BeginFetch(t) \/ BeginSession(t) \/ TakeLoginLock(t)
      PROVE DataOK'
  BY <1>1, <1>2 DEF DataOK, BeginFetch, BeginSession, TakeLoginLock
<1>3. ASSUME NEW t \in Threads, Acquire(t) PROVE DataOK'
  <2>1. CASE CoolingDown(t)
    BY <1>1, <2>1 DEF DataOK, CoolingDown
  <2>2. CASE UseCached(t)
    BY <1>1, <2>2, LoadedTypes, Before DEF DataOK, UseCached
  <2>3. CASE StartRefresh(t)
    BY <1>1, <2>3, LoadedTypes DEF DataOK, StartRefresh
  <2>4. CASE EnterLogin(t)
    <3>1. conn' \in SomeSession
      BY <1>1, <2>4, Before DEF DataOK, EnterLogin
    <3>2. QED BY <1>1, <2>4, <3>1, LoadedTypes DEF DataOK, EnterLogin
  <2>5. CASE EnterForce(t) \/ EnterClear(t)
    BY <1>1, <2>5, ForgottenTypes DEF DataOK, EnterForce, EnterClear
  <2>6. CASE EnterCached(t)
    BY <1>1, <2>6, LoadedTypes DEF DataOK, EnterCached
  <2>7. QED BY <1>3, <2>1, <2>2, <2>3, <2>4, <2>5, <2>6 DEF Acquire
<1>4. ASSUME NEW t \in Threads, Inside(t) PROVE DataOK'
  <2>1. CASE Reload(t)
    BY <1>1, <2>1, LoadedTypes DEF DataOK, Reload
  <2>2. CASE RefreshOK(t)
    <3>1. PICK s \in Sessions : Grant(s)
      BY <2>2 DEF RefreshOK
    <3>2. QED BY <1>1, <2>2, <3>1, GrantTypes DEF DataOK, RefreshOK
  <2>3. CASE RefreshRejected(t)
    BY <1>1, <2>3, ForgottenTypes DEF DataOK, RefreshRejected
  <2>4. CASE RefreshFails(t)
    BY <1>1, <2>4 DEF DataOK, RefreshFails
  <2>5. CASE ProbeOK(t)
    BY <1>1, <2>5, Before DEF DataOK, ProbeOK
  <2>6. CASE ProbeFails(t)
    BY <1>1, <2>6, Before, ForgottenTypes DEF DataOK, ProbeFails
  <2>7. CASE LoginBlocked(t)
    BY <1>1, <2>7 DEF DataOK, LoginBlocked
  <2>8. CASE LoginUnsent(t)
    BY <1>1, <2>8, BreakerTypes DEF DataOK, LoginUnsent
  <2>9. CASE LoginSend(t)
    BY <1>1, <2>9, BreakerTypes DEF DataOK, LoginSend
  <2>10. CASE LoginOK(t)
    <3>1. PICK s \in Sessions : Grant(s)
      BY <2>10 DEF LoginOK
    <3>2. QED BY <1>1, <2>10, <3>1, GrantTypes, BreakerTypes DEF DataOK, LoginOK
  <2>11. CASE LoginEmpty(t)
    BY <1>1, <2>11, BreakerTypes DEF DataOK, LoginEmpty
  <2>12. CASE LoginFails(t)
    <3>1. tried' \in Nat
      BY <1>1, <2>12 DEF DataOK, LoginFails, RecordFailure
    <3>2. QED BY <1>1, <2>12, <3>1, BreakerTypes DEF DataOK, LoginFails
  <2>13. CASE Store(t) \/ Apply(t)
    BY <1>1, <2>13, Before DEF DataOK, Store, Apply
  <2>14. QED
    BY <1>4, <2>1, <2>2, <2>3, <2>4, <2>5, <2>6, <2>7, <2>8, <2>9, <2>10, <2>11,
       <2>12, <2>13 DEF Inside
<1>5. ASSUME NEW t \in Threads, Outside(t) PROVE DataOK'
  <2>1. CASE Update(t)
    BY <1>1, <2>1, Before DEF DataOK, Update
  <2>2. CASE RequestOK(t)
    <3>1. 0 \in 0 .. AuthThreshold - 1
      BY BoundsAssumption
    <3>2. QED BY <1>1, <2>2, <3>1 DEF DataOK, RequestOK
  <2>3. CASE RequestFails(t) \/ RequestRaises(t) \/ HandleTokenError(t)
    BY <1>1, <2>3 DEF DataOK, RequestFails, RequestRaises, HandleTokenError
  <2>4. CASE TokenError(t) \/ RefreshGaveUp(t)
    <3>1. PICK f \in {[at[t] EXCEPT !.pc = "recorded"], Idle} : RecordAuthFailure(t, f)
      BY <2>4 DEF TokenError, RefreshGaveUp
    <3>2. failures' \in 0 .. AuthThreshold - 1 /\ suspended' \in BOOLEAN
      BY <1>1, <3>1, BoundsAssumption DEF DataOK, RecordAuthFailure
    <3>3. QED BY <1>1, <2>4, <3>2 DEF DataOK, TokenError, RefreshGaveUp
  <2>5. QED BY <1>5, <2>1, <2>2, <2>3, <2>4 DEF Outside
<1>6. CASE Environment
  <2>1. CASE ElsewhereStores
    <3>1. PICK s \in Sessions : Grant(s) /\ redis' = s
      BY <2>1 DEF ElsewhereStores
    <3>2. QED BY <1>1, <2>1, <3>1, GrantTypes DEF DataOK, ElsewhereStores, SomeSession
  <2>2. CASE ElsewhereClears
    BY <1>1, <2>2, FrameRanges DEF DataOK, ElsewhereClears
  <2>3. CASE Age
    <3>1. fresh' \subseteq Sessions
      BY <1>1, <2>3 DEF DataOK, Age
    <3>2. QED BY <1>1, <2>3, <3>1 DEF DataOK, Age
  <2>4. CASE Revoke
    <3>1. valid' \subseteq Sessions
      BY <1>1, <2>4 DEF DataOK, Revoke
    <3>2. QED BY <1>1, <2>4, <3>1 DEF DataOK, Revoke
  <2>5. CASE ProbeAges \/ CooldownEnds \/ SuspensionEnds
    BY <1>1, <2>5 DEF DataOK, ProbeAges, CooldownEnds, SuspensionEnds
  <2>6. QED BY <1>6, <2>1, <2>2, <2>3, <2>4, <2>5 DEF Environment
<1>7. CASE UNCHANGED vars
  BY <1>1, <1>7 DEF DataOK, vars
<1>8. QED BY <1>2, <1>3, <1>4, <1>5, <1>6, <1>7 DEF Next

LEMMA TypeStep ==
    ASSUME TypeOK, Own, [Next]_vars
    PROVE  TypeOK'
<1>1. DataOK'
  BY DataStep
<1>2. /\ at' \in [Threads -> Frame] /\ cooldown' \in BOOLEAN
      /\ mutex' \in Threads \cup {NoThread} /\ loginLock' \in Threads \cup {NoThread}
  <2>1. CASE \E t \in Threads : ThreadStep(t)
    BY <2>1, StepMoves DEF Moves
  <2>2. CASE Environment
    BY <2>2, EnvironmentMoves DEF TypeOK
  <2>3. CASE UNCHANGED vars
    BY <2>3 DEF TypeOK, vars
  <2>4. QED BY <2>1, <2>2, <2>3 DEF Next, ThreadStep
<1>3. QED BY <1>1, <1>2 DEF DataOK, TypeOK

-----------------------------------------------------------------------------
(***************************************************************************)
(* The breaker.                                                            *)
(***************************************************************************)

\* A request is on its way; only one can be.
Sending == \E t \in Threads : at[t].pc = "sent"

\* The requests since the last change of the breaker are the failures it has
\* counted, and the one on its way.
Counted ==
    /\ breaker.state = "CLOSED" =>
         /\ breaker.failures < BreakerThreshold
         /\ tried <= breaker.failures + 1
         /\ ~Sending => tried <= breaker.failures
    /\ breaker.state = "HALF_OPEN" => tried <= 1 /\ (~Sending => tried = 0)
    /\ breaker.state = "OPEN" => tried = 0 /\ ~Sending

IInv == TypeOK /\ Own /\ Counted

\* While t is in the critical section nobody else has sent a request.
LEMMA OthersNotSending ==
    ASSUME TypeOK, Own, NEW t \in Threads, at[t].pc \in Critical
    PROVE  \A u \in Threads \ {t} : at[u].pc # "sent"
  BY DEF Own, Critical

\* A step that neither sends, nor is answered, nor touches the breaker.
LEMMA CountedQuiet ==
    ASSUME Counted, UNCHANGED <<breaker, tried>>, Sending' = Sending
    PROVE  Counted'
  BY DEF Counted

\* What a thread does outside the mutex neither sends nor touches the breaker.
LEMMA QuietStep ==
    ASSUME TypeOK, Own, NEW t \in Threads, ThreadStep(t), ~Inside(t)
    PROVE  Sending' = Sending /\ UNCHANGED <<breaker, tried>>
<1>1. Moves(t)
  BY StepMoves
<1>2. at[t].pc # "sent" /\ at'[t].pc # "sent"
  <2>1. at[t].pc # "sent"
    BY DEF ThreadStep, BeginFetch, BeginSession, TakeLoginLock, Acquire,
       CoolingDown, UseCached, StartRefresh, EnterLogin, EnterForce, EnterCached,
       EnterClear, Waiting, Outside, Update, RequestOK, RequestFails,
       RequestRaises, TokenError, HandleTokenError, RefreshGaveUp
  <2>2. "sent" \in Critical
    BY DEF Critical
  <2> QED
    BY <2>1, <2>2, BeginMoves, AcquireMoves, OutsideMoves DEF ThreadStep
<1>3. Sending' = Sending
  BY <1>1, <1>2 DEF Sending, Moves
<1>4. UNCHANGED <<breaker, tried>>
  BY DEF ThreadStep, BeginFetch, BeginSession, TakeLoginLock, Acquire,
     CoolingDown, UseCached, StartRefresh, EnterLogin, EnterForce, EnterCached,
     EnterClear, Outside, Update, RequestOK, RequestFails,
     RequestRaises, TokenError, HandleTokenError, RefreshGaveUp, breakerVars
<1> QED BY <1>3, <1>4

LEMMA CountedStep ==
    ASSUME IInv, [Next]_vars
    PROVE  Counted'
<1>1. TypeOK /\ Own /\ Counted
  BY DEF IInv
<1> USE DEF breakerVars
<1>2. ASSUME NEW t \in Threads, ThreadStep(t), ~Inside(t) PROVE Counted'
  BY <1>1, <1>2, QuietStep, CountedQuiet
<1>3. ASSUME NEW t \in Threads, Inside(t) PROVE Counted'
  <2>1. Moves(t) /\ at[t].pc \in Critical /\ (at'[t].pc = "sent" => LoginSend(t))
    BY <1>1, <1>3, InsideMoves
  <2>2. \A u \in Threads \ {t} : at[u].pc # "sent" /\ at'[u].pc # "sent"
    BY <1>1, <2>1, OthersNotSending DEF Moves
  <2>3. Sending = (at[t].pc = "sent")
    BY <2>2 DEF Sending
  <2>4. Sending' = (at'[t].pc = "sent")
    BY <2>2 DEF Sending
  <2>5. /\ breaker \in [state : {"CLOSED", "OPEN", "HALF_OPEN"},
                         failures : 0 .. BreakerThreshold]
        /\ tried \in Nat
    BY <1>1 DEF TypeOK
  <2>6. CASE LoginSend(t)
    <3>1. at[t].pc = "login" /\ CanAttempt /\ tried' = tried + 1
      BY <2>6 DEF LoginSend
    <3>2. at'[t].pc = "sent"
      BY <1>1, <2>6, Before DEF LoginSend, Go, Frame
    <3>3. ~Sending /\ Sending'
      BY <2>3, <2>4, <3>1, <3>2
    <3>4. CASE breaker.state = "OPEN"
      <4>1. breaker'.state = "HALF_OPEN"
        BY <2>5, <3>1, <3>4 DEF CanAttempt
      <4>2. QED BY <1>1, <2>5, <3>1, <3>3, <3>4, <4>1 DEF Counted
    <3>5. CASE breaker.state # "OPEN"
      <4>1. breaker' = breaker
        BY <2>5, <3>1, <3>5 DEF CanAttempt
      <4>2. QED BY <1>1, <2>5, <3>1, <3>3, <3>5, <4>1 DEF Counted
    <3>6. QED BY <3>4, <3>5
  <2>7. CASE ~LoginSend(t)
    <3>1. ~Sending'
      BY <2>1, <2>4, <2>7
    <3>2. CASE LoginOK(t) \/ LoginEmpty(t)
      <4>1. breaker' = [state |-> "CLOSED", failures |-> 0] /\ tried' = 0
        BY <3>2 DEF LoginOK, LoginEmpty, Closed
      <4>2. QED BY <3>1, <4>1, BoundsAssumption DEF Counted
    <3>3. CASE LoginFails(t)
      <4>1. Sending /\ RecordFailure
        BY <2>3, <3>3 DEF LoginFails
      <4> DEFINE n == breaker.failures + 1
      <4>2. CASE n >= BreakerThreshold \/ breaker.state = "HALF_OPEN"
        <5>1. breaker'.state = "OPEN" /\ tried' = 0
          BY <4>1, <4>2 DEF RecordFailure
        <5>2. QED BY <3>1, <5>1 DEF Counted
      <4>3. CASE ~(n >= BreakerThreshold \/ breaker.state = "HALF_OPEN")
        <5>1. breaker' = [state |-> breaker.state, failures |-> n] /\ tried' = tried
          BY <4>1, <4>3 DEF RecordFailure
        <5>2. breaker.state = "CLOSED"
          BY <1>1, <2>5, <4>1, <4>3 DEF Counted
        <5>3. breaker'.state = "CLOSED" /\ breaker'.failures = n
          BY <5>1, <5>2
        <5>4. n < BreakerThreshold /\ tried' <= n
          BY <1>1, <2>5, <4>3, <5>1, <5>2, BoundsAssumption DEF Counted
        <5>5. QED BY <2>5, <3>1, <5>1, <5>3, <5>4 DEF Counted
      <4>4. QED BY <4>2, <4>3
    <3>4. CASE LoginUnsent(t)
      <4>1. at[t].pc = "login" /\ CanAttempt /\ tried' = tried
        BY <3>4 DEF LoginUnsent
      <4>2. ~Sending
        BY <2>3, <4>1
      <4>3. CASE breaker.state = "OPEN"
        <5>1. breaker'.state = "HALF_OPEN"
          BY <2>5, <4>1, <4>3 DEF CanAttempt
        <5>2. QED BY <1>1, <2>5, <3>1, <4>1, <4>2, <4>3, <5>1 DEF Counted
      <4>4. CASE breaker.state # "OPEN"
        <5>1. breaker' = breaker
          BY <2>5, <4>1, <4>4 DEF CanAttempt
        <5>2. QED BY <1>1, <3>1, <4>1, <4>2, <4>4, <5>1 DEF Counted
      <4>5. QED BY <4>3, <4>4
    <3>5. CASE /\ at[t].pc # "sent" /\ UNCHANGED <<breaker, tried>>
      <4>1. ~Sending
        BY <2>3, <3>5
      <4>2. Sending' = Sending
        BY <3>1, <4>1 DEF Sending
      <4>3. QED BY <1>1, <3>5, <4>2, CountedQuiet
    <3>6. QED
      BY <1>3, <2>7, <3>2, <3>3, <3>4, <3>5
      DEF Inside, Reload, RefreshOK, RefreshRejected, RefreshFails, ProbeOK,
          ProbeFails, LoginBlocked, Store, Apply
  <2>8. QED BY <2>6, <2>7
<1>4. CASE Environment
  <2>1. UNCHANGED <<breaker, tried, at>>
    BY <1>1, <1>4, EnvironmentMoves
  <2>2. Sending' = Sending
    BY <2>1 DEF Sending
  <2>3. QED BY <1>1, <2>1, <2>2, CountedQuiet
<1>5. CASE UNCHANGED vars
  <2>1. UNCHANGED <<breaker, tried, at>>
    BY <1>5 DEF vars
  <2>2. Sending' = Sending
    BY <2>1 DEF Sending
  <2>3. QED BY <1>1, <2>1, <2>2, CountedQuiet
<1>6. QED BY <1>2, <1>3, <1>4, <1>5 DEF Next, ThreadStep

-----------------------------------------------------------------------------
(***************************************************************************)
(* The abstract breaker: each answer of the broker is one of its steps, and *)
(* so is each attempt that finds the time of an open breaker over.         *)
(***************************************************************************)

\* A step that neither sends, nor is answered, nor touches the breaker, is a
\* stutter of the abstract one.
LEMMA BreakerQuiet ==
    ASSUME UNCHANGED <<breaker, tried>>, Sending' = Sending
    PROVE  UNCHANGED Breaker!vars
  BY DEF Breaker!vars, Sending

\* can_attempt, in the fields of the breaker.
LEMMA AttemptState ==
    ASSUME TypeOK, CanAttempt
    PROVE  /\ breaker'.failures = breaker.failures
           /\ breaker'.state = IF breaker.state = "OPEN" THEN "HALF_OPEN"
                               ELSE breaker.state
<1>1. breaker \in [state : {"CLOSED", "OPEN", "HALF_OPEN"},
                   failures : 0 .. BreakerThreshold]
  BY DEF TypeOK
<1>2. QED BY <1>1 DEF CanAttempt

\* A login that is sent, found unsendable or answered is a step of the breaker.
LEMMA BreakerMoves ==
    ASSUME IInv, NEW t \in Threads, Inside(t)
    PROVE  [Breaker!Next]_(Breaker!vars)
<1> DEFINE Goal == [Breaker!Next]_(Breaker!vars)
<1>1. TypeOK /\ Own /\ Counted
  BY DEF IInv
<1>2. Moves(t) /\ at[t].pc \in Critical /\ (at'[t].pc = "sent" => LoginSend(t))
  BY <1>1, InsideMoves
<1>3. \A u \in Threads \ {t} : at[u].pc # "sent" /\ at'[u].pc # "sent"
  BY <1>1, <1>2, OthersNotSending DEF Moves
<1>4. Sending = (at[t].pc = "sent") /\ Sending' = (at'[t].pc = "sent")
  BY <1>3 DEF Sending
<1>5. /\ breaker.state \in {"CLOSED", "OPEN", "HALF_OPEN"}
      /\ breaker.failures \in 0 .. BreakerThreshold
      /\ tried \in Nat
  BY <1>1 DEF TypeOK
<1>6. CASE LoginSend(t)
  <2>1. at[t].pc = "login" /\ CanAttempt /\ tried' = tried + 1
    BY <1>6 DEF LoginSend
  <2>2. at'[t].pc = "sent"
    BY <1>1, <1>6, Before DEF LoginSend, Go, Frame
  <2>3. ~Sending /\ Sending'
    BY <1>4, <2>1, <2>2
  <2>4. Breaker!Send
    BY <1>1, <2>1, <2>3, AttemptState DEF Breaker!Send, Sending
  <2> QED BY <2>4 DEF Breaker!Next
<1>7. CASE LoginUnsent(t)
  <2>1. at[t].pc = "login" /\ CanAttempt /\ tried' = tried
    BY <1>7 DEF LoginUnsent
  <2>2. ~Sending /\ (Sending' => LoginSend(t))
    BY <1>2, <1>4, <2>1
  <2>3. CASE Sending'
    BY <1>6, <2>2, <2>3
  <2>4. CASE ~Sending' /\ breaker.state = "OPEN"
    <3>1. Breaker!Elapse
      BY <1>1, <2>1, <2>2, <2>4, AttemptState DEF Breaker!Elapse, Sending
    <3> QED BY <3>1 DEF Breaker!Next
  <2>5. CASE ~Sending' /\ breaker.state # "OPEN"
    <3>1. UNCHANGED Breaker!vars
      BY <1>1, <2>1, <2>2, <2>5, AttemptState DEF Breaker!vars, Sending
    <3> QED BY <3>1
  <2> QED BY <2>3, <2>4, <2>5
<1>8. ASSUME at[t].pc = "sent" PROVE Sending /\ ~Sending'
  <2>1. ~LoginSend(t)
    BY <1>8 DEF LoginSend
  <2> QED BY <1>2, <1>4, <1>8, <2>1
<1>9. CASE LoginOK(t) \/ LoginEmpty(t)
  <2>1. breaker' = [state |-> "CLOSED", failures |-> 0] /\ tried' = 0
    BY <1>9 DEF LoginOK, LoginEmpty, Closed
  <2>2. Sending /\ ~Sending'
    BY <1>8, <1>9 DEF LoginOK, LoginEmpty
  <2>3. Breaker!Succeed
    BY <2>1, <2>2 DEF Breaker!Succeed, Sending
  <2> QED BY <2>3 DEF Breaker!Next
<1>10. CASE LoginFails(t)
  <2> DEFINE n == breaker.failures + 1
  <2>1. RecordFailure /\ Sending /\ ~Sending'
    BY <1>8, <1>10 DEF LoginFails
  <2>2. breaker.state # "OPEN"
    BY <1>1, <2>1 DEF Counted
  <2>3. breaker.state = "CLOSED" => n <= BreakerThreshold
    BY <1>1, <1>5, BoundsAssumption DEF Counted
  <2>4. CASE n >= BreakerThreshold \/ breaker.state = "HALF_OPEN"
    <3>1. /\ breaker'.state = "OPEN" /\ breaker'.failures = BreakerThreshold
          /\ tried' = 0
      BY <2>1, <2>4 DEF RecordFailure
    <3>2. breaker.state = "HALF_OPEN" \/ breaker.failures + 1 = BreakerThreshold
      BY <1>5, <2>2, <2>3, <2>4, BoundsAssumption
    <3>3. Breaker!FailOpens
      BY <2>1, <3>1, <3>2 DEF Breaker!FailOpens, Sending
    <3> QED BY <3>3 DEF Breaker!Next
  <2>5. CASE ~(n >= BreakerThreshold \/ breaker.state = "HALF_OPEN")
    <3>1. /\ breaker'.state = breaker.state /\ breaker'.failures = n
          /\ tried' = tried
      BY <2>1, <2>5 DEF RecordFailure
    <3>2. breaker.state = "CLOSED" /\ breaker.failures + 1 < BreakerThreshold
      BY <1>5, <2>2, <2>5, BoundsAssumption
    <3>3. Breaker!Fail
      BY <2>1, <3>1, <3>2 DEF Breaker!Fail, Sending
    <3> QED BY <3>3 DEF Breaker!Next
  <2> QED BY <2>4, <2>5
<1>11. CASE at[t].pc # "sent" /\ UNCHANGED <<breaker, tried>>
  <2>1. CASE Sending'
    BY <1>2, <1>4, <1>6, <2>1
  <2>2. CASE ~Sending'
    <3>1. UNCHANGED Breaker!vars
      BY <1>4, <1>11, <2>2, BreakerQuiet
    <3> QED BY <3>1
  <2> QED BY <2>1, <2>2
<1> QED
  BY <1>6, <1>7, <1>9, <1>10, <1>11
  DEF Inside, Reload, RefreshOK, RefreshRejected, RefreshFails, ProbeOK,
      ProbeFails, LoginBlocked, Store, Apply, breakerVars

\* Every step is one of the abstract breaker or leaves it alone.
LEMMA BreakerStep ==
    ASSUME IInv, [Next]_vars
    PROVE  [Breaker!Next]_(Breaker!vars)
<1>1. TypeOK /\ Own /\ Counted
  BY DEF IInv
<1> USE DEF breakerVars
<1>2. ASSUME NEW t \in Threads, ThreadStep(t), ~Inside(t)
      PROVE  [Breaker!Next]_(Breaker!vars)
  <2>1. Sending' = Sending /\ UNCHANGED <<breaker, tried>>
    BY <1>1, <1>2, QuietStep
  <2>2. UNCHANGED Breaker!vars
    BY <2>1, BreakerQuiet
  <2> QED BY <2>2
<1>3. ASSUME NEW t \in Threads, Inside(t)
      PROVE  [Breaker!Next]_(Breaker!vars)
  BY <1>3, BreakerMoves
<1>4. CASE Environment \/ UNCHANGED vars
  <2>1. UNCHANGED <<breaker, tried, at>>
    BY <1>1, <1>4, EnvironmentMoves DEF vars
  <2>2. Sending' = Sending
    BY <2>1 DEF Sending
  <2>3. UNCHANGED Breaker!vars
    BY <2>1, <2>2, BreakerQuiet
  <2> QED BY <2>3
<1> QED BY <1>2, <1>3, <1>4 DEF Next, ThreadStep

-----------------------------------------------------------------------------
(***************************************************************************)
(* The theorems.                                                           *)
(***************************************************************************)

LEMMA InitInv == Init => IInv
<1> SUFFICES ASSUME Init PROVE IInv
  OBVIOUS
<1>1. \A t \in Threads : at[t] = Idle
  BY DEF Init
<1>2. TypeOK
  <2>1. at \in [Threads -> Frame]
    BY IdleFrame DEF Init
  <2>2. DataOK
    <3>1. 0 \in 0 .. MaxSessions /\ 0 \in 0 .. AuthThreshold - 1
          /\ 0 \in 0 .. BreakerThreshold
      BY BoundsAssumption
    <3>2. breaker \in [state : {"CLOSED", "OPEN", "HALF_OPEN"},
                       failures : 0 .. BreakerThreshold]
      BY <3>1 DEF Init
    <3>3. QED BY <3>1, <3>2, FrameRanges DEF Init, DataOK
  <2>3. QED BY <2>1, <2>2 DEF Init, TypeOK, DataOK
<1>3. Own
  BY <1>1, IdleFrame, NotCritical DEF Own
<1>4. Counted
  BY <1>1, IdleFrame, BoundsAssumption DEF Init, Counted, Sending
<1>5. QED BY <1>2, <1>3, <1>4 DEF IInv

\* The inductive invariant: types, the owner of the mutex, and the count of
\* the requests against the breaker's.
THEOREM Invariance == Spec => []IInv
<1>1. IInv /\ [Next]_vars => IInv'
  BY TypeStep, OwnStep, CountedStep DEF IInv
<1>2. QED BY InitInv, <1>1, PTL DEF Spec

\* The state of connector, token manager and breaker keeps its types: the
\* breaker's count stays within its threshold, the failures below theirs.
THEOREM TypeCorrect == Spec => []TypeOK
<1>1. IInv => TypeOK
  BY DEF IInv
<1>2. QED BY Invariance, <1>1, PTL

\* One thread at a time refreshes or logs in, and none during the cooldown.
THEOREM CriticalSection == Spec => []OneAtATimeUnlessCooling
<1>1. IInv => OneAtATimeUnlessCooling
  BY DEF IInv, Own, OneAtATimeUnlessCooling
<1>2. QED BY Invariance, <1>1, PTL

\* The breaker and the threads that log in through it are the documented state
\* machine, used by one client at a time: five consecutive failures open it,
\* one test attempt follows, and its answer closes it or opens it again.
THEOREM Refinement == Spec => KeepsBreaker
<1>1. Init => Breaker!Init
  BY IdleFrame DEF Init, Breaker!Init
<1>2. IInv /\ [Next]_vars => [Breaker!Next]_(Breaker!vars)
  BY BreakerStep
<1> QED BY <1>1, <1>2, Invariance, PTL DEF Spec, KeepsBreaker, Breaker!Spec

\* The logins the state of the breaker allows: the threshold while CLOSED,
\* "single test attempt" in HALF_OPEN (token_manager.py:536), none while OPEN.
LoginsBounded ==
    tried <= CASE breaker.state = "CLOSED" -> BreakerThreshold
               [] breaker.state = "HALF_OPEN" -> 1
               [] breaker.state = "OPEN" -> 0

\* Whatever the threads do, a failing broker is sent no more logins than the
\* breaker's state allows.
THEOREM BreakerBound == Spec => []LoginsBounded
<1>1. IInv => LoginsBounded
  <2> SUFFICES ASSUME IInv PROVE LoginsBounded
    OBVIOUS
  <2>1. Counted /\ tried \in Nat /\ breaker.failures \in Nat
        /\ breaker.state \in {"CLOSED", "OPEN", "HALF_OPEN"}
    BY DEF IInv, TypeOK
  <2>2. CASE breaker.state = "CLOSED"
    <3>1. tried <= BreakerThreshold
      BY <2>1, <2>2, BoundsAssumption DEF Counted
    <3>2. QED BY <2>2, <3>1 DEF LoginsBounded
  <2>3. CASE breaker.state = "HALF_OPEN"
    BY <2>1, <2>3 DEF Counted, LoginsBounded
  <2>4. CASE breaker.state = "OPEN"
    BY <2>1, <2>4 DEF Counted, LoginsBounded
  <2>5. QED BY <2>1, <2>2, <2>3, <2>4
<1>2. QED BY Invariance, <1>1, PTL
=============================================================================
