------------------------ MODULE BrokerSessionProofs ------------------------
(***************************************************************************)
(* Safety of the broker session and of the routing between the brokers,    *)
(* for any number of threads and tokens.  A frame is well formed when it   *)
(* names the broker it asks (FrameOK); a breaker counts failures that were *)
(* under way when it opened, so what it has counted and what is still      *)
(* under way stay within the number of processes (BreakerInv).             *)
(***************************************************************************)
EXTENDS BrokerSession, FiniteSetTheorems, TLAPS

\* A routed call that has passed the breaker of b and not been answered.
Asking == {"create", "read", "sent"}
UnderWay(b) ==
    {p \in Procs : at[p].pc \in Asking /\ ~at[p].direct /\ Head(at[p].left) = b}

\* A frame that asks a broker names it, and only a routed call has failed.
FrameOK(f) ==
    /\ f \in Frame
    /\ f.pc \in Asking => f.left # <<>>
    /\ f.kind # "none" => f.pc \in Asking \cup {"next"}

FrameInv == \A p \in Procs : FrameOK(at[p])

\* A breaker that is closed has counted nothing, and one that is open counts
\* only the calls that were under way.
BreakerInv ==
    \A b \in Brokers :
        /\ b \notin open => failed[b] = 0
        /\ failed[b] + Cardinality(UnderWay(b)) <= Cardinality(Procs)

IInv == TypeOK /\ FrameInv /\ BreakerInv

-----------------------------------------------------------------------------
(***************************************************************************)
(* Frames.                                                                 *)
(***************************************************************************)

\* A process is given a frame: the others keep theirs.
LEMMA GoFrame ==
  ASSUME TypeOK, FrameInv, NEW p \in Procs, NEW f, FrameOK(f), Go(p, f)
  PROVE  /\ at' \in [Procs -> Frame] /\ FrameInv'
         /\ at'[p] = f /\ \A q \in Procs \ {p} : at'[q] = at[q]
<1>1. at \in [Procs -> Frame] /\ f \in Frame
  BY DEF TypeOK, FrameOK
<1>2. at' = [at EXCEPT ![p] = f]
  BY DEF Go
<1>3. at' \in [Procs -> Frame]
  BY <1>1, <1>2
<1>4. at'[p] = f /\ \A q \in Procs \ {p} : at'[q] = at[q]
  BY <1>1, <1>2
<1> QED BY <1>3, <1>4 DEF FrameInv

\* The frames of a process that is idle, or that starts.
LEMMA IdleFrames ==
  /\ FrameOK(Idle) /\ FrameOK(Down)
  /\ Idle.pc = "idle" /\ Down.pc = "down"
  /\ Idle.kind = "none" /\ Down.kind = "none"
BY DEF FrameOK, Frame, Idle, Down, Asking, Row, Empty, SomeToken, Status

\* The brokers a call has left to ask.
Lefts == {<<>>, <<"smartapi">>, <<"upstox">>, <<"upstox", "smartapi">>}

\* After the first of them there is SmartAPI or nobody.
LEMMA TailLeft ==
  ASSUME NEW f \in Frame, f.left # <<>>
  PROVE  Tail(f.left) \in Lefts
<1>1. f.left \in Lefts
  BY DEF Frame, Lefts
<1>2. /\ Tail(<<"upstox", "smartapi">>) = <<"smartapi">>
      /\ Tail(<<"smartapi">>) = <<>> /\ Tail(<<"upstox">>) = <<>>
  OBVIOUS
<1> QED BY <1>1, <1>2 DEF Lefts

\* A frame of a call that goes on to the next broker.
LEMMA NextFrame ==
  ASSUME NEW f \in Frame, NEW l \in Lefts, NEW kind \in {"none", "auth"}
  PROVE  FrameOK([f EXCEPT !.pc = "next", !.left = l, !.kind = kind])
<1>1. [f EXCEPT !.pc = "next", !.left = l, !.kind = kind] \in Frame
  BY DEF Frame, Lefts
<1>2. [f EXCEPT !.pc = "next", !.left = l, !.kind = kind].pc = "next"
  BY DEF Frame
<1> QED BY <1>1, <1>2 DEF FrameOK, Asking

\* What a frame may say it carries out.
CallNames == {"none", "login", "ensure", "data", "subscribe", "unsubscribe",
              "callback", "disconnect"}

\* A call that enters the router has its frame, and asks nobody yet.
LEMMA EnterFrame ==
  ASSUME TypeOK, FrameInv, NEW p \in Procs, NEW call \in CallNames,
         Enter(p, call)
  PROVE  /\ at' \in [Procs -> Frame] /\ FrameInv'
         /\ at'[p].pc \in {"next", "plan"} /\ at'[p].call = call
         /\ \A q \in Procs \ {p} : at'[q] = at[q]
<1> DEFINE f == [Idle EXCEPT !.pc = "next", !.call = call, !.kind = "auth"]
           g == [Idle EXCEPT !.pc = "plan", !.call = call]
<1>1. FrameOK(f) /\ f.pc = "next" /\ f.call = call
  BY DEF FrameOK, Frame, Idle, Empty, Row, SomeToken, Status, Asking, CallNames
<1>2. FrameOK(g) /\ g.pc = "plan" /\ g.call = call
  BY DEF FrameOK, Frame, Idle, Empty, Row, SomeToken, Status, Asking, CallNames
<1>3. Go(p, f) \/ Go(p, g)
  BY DEF Enter
<1> HIDE DEF f, g
<1> QED BY <1>1, <1>2, <1>3, GoFrame

\* Every step leaves well-formed frames.
LEMMA FramesStep ==
  ASSUME TypeOK, FrameInv, [Next]_vars
  PROVE  at' \in [Procs -> Frame] /\ FrameInv'
<1> DEFINE Goal == at' \in [Procs -> Frame] /\ FrameInv'
<1> USE DEF Asking
<1>0. /\ \A p \in Procs : FrameOK(at[p]) /\ at[p] \in Frame
      /\ row \in Row /\ Loop \in Procs /\ \A t \in Threads : t \in Procs
  BY DEF FrameInv, FrameOK, TypeOK, Procs
<1>1. ASSUME NEW t \in Threads, BeginEnsure(t) \/ BeginData(t) \/ BeginLogin(t)
      PROVE  Goal
  BY <1>0, <1>1, EnterFrame DEF BeginEnsure, BeginData, BeginLogin, CallNames
<1>2a. ASSUME NEW p \in Procs, Check(p) PROVE Goal
  <2>1. at[p].call \in CallNames
    BY <1>0 DEF Frame, CallNames
  <2> QED BY <1>0, <1>2a, <2>1, EnterFrame DEF Check
<1>2b. ASSUME BeginUnsubscribe PROVE Goal
  BY <1>0, <1>2b, EnterFrame DEF BeginUnsubscribe, CallNames
<1>3. ASSUME BeginStream PROVE Goal
  <2> DEFINE f == [Idle EXCEPT !.pc = "check", !.call = "subscribe"]
  <2>1. FrameOK(f)
    BY <1>0, <1>3 DEF FrameOK, Frame, Idle, Empty, Row, SomeToken, Status,
       BeginStream, Subscribe
  <2>2. Go(Loop, f)
    BY <1>3 DEF BeginStream, Subscribe
  <2> HIDE DEF f
  <2> QED BY <1>0, <2>1, <2>2, GoFrame
<1>4. ASSUME NEW p \in Procs, Plan(p) PROVE Goal
  <2> DEFINE l == IF active = "upstox" THEN <<"upstox", "smartapi">>
                                       ELSE <<"smartapi">>
             f == [at[p] EXCEPT !.pc = "next", !.left = l]
  <2>1. Go(p, f)
    BY <1>4 DEF Plan
  <2>2. l \in Lefts
    BY DEF Lefts
  <2> HIDE DEF l
  <2>3. f = [at[p] EXCEPT !.pc = "next", !.left = l, !.kind = at[p].kind]
    BY <1>0 DEF Frame
  <2>4. at[p] \in Frame /\ at[p].kind \in {"none", "auth"}
    BY <1>0 DEF Frame
  <2>5. FrameOK(f)
    BY <2>2, <2>3, <2>4, NextFrame
  <2> HIDE DEF f
  <2> QED BY <1>0, <2>1, <2>5, GoFrame
<1>5. ASSUME NEW p \in Procs, Ask(p) PROVE Goal
  <2> DEFINE f == [at[p] EXCEPT !.left = Tail(@)]
             g == [at[p] EXCEPT !.pc = IF Head(at[p].left) = "upstox"
                                       THEN "create" ELSE "sent"]
  <2>1. /\ at[p] \in Frame /\ at[p].pc = "next" /\ at[p].left # <<>>
        /\ at[p].kind \in {"none", "auth"}
    BY <1>0, <1>5 DEF Ask, Frame
  <2>2. f = [at[p] EXCEPT !.pc = "next", !.left = Tail(at[p].left),
                          !.kind = at[p].kind]
    BY <2>1 DEF Frame
  <2>3. FrameOK(f)
    BY <2>1, <2>2, NextFrame, TailLeft
  <2>4. FrameOK(g)
    BY <2>1 DEF FrameOK, Frame
  <2>5. Go(p, f) \/ Go(p, g)
    BY <1>5 DEF Ask
  <2> HIDE DEF f, g
  <2> QED BY <1>0, <2>3, <2>4, <2>5, GoFrame
<1>6. ASSUME NEW p \in Procs, GiveUp(p) PROVE Goal
  <2> DEFINE f == [at[p] EXCEPT !.pc = "create", !.direct = TRUE,
                             !.left = <<"upstox">>]
             g == Idle
  <2>1. FrameOK(f)
    BY <1>0, <1>6 DEF FrameOK, Frame, GiveUp
  <2>2. FrameOK(g)
    BY <1>0, <1>6 DEF FrameOK, Frame, Idle, Empty, Row, SomeToken, Status,
       GiveUp
  <2>3. Go(p, f) \/ Go(p, g)
    BY <1>6 DEF GiveUp
  <2> HIDE DEF f, g
  <2> QED BY <1>0, <2>1, <2>2, <2>3, GoFrame
<1>7. ASSUME NEW p \in Procs, Create(p) PROVE Goal
  <2> DEFINE f == [at[p] EXCEPT !.pc = "read", !.seen = row]
             g == [at[p] EXCEPT !.pc = "sent"]
  <2>1. FrameOK(f)
    BY <1>0, <1>7 DEF FrameOK, Frame, Create, GoTo
  <2>2. FrameOK(g)
    BY <1>0, <1>7 DEF FrameOK, Frame, Create, GoTo
  <2>3. Go(p, f) \/ Go(p, g)
    BY <1>7 DEF Create, GoTo
  <2> HIDE DEF f, g
  <2> QED BY <1>0, <2>1, <2>2, <2>3, GoFrame
<1>8. ASSUME NEW p \in Procs, Read(p) PROVE Goal
  <2> DEFINE f == [at[p] EXCEPT !.pc = "sent", !.seen = Empty]
  <2>1. FrameOK(f)
    BY <1>0, <1>8 DEF FrameOK, Frame, Empty, Row, SomeToken, Status, Read
  <2>2. Go(p, f)
    BY <1>8 DEF Read
  <2> HIDE DEF f
  <2> QED BY <1>0, <2>1, <2>2, GoFrame
<1>9. ASSUME NEW p \in Procs, AnswerOK(p) PROVE Goal
  <2> DEFINE f == Idle
  <2>1. FrameOK(f)
    BY <1>0, <1>9 DEF FrameOK, Frame, Idle, Empty, Row, SomeToken, Status,
       AnswerOK
  <2>2. Go(p, f)
    BY <1>9 DEF AnswerOK
  <2> HIDE DEF f
  <2> QED BY <1>0, <2>1, <2>2, GoFrame
<1>10. ASSUME NEW p \in Procs, AnswerFails(p) PROVE Goal
  <2> DEFINE f(kind) == [at[p] EXCEPT !.pc = "next", !.left = Tail(@), !.kind = kind]
  <2>0. at[p] \in Frame /\ Tail(at[p].left) \in Lefts
    BY <1>0, <1>10, TailLeft DEF FrameOK, AnswerFails
  <2>1. ASSUME NEW kind \in {"none", "auth"} PROVE FrameOK(f(kind))
    BY <2>0, NextFrame
  <2>2. Go(p, Idle) \/ \E kind \in {"none", "auth"} : Go(p, f(kind))
    BY <1>10 DEF AnswerFails
  <2> HIDE DEF f
  <2> QED BY <1>0, <2>1, <2>2, GoFrame, IdleFrames
<1>11. ASSUME BeginCallback PROVE Goal
  <2> DEFINE f(t) == [Idle EXCEPT !.pc = "commit", !.call = "callback",
                                  !.new = t, !.seen = row]
  <2>1. \A t \in Tokens : FrameOK(f(t))
    BY <1>0 DEF FrameOK, Frame, Idle, Empty, Row, SomeToken, Status
  <2>2. PICK t \in Tokens : Go(Loop, f(t))
    BY <1>11 DEF BeginCallback
  <2> HIDE DEF f
  <2> QED BY <1>0, <2>1, <2>2, GoFrame
<1>12. ASSUME BeginDisconnect PROVE Goal
  <2> DEFINE f == [Idle EXCEPT !.pc = "commit", !.call = "disconnect", !.seen = row]
             g == [Idle EXCEPT !.pc = "close", !.call = "disconnect", !.seen = Empty]
  <2>1. FrameOK(f)
    BY <1>0, <1>12 DEF FrameOK, Frame, Idle, Empty, Row, SomeToken, Status,
       BeginDisconnect
  <2>2. FrameOK(g)
    BY <1>0, <1>12 DEF FrameOK, Frame, Idle, Empty, Row, SomeToken, Status,
       BeginDisconnect
  <2>3. Go(Loop, f) \/ Go(Loop, g)
    BY <1>12 DEF BeginDisconnect
  <2> HIDE DEF f, g
  <2> QED BY <1>0, <2>1, <2>2, <2>3, GoFrame
<1>13. ASSUME CommitSave PROVE Goal
  <2> DEFINE f == [at[Loop] EXCEPT !.pc = "saved", !.seen = Empty]
  <2>1. FrameOK(f)
    BY <1>0, <1>13 DEF FrameOK, Frame, Empty, Row, SomeToken, Status,
       CommitSave
  <2>2. Go(Loop, f)
    BY <1>13 DEF CommitSave
  <2> HIDE DEF f
  <2> QED BY <1>0, <2>1, <2>2, GoFrame
<1>14. ASSUME Saved PROVE Goal
  <2> DEFINE f == [at[Loop] EXCEPT !.pc = "apply"]
  <2>1. FrameOK(f)
    BY <1>0, <1>14 DEF FrameOK, Frame, Saved, GoTo
  <2>2. Go(Loop, f)
    BY <1>14 DEF Saved, GoTo
  <2> HIDE DEF f
  <2> QED BY <1>0, <2>1, <2>2, GoFrame
<1>15. ASSUME Apply PROVE Goal
  <2> DEFINE f == Idle
             g == [Idle EXCEPT !.pc = "check", !.call = "subscribe"]
  <2>1. FrameOK(f)
    BY <1>0, <1>15 DEF FrameOK, Frame, Idle, Empty, Row, SomeToken, Status,
       Apply, Subscribe
  <2>2. FrameOK(g)
    BY <1>0, <1>15 DEF FrameOK, Frame, Idle, Empty, Row, SomeToken, Status,
       Apply, Subscribe
  <2>3. Go(Loop, f) \/ Go(Loop, g)
    BY <1>15 DEF Apply, Subscribe
  <2> HIDE DEF f, g
  <2> QED BY <1>0, <2>1, <2>2, <2>3, GoFrame
<1>16. ASSUME CommitDisconnect PROVE Goal
  <2> DEFINE f == [at[Loop] EXCEPT !.pc = "close", !.seen = Empty]
  <2>1. FrameOK(f)
    BY <1>0, <1>16 DEF FrameOK, Frame, Empty, Row, SomeToken, Status,
       CommitDisconnect
  <2>2. Go(Loop, f)
    BY <1>16 DEF CommitDisconnect
  <2> HIDE DEF f
  <2> QED BY <1>0, <2>1, <2>2, GoFrame
<1>17. ASSUME CloseConnector PROVE Goal
  <2> DEFINE f == [at[Loop] EXCEPT !.pc = "forget"]
  <2>1. FrameOK(f)
    BY <1>0, <1>17 DEF FrameOK, Frame, CloseConnector, GoTo
  <2>2. Go(Loop, f)
    BY <1>17 DEF CloseConnector, GoTo
  <2> HIDE DEF f
  <2> QED BY <1>0, <2>1, <2>2, GoFrame
<1>18. ASSUME Forget PROVE Goal
  <2> DEFINE f == Idle
  <2>1. FrameOK(f)
    BY <1>0, <1>18 DEF FrameOK, Frame, Idle, Empty, Row, SomeToken, Status,
       Forget
  <2>2. Go(Loop, f)
    BY <1>18 DEF Forget
  <2> HIDE DEF f
  <2> QED BY <1>0, <2>1, <2>2, GoFrame
<1>19. ASSUME Boot PROVE Goal
  <2> DEFINE f == Idle
             g == [Idle EXCEPT !.pc = "validate", !.seen = row]
  <2>1. FrameOK(f)
    BY <1>0, <1>19 DEF FrameOK, Frame, Idle, Empty, Row, SomeToken, Status,
       Boot
  <2>2. FrameOK(g)
    BY <1>0, <1>19 DEF FrameOK, Frame, Idle, Empty, Row, SomeToken, Status,
       Boot
  <2>3. Go(Loop, f) \/ Go(Loop, g)
    BY <1>19 DEF Boot
  <2> HIDE DEF f, g
  <2> QED BY <1>0, <2>1, <2>2, <2>3, GoFrame
<1>20. ASSUME ValidateOK PROVE Goal
  <2> DEFINE f == [at[Loop] EXCEPT !.pc = "start"]
  <2>1. FrameOK(f)
    BY <1>0, <1>20 DEF FrameOK, Frame, ValidateOK, GoTo
  <2>2. Go(Loop, f)
    BY <1>20 DEF ValidateOK, GoTo
  <2> HIDE DEF f
  <2> QED BY <1>0, <2>1, <2>2, GoFrame
<1>21. ASSUME ValidateFails PROVE Goal
  <2> DEFINE f == Idle
  <2>1. FrameOK(f)
    BY <1>0, <1>21 DEF FrameOK, Frame, Idle, Empty, Row, SomeToken, Status,
       ValidateFails
  <2>2. Go(Loop, f)
    BY <1>21 DEF ValidateFails
  <2> HIDE DEF f
  <2> QED BY <1>0, <2>1, <2>2, GoFrame
<1>22. ASSUME Start PROVE Goal
  <2> DEFINE f == Idle
             g == [Idle EXCEPT !.pc = "check", !.call = "subscribe"]
  <2>1. FrameOK(f)
    BY <1>0, <1>22 DEF FrameOK, Frame, Idle, Empty, Row, SomeToken, Status,
       Start, Subscribe
  <2>2. FrameOK(g)
    BY <1>0, <1>22 DEF FrameOK, Frame, Idle, Empty, Row, SomeToken, Status,
       Start, Subscribe
  <2>3. Go(Loop, f) \/ Go(Loop, g)
    BY <1>22 DEF Start, Subscribe
  <2> HIDE DEF f, g
  <2> QED BY <1>0, <2>1, <2>2, <2>3, GoFrame
<1>23. CASE Crash
  <2>1. at' = [p \in Procs |-> IF p = Loop THEN Down ELSE Idle]
    BY <1>23 DEF Crash, Fresh
  <2>2. Idle \in Frame /\ Down \in Frame
    BY IdleFrames DEF FrameOK
  <2> QED BY <2>1, <2>2, IdleFrames DEF FrameInv
<1>24. CASE UNCHANGED at
  BY <1>24 DEF FrameInv, TypeOK
<1> QED BY <1>1, <1>2a, <1>2b, <1>3, <1>4, <1>5, <1>6, <1>7, <1>8, <1>9, <1>10,
   <1>11,
   <1>12, <1>13, <1>14, <1>15, <1>16, <1>17, <1>18, <1>19, <1>20, <1>21, <1>22,
   <1>23, <1>24 DEF Next, Call, Serve, Startup, CooldownEnds, Elsewhere, vars


\* What a frame holds, field by field.
LEMMA FrameFields ==
  ASSUME TypeOK, FrameInv, NEW p \in Procs
  PROVE  /\ at[p] \in Frame
         /\ at[p].seen \in Row /\ at[p].seen.token \in SomeToken
         /\ at[p].seen.status \in Status
         /\ at[p].new \in SomeToken
         /\ at[p].pc \in Asking => Head(at[p].left) \in Brokers
<1>1. at[p] \in Frame /\ (at[p].pc \in Asking => at[p].left # <<>>)
  BY DEF FrameInv, FrameOK
<1>2. at[p].seen \in Row /\ at[p].new \in SomeToken /\ at[p].left \in Lefts
  BY <1>1 DEF Frame, Lefts
<1>3. at[p].seen.token \in SomeToken /\ at[p].seen.status \in Status
  BY <1>2 DEF Row
<1>4. ASSUME at[p].left # <<>> PROVE Head(at[p].left) \in Brokers
  BY <1>2, <1>4 DEF Lefts, Brokers
<1> QED BY <1>1, <1>2, <1>3, <1>4

\* What the worker and the table hold beside the frames.
Typed ==
    /\ row \in Row
    /\ status \in [Brokers -> Status]
    /\ token \in SomeToken
    /\ active \in Brokers
    /\ open \subseteq Brokers
    /\ failed \in [Brokers -> Nat]
    /\ conn \in SomeToken \cup {NoConnector}
    /\ up \in BOOLEAN

\* Every step keeps the state well typed.
LEMMA TypeOKStep ==
  ASSUME TypeOK, FrameInv, [Next]_vars
  PROVE  TypeOK'
<1> SUFFICES Typed'
  BY FramesStep DEF Typed, TypeOK
<1>0. Typed /\ Loop \in Procs /\ row.token \in SomeToken /\ row.status \in Status
  BY DEF TypeOK, Typed, Procs, Row
<1>a. \A p \in Procs : /\ at[p].seen.token \in SomeToken
                       /\ at[p].seen.status \in Status
                       /\ at[p].new \in SomeToken
                       /\ at[p].pc \in Asking => Head(at[p].left) \in Brokers
  BY FrameFields
<1> USE DEF Typed, Asking, managerVars, routerVars
<1>1. ASSUME NEW p \in Procs, NEW call, Enter(p, call) PROVE Typed'
  BY <1>0, <1>1 DEF Enter
<1>2. ASSUME NEW t \in Threads, BeginEnsure(t) \/ BeginData(t) \/ BeginLogin(t)
      PROVE  Typed'
  <2>1. t \in Procs
    BY DEF Procs
  <2> QED BY <1>1, <1>2, <2>1 DEF BeginEnsure, BeginData, BeginLogin
<1>2a. ASSUME NEW p \in Procs, Check(p) PROVE Typed'
  BY <1>1, <1>2a DEF Check
<1>2b. ASSUME BeginUnsubscribe PROVE Typed'
  BY <1>0, <1>1, <1>2b DEF BeginUnsubscribe
<1>3. ASSUME BeginStream PROVE Typed'
  BY <1>0, <1>a, <1>3 DEF BeginStream, Row, SomeToken, Status, Brokers
<1>4. ASSUME NEW p \in Procs, Plan(p) PROVE Typed'
  BY <1>0, <1>a, <1>4 DEF Plan, Row, SomeToken, Status, Brokers
<1>5. ASSUME NEW p \in Procs, Ask(p) PROVE Typed'
  BY <1>0, <1>a, <1>5 DEF Ask, Row, SomeToken, Status, Brokers
<1>6. ASSUME NEW p \in Procs, GiveUp(p) PROVE Typed'
  BY <1>0, <1>a, <1>6 DEF GiveUp, Row, SomeToken, Status, Brokers
<1>7. ASSUME NEW p \in Procs, Create(p) PROVE Typed'
  BY <1>0, <1>a, <1>7 DEF Create, Row, SomeToken, Status, Brokers
<1>8. ASSUME NEW p \in Procs, Read(p) PROVE Typed'
  BY <1>0, <1>a, <1>8 DEF Read, UpdateState, Row, SomeToken, Status, Brokers
<1>9. ASSUME NEW p \in Procs, AnswerOK(p) PROVE Typed'
  <2> DEFINE b == Head(at[p].left)
  <2>1. /\ b \in Brokers /\ UNCHANGED <<row, managerVars, up>>
        /\ conn' \in SomeToken \cup {NoConnector}
    BY <1>0, <1>a, <1>9 DEF AnswerOK, Renewed, SomeToken
  <2>2. CASE UNCHANGED <<active, open, failed>>
    BY <1>0, <2>1, <2>2
  <2>3. CASE RecordSuccess(b)
    <3> HIDE DEF b
    <3> QED BY <1>0, <2>1, <2>3 DEF RecordSuccess, Close
  <2> QED BY <1>9, <2>2, <2>3 DEF AnswerOK
<1>10. ASSUME NEW p \in Procs, AnswerFails(p) PROVE Typed'
  <2> DEFINE b == Head(at[p].left)
  <2>1. b \in Brokers /\ UNCHANGED <<row, up, token, active>>
    BY <1>a, <1>10 DEF AnswerFails
  <2>2. CASE conn' \in Renewed(p) /\ UNCHANGED <<managerVars, active, open, failed>>
    BY <1>0, <1>10, <2>2 DEF AnswerFails, Renewed, SomeToken
  <2>3. ASSUME NEW kind \in {"auth", "denied", "other"}, RecordFailure(b, kind)
        PROVE  Typed'
    <3> HIDE DEF b
    <3>1. status' \in [Brokers -> Status] /\ open' \subseteq Brokers
      BY <1>0, <2>1, <2>3 DEF RecordFailure, Status
    <3>2. failed' \in [Brokers -> Nat]
      BY <1>0, <2>1, <2>3 DEF RecordFailure
    <3>3. conn' \in SomeToken \cup {NoConnector}
      BY <1>0, <2>3 DEF RecordFailure
    <3> QED BY <1>0, <2>1, <3>1, <3>2, <3>3
  <2> QED BY <1>10, <2>2, <2>3 DEF AnswerFails
<1>11. ASSUME BeginCallback PROVE Typed'
  BY <1>0, <1>a, <1>11 DEF BeginCallback, Row, SomeToken, Status, Brokers
<1>12. ASSUME BeginDisconnect PROVE Typed'
  BY <1>0, <1>a, <1>12 DEF BeginDisconnect, Row, SomeToken, Status, Brokers
<1>13. ASSUME CommitSave PROVE Typed'
  BY <1>0, <1>a, <1>13 DEF CommitSave, SetStatus, Row, SomeToken, Status,
     Brokers
<1>14. ASSUME Saved PROVE Typed'
  BY <1>0, <1>a, <1>14 DEF Saved, UpdateState, Row, SomeToken, Status, Brokers
<1>15. ASSUME Apply PROVE Typed'
  BY <1>0, <1>a, <1>15 DEF Apply, Row, SomeToken, Status, Brokers
<1>16. ASSUME CommitDisconnect PROVE Typed'
  BY <1>0, <1>a, <1>16 DEF CommitDisconnect, SetStatus, Row, SomeToken, Status,
     Brokers
<1>17. ASSUME CloseConnector PROVE Typed'
  BY <1>0, <1>a, <1>17 DEF CloseConnector, Row, SomeToken, Status, Brokers
<1>18. ASSUME Forget PROVE Typed'
  BY <1>0, <1>a, <1>18 DEF Forget, UpdateState, Row, SomeToken, Status, Brokers
<1>19. ASSUME Boot PROVE Typed'
  BY <1>0, <1>a, <1>19 DEF Boot, UpdateState, Row, SomeToken, Status, Brokers
<1>20. ASSUME ValidateOK PROVE Typed'
  <2>1. /\ row' = [row EXCEPT !.status = SetStatus(at[Loop], "CONNECTED")]
        /\ SetStatus(at[Loop], "CONNECTED") \in Status
    BY <1>0, <1>20 DEF ValidateOK, SetStatus, Status
  <2>2. row' \in Row
    BY <1>0, <2>1 DEF Row
  <2> QED BY <1>0, <1>a, <1>20, <2>2 DEF ValidateOK, UpdateState, SomeToken,
     Status
<1>21. ASSUME ValidateFails PROVE Typed'
  <2>1. /\ row' = [row EXCEPT !.status = SetStatus(at[Loop], "TOKEN_EXPIRED")]
        /\ SetStatus(at[Loop], "TOKEN_EXPIRED") \in Status
    BY <1>0, <1>21 DEF ValidateFails, SetStatus, Status
  <2>2. row' \in Row
    BY <1>0, <2>1 DEF Row
  <2> QED BY <1>0, <1>a, <1>21, <2>2 DEF ValidateFails, UpdateState, SomeToken,
     Status
<1>22. ASSUME Start PROVE Typed'
  BY <1>0, <1>a, <1>22 DEF Start, Row, SomeToken, Status, Brokers
<1>23. ASSUME Crash PROVE Typed'
  BY <1>0, <1>a, <1>23 DEF Crash, Fresh, Row, SomeToken, Status, Brokers
<1>24. ASSUME CooldownEnds PROVE Typed'
  BY <1>0, <1>a, <1>24 DEF CooldownEnds, Close, Row, SomeToken, Status, Brokers
<1>25. ASSUME Elsewhere PROVE Typed'
  BY <1>0, <1>a, <1>25 DEF Elsewhere, Empty, Row, SomeToken, Status, Brokers
<1>26. CASE UNCHANGED vars
  BY <1>0, <1>26 DEF vars
<1> QED BY <1>1, <1>2, <1>2a, <1>2b, <1>3, <1>4, <1>5, <1>6, <1>7, <1>8, <1>9,
   <1>10, <1>11,
   <1>12, <1>13, <1>14, <1>15, <1>16, <1>17, <1>18, <1>19, <1>20, <1>21, <1>22,
   <1>23, <1>24, <1>25, <1>26 DEF Next, Call, Serve, Startup


-----------------------------------------------------------------------------
(***************************************************************************)
(* The breakers.                                                           *)
(***************************************************************************)

\* The calls under way are among the processes.
LEMMA UnderWayFinite ==
  ASSUME NEW S \in SUBSET Procs
  PROVE  /\ IsFiniteSet(S) /\ Cardinality(S) \in Nat
         /\ Cardinality(Procs) \in Nat
         /\ Cardinality(S) <= Cardinality(Procs)
         /\ \A T \in SUBSET S : Cardinality(T) <= Cardinality(S)
         /\ \A p \in S : \A T \in SUBSET (S \ {p}) :
               Cardinality(T) + 1 <= Cardinality(S)
<1>1. IsFiniteSet(Threads \cup {Loop})
  BY ProcsAssumption, FS_AddElement
<1>2. IsFiniteSet(Procs) /\ Cardinality(Procs) \in Nat
  BY <1>1, FS_CardinalityType DEF Procs
<1>3. /\ IsFiniteSet(S) /\ Cardinality(S) \in Nat
      /\ Cardinality(S) <= Cardinality(Procs)
  BY <1>2, FS_Subset, FS_CardinalityType
<1>4. \A T \in SUBSET S : Cardinality(T) <= Cardinality(S)
  BY <1>3, FS_Subset
<1>5. ASSUME NEW p \in S, NEW T \in SUBSET (S \ {p})
      PROVE  Cardinality(T) + 1 <= Cardinality(S)
  <2>1. /\ IsFiniteSet(S \ {p})
        /\ Cardinality(S \ {p}) = Cardinality(S) - 1
    BY <1>3, FS_RemoveElement
  <2>2. IsFiniteSet(T) /\ Cardinality(T) <= Cardinality(S \ {p})
    BY <2>1, FS_Subset
  <2>3. Cardinality(T) \in Nat
    BY <2>2, FS_CardinalityType
  <2> QED BY <1>3, <2>1, <2>2, <2>3
<1> QED BY <1>2, <1>3, <1>4, <1>5

\* The breaker of b has counted nothing, or no more than before; or it counts
\* one of the calls that were under way, and opens.
Cleared(b) == failed'[b] = 0
Same(b) ==
    /\ failed'[b] = failed[b] /\ (b \in open => b \in open')
    /\ UnderWay(b)' \subseteq UnderWay(b)
Counted(b) ==
    /\ failed'[b] = failed[b] + 1 /\ b \in open'
    /\ \E p \in UnderWay(b) : UnderWay(b)' \subseteq UnderWay(b) \ {p}

\* Each of the three preserves what is said of b.
LEMMA BreakerKept ==
  ASSUME TypeOK, BreakerInv,
         \A b \in Brokers : Cleared(b) \/ Same(b) \/ Counted(b)
  PROVE  BreakerInv'
<1> SUFFICES ASSUME NEW b \in Brokers
             PROVE  /\ b \notin open' => failed'[b] = 0
                    /\ failed'[b] + Cardinality(UnderWay(b)') <= Cardinality(Procs)
  BY DEF BreakerInv
<1>1. /\ failed[b] \in Nat /\ (b \notin open => failed[b] = 0)
      /\ failed[b] + Cardinality(UnderWay(b)) <= Cardinality(Procs)
  BY DEF TypeOK, BreakerInv
<1>2. UnderWay(b) \in SUBSET Procs /\ UnderWay(b)' \in SUBSET Procs
  BY DEF UnderWay
<1>3. /\ Cardinality(UnderWay(b)) \in Nat /\ Cardinality(UnderWay(b)') \in Nat
      /\ Cardinality(UnderWay(b)') <= Cardinality(Procs)
      /\ Cardinality(Procs) \in Nat
  BY <1>2, UnderWayFinite
<1>4. CASE Cleared(b)
  BY <1>3, <1>4 DEF Cleared
<1>5. CASE Same(b)
  <2>1. Cardinality(UnderWay(b)') <= Cardinality(UnderWay(b))
    BY <1>2, <1>5, UnderWayFinite DEF Same
  <2> QED BY <1>1, <1>3, <1>5, <2>1 DEF Same
<1>6. CASE Counted(b)
  <2>1. Cardinality(UnderWay(b)') + 1 <= Cardinality(UnderWay(b))
    BY <1>2, <1>6, UnderWayFinite DEF Counted
  <2> QED BY <1>1, <1>3, <1>6, <2>1 DEF Counted
<1> QED BY <1>4, <1>5, <1>6

\* One process moves and no breaker does: no call joins those under way unless
\* the process enters a call that was not stopped by the breaker.
LEMMA SameMove ==
  ASSUME NEW p \in Procs, \A q \in Procs \ {p} : at'[q] = at[q],
         UNCHANGED <<open, failed>>,
         NEW b, p \in UnderWay(b)' => p \in UnderWay(b)
  PROVE  Same(b)
BY DEF Same, UnderWay

\* The process that moves leaves the calls under way, or goes past the router.
LEMMA Aside ==
  ASSUME NEW p \in Procs, \A q \in Procs \ {p} : at'[q] = at[q],
         at'[p].pc \notin Asking \/ at'[p].direct, NEW b
  PROVE  /\ p \notin UnderWay(b)' /\ UnderWay(b)' \subseteq UnderWay(b) \ {p}
         /\ UNCHANGED <<open, failed>> => Same(b)
BY DEF UnderWay, Same

\* BreakerInv is preserved: a call passes the breaker only where nothing has
\* been counted, and what is counted was under way.
LEMMA BreakerInvStep ==
  ASSUME TypeOK, FrameInv, BreakerInv, [Next]_vars
  PROVE  BreakerInv'
<1> DEFINE Kept == \A b \in Brokers : Cleared(b) \/ Same(b) \/ Counted(b)
           Moved(p) == \A q \in Procs \ {p} : at'[q] = at[q]
<1> SUFFICES Kept
  BY BreakerKept
<1>0. /\ at \in [Procs -> Frame] /\ Loop \in Procs
      /\ \A p \in Procs : at[p] \in Frame
      /\ \A t \in Threads : t \in Procs
  BY DEF TypeOK, Procs
<1>a. /\ Idle \in Frame /\ Idle.pc = "idle"
      /\ "idle" \notin Asking
  BY IdleFrames DEF FrameOK, Asking
<1> USE DEF Asking, Go, GoTo, routerVars
<1>1. ASSUME NEW p \in Procs, NEW call \in CallNames, Enter(p, call) PROVE Kept
  <2>1. Moved(p) /\ UNCHANGED <<open, failed>>
    BY <1>0, <1>1 DEF Enter
  <2>2. at'[p].pc \notin Asking
    BY <1>1, EnterFrame
  <2> QED BY <2>1, <2>2, Aside
<1>2. ASSUME NEW t \in Threads, BeginEnsure(t) \/ BeginData(t) \/ BeginLogin(t)
      PROVE  Kept
  BY <1>0, <1>1, <1>2 DEF BeginEnsure, BeginData, BeginLogin, CallNames
<1>2a. ASSUME NEW p \in Procs, Check(p) PROVE Kept
  <2>1. at[p].call \in CallNames
    BY <1>0 DEF Frame, CallNames
  <2> QED BY <1>1, <1>2a, <2>1 DEF Check
<1>2b. ASSUME BeginUnsubscribe PROVE Kept
  <2>1. "unsubscribe" \in CallNames
    BY DEF CallNames
  <2> QED BY <1>0, <1>1, <1>2b, <2>1 DEF BeginUnsubscribe
<1>3. ASSUME BeginStream PROVE Kept
  <2>1. Moved(Loop) /\ UNCHANGED <<open, failed>>
    BY <1>0, <1>3 DEF BeginStream, Subscribe
  <2>2. at'[Loop].pc \notin Asking \/ at'[Loop].direct
    BY <1>0, <1>3 DEF BeginStream, Subscribe, Frame, Idle
  <2> QED BY <1>0, <2>1, <2>2, Aside
<1>4. ASSUME NEW p \in Procs, Plan(p) PROVE Kept
  <2>1. Moved(p) /\ UNCHANGED <<open, failed>>
    BY <1>0, <1>4 DEF Plan
  <2>2. at'[p].pc \notin Asking \/ at'[p].direct
    BY <1>0, <1>4 DEF Plan, Frame, Idle
  <2> QED BY <1>0, <2>1, <2>2, Aside
<1>5. ASSUME NEW p \in Procs, GiveUp(p) PROVE Kept
  <2>1. Moved(p) /\ UNCHANGED <<open, failed>>
    BY <1>0, <1>5 DEF GiveUp
  <2>2. at'[p].pc \notin Asking \/ at'[p].direct
    BY <1>0, <1>5 DEF GiveUp, Frame, Idle
  <2> QED BY <1>0, <2>1, <2>2, Aside
<1>6. ASSUME BeginCallback PROVE Kept
  <2>1. Moved(Loop) /\ UNCHANGED <<open, failed>>
    BY <1>0, <1>6 DEF BeginCallback
  <2>2. at'[Loop].pc \notin Asking \/ at'[Loop].direct
    BY <1>0, <1>6 DEF BeginCallback, Frame, Idle
  <2> QED BY <1>0, <2>1, <2>2, Aside
<1>7. ASSUME BeginDisconnect PROVE Kept
  <2>1. Moved(Loop) /\ UNCHANGED <<open, failed>>
    BY <1>0, <1>7 DEF BeginDisconnect
  <2>2. at'[Loop].pc \notin Asking \/ at'[Loop].direct
    BY <1>0, <1>7 DEF BeginDisconnect, Frame, Idle
  <2> QED BY <1>0, <2>1, <2>2, Aside
<1>8. ASSUME CommitSave PROVE Kept
  <2>1. Moved(Loop) /\ UNCHANGED <<open, failed>>
    BY <1>0, <1>8 DEF CommitSave
  <2>2. at'[Loop].pc \notin Asking \/ at'[Loop].direct
    BY <1>0, <1>8 DEF CommitSave, Frame, Idle
  <2> QED BY <1>0, <2>1, <2>2, Aside
<1>9. ASSUME Saved PROVE Kept
  <2>1. Moved(Loop) /\ UNCHANGED <<open, failed>>
    BY <1>0, <1>9 DEF Saved
  <2>2. at'[Loop].pc \notin Asking \/ at'[Loop].direct
    BY <1>0, <1>9 DEF Saved, Frame, Idle
  <2> QED BY <1>0, <2>1, <2>2, Aside
<1>10. ASSUME Apply PROVE Kept
  <2>1. Moved(Loop) /\ UNCHANGED <<open, failed>>
    BY <1>0, <1>10 DEF Apply, Subscribe
  <2>2. \/ at'[Loop] = Idle
        \/ at'[Loop] = [Idle EXCEPT !.pc = "check", !.call = "subscribe"]
    BY <1>0, <1>10 DEF Apply, Subscribe
  <2>3. ([Idle EXCEPT !.pc = "check", !.call = "subscribe"]).pc \notin Asking
    BY DEF Idle
  <2> QED BY <1>0, <1>a, <2>1, <2>2, <2>3, Aside
<1>11. ASSUME CommitDisconnect PROVE Kept
  <2>1. Moved(Loop) /\ UNCHANGED <<open, failed>>
    BY <1>0, <1>11 DEF CommitDisconnect
  <2>2. at'[Loop].pc \notin Asking \/ at'[Loop].direct
    BY <1>0, <1>11 DEF CommitDisconnect, Frame, Idle
  <2> QED BY <1>0, <2>1, <2>2, Aside
<1>12. ASSUME CloseConnector PROVE Kept
  <2>1. Moved(Loop) /\ UNCHANGED <<open, failed>>
    BY <1>0, <1>12 DEF CloseConnector
  <2>2. at'[Loop].pc \notin Asking \/ at'[Loop].direct
    BY <1>0, <1>12 DEF CloseConnector, Frame, Idle
  <2> QED BY <1>0, <2>1, <2>2, Aside
<1>13. ASSUME Forget PROVE Kept
  <2>1. Moved(Loop) /\ UNCHANGED <<open, failed>>
    BY <1>0, <1>13 DEF Forget
  <2>2. at'[Loop].pc \notin Asking \/ at'[Loop].direct
    BY <1>0, <1>13 DEF Forget, Frame, Idle
  <2> QED BY <1>0, <2>1, <2>2, Aside
<1>14. ASSUME Boot PROVE Kept
  <2>1. Moved(Loop) /\ UNCHANGED <<open, failed>>
    BY <1>0, <1>14 DEF Boot
  <2>2. \/ at'[Loop] = Idle
        \/ at'[Loop] = [Idle EXCEPT !.pc = "validate", !.seen = row]
    BY <1>0, <1>14 DEF Boot
  <2>3. ([Idle EXCEPT !.pc = "validate", !.seen = row]).pc \notin Asking
    BY DEF Idle
  <2> QED BY <1>0, <1>a, <2>1, <2>2, <2>3, Aside
<1>15. ASSUME ValidateOK PROVE Kept
  <2>1. Moved(Loop) /\ UNCHANGED <<open, failed>>
    BY <1>0, <1>15 DEF ValidateOK
  <2>2. at'[Loop].pc \notin Asking \/ at'[Loop].direct
    BY <1>0, <1>15 DEF ValidateOK, Frame, Idle
  <2> QED BY <1>0, <2>1, <2>2, Aside
<1>16. ASSUME ValidateFails PROVE Kept
  <2>1. Moved(Loop) /\ UNCHANGED <<open, failed>>
    BY <1>0, <1>16 DEF ValidateFails
  <2>2. at'[Loop].pc \notin Asking \/ at'[Loop].direct
    BY <1>0, <1>16 DEF ValidateFails, Frame, Idle
  <2> QED BY <1>0, <2>1, <2>2, Aside
<1>17. ASSUME Start PROVE Kept
  <2>1. Moved(Loop) /\ UNCHANGED <<open, failed>>
    BY <1>0, <1>17 DEF Start, Subscribe
  <2>2. \/ at'[Loop] = Idle
        \/ at'[Loop] = [Idle EXCEPT !.pc = "check", !.call = "subscribe"]
    BY <1>0, <1>17 DEF Start, Subscribe
  <2>3. ([Idle EXCEPT !.pc = "check", !.call = "subscribe"]).pc \notin Asking
    BY DEF Idle
  <2> QED BY <1>0, <1>a, <2>1, <2>2, <2>3, Aside
<1>18. ASSUME NEW p \in Procs, Create(p) PROVE Kept
  <2>1. Moved(p) /\ UNCHANGED <<open, failed>>
    BY <1>0, <1>18 DEF Create
  <2>2. /\ at[p].pc \in Asking /\ at'[p].direct = at[p].direct
        /\ at'[p].left = at[p].left
    BY <1>0, <1>18 DEF Create, Frame
  <2>3. ASSUME NEW b, p \in UnderWay(b)' PROVE p \in UnderWay(b)
    BY <2>2, <2>3 DEF UnderWay
  <2> QED BY <2>1, <2>3, SameMove
<1>19. ASSUME NEW p \in Procs, Read(p) PROVE Kept
  <2>1. Moved(p) /\ UNCHANGED <<open, failed>>
    BY <1>0, <1>19 DEF Read
  <2>2. /\ at[p].pc \in Asking /\ at'[p].direct = at[p].direct
        /\ at'[p].left = at[p].left
    BY <1>0, <1>19 DEF Read, Frame
  <2>3. ASSUME NEW b, p \in UnderWay(b)' PROVE p \in UnderWay(b)
    BY <2>2, <2>3 DEF UnderWay
  <2> QED BY <2>1, <2>3, SameMove
<1>20. ASSUME NEW p \in Procs, Ask(p) PROVE Kept
  <2>1. Moved(p) /\ UNCHANGED <<open, failed>>
    BY <1>0, <1>20 DEF Ask
  <2>2. CASE Head(at[p].left) \in open
    <3>1. at'[p].pc \notin Asking
      BY <1>0, <1>20, <2>2 DEF Ask, Frame
    <3> QED BY <2>1, <3>1, Aside
  <2>3. CASE Head(at[p].left) \notin open
    <3>1. at'[p].left = at[p].left
      BY <1>0, <1>20, <2>3 DEF Ask, Frame
    <3> SUFFICES ASSUME NEW b \in Brokers PROVE Cleared(b) \/ Same(b)
      OBVIOUS
    <3>2. CASE b = Head(at[p].left)
      BY <2>1, <2>3, <3>2 DEF BreakerInv, Cleared
    <3>3. CASE b # Head(at[p].left)
      <4>1. p \notin UnderWay(b)'
        BY <3>1, <3>3 DEF UnderWay
      <4> QED BY <2>1, <4>1, SameMove
    <3> QED BY <3>2, <3>3
  <2> QED BY <2>2, <2>3
<1>21. ASSUME NEW p \in Procs, AnswerOK(p) PROVE Kept
  <2> DEFINE c == Head(at[p].left)
  <2>1. Moved(p) /\ at'[p].pc \notin Asking
    BY <1>0, <1>a, <1>21 DEF AnswerOK
  <2>2. CASE UNCHANGED <<open, failed>>
    BY <2>1, <2>2, Aside
  <2>3. CASE Close(c)
    <3> SUFFICES ASSUME NEW b \in Brokers PROVE Cleared(b) \/ Same(b)
      OBVIOUS
    <3>1. UnderWay(b)' \subseteq UnderWay(b)
      BY <2>1, Aside
    <3>2. b = c => failed'[b] = 0
      BY <2>3 DEF Close, TypeOK
    <3>3. b # c => failed'[b] = failed[b] /\ (b \in open => b \in open')
      BY <2>3 DEF Close, TypeOK
    <3> QED BY <3>1, <3>2, <3>3 DEF Cleared, Same
  <2> QED BY <1>21, <2>2, <2>3 DEF AnswerOK, RecordSuccess
<1>22. ASSUME NEW p \in Procs, AnswerFails(p) PROVE Kept
  <2> DEFINE c == Head(at[p].left)
  <2>1. CASE at[p].direct
    <3>1. Moved(p) /\ at'[p].pc \notin Asking /\ UNCHANGED <<open, failed>>
      BY <1>0, <1>a, <1>22, <2>1 DEF AnswerFails
    <3> QED BY <3>1, Aside
  <2>2. CASE ~at[p].direct
    <3>0. \E k \in {"none", "auth"} :
             at' = [at EXCEPT ![p] = [at[p] EXCEPT !.pc = "next", !.left = Tail(@),
                                                   !.kind = k]]
      BY <1>22, <2>2 DEF AnswerFails
    <3>1. Moved(p) /\ at'[p].pc \notin Asking
      BY <1>0, <3>0 DEF Frame
    <3>2. at[p].pc = "sent" /\ p \in UnderWay(c)
      BY <1>22, <2>2 DEF AnswerFails, UnderWay
    <3>3. PICK kind \in {"auth", "denied", "other"} : RecordFailure(c, kind)
      BY <1>22, <2>2 DEF AnswerFails
    <3> SUFFICES ASSUME NEW b \in Brokers
                 PROVE  Cleared(b) \/ Same(b) \/ Counted(b)
      OBVIOUS
    <3>4. UnderWay(b)' \subseteq UnderWay(b) \ {p}
      BY <3>1, Aside
    <3> HIDE DEF c
    <3>5. CASE b = c
      <4>1. failed'[b] = failed[b] + 1 /\ b \in open'
        BY <3>3, <3>5 DEF RecordFailure
      <4> QED BY <3>2, <3>4, <3>5, <4>1 DEF Counted
    <3>6. CASE b # c
      <4>1. \/ failed'[b] = 0
            \/ failed'[b] = failed[b] /\ (b \in open => b \in open')
        BY <3>3, <3>6 DEF RecordFailure
      <4> QED BY <3>4, <4>1 DEF Cleared, Same
    <3> QED BY <3>5, <3>6
  <2> QED BY <2>1, <2>2
<1>23. CASE Crash
  BY <1>23 DEF Crash, Fresh, Cleared
<1>24. CASE CooldownEnds
  <2> SUFFICES ASSUME NEW b \in Brokers PROVE Cleared(b) \/ Same(b)
    OBVIOUS
  <2>1. PICK c \in open : Close(c)
    BY <1>24 DEF CooldownEnds
  <2>2. UnderWay(b)' = UnderWay(b)
    BY <1>24 DEF CooldownEnds, UnderWay
  <2>3. \/ failed'[b] = 0
        \/ failed'[b] = failed[b] /\ (b \in open => b \in open')
    BY <2>1 DEF Close, TypeOK
  <2> QED BY <2>2, <2>3 DEF Cleared, Same
<1>25. CASE Elsewhere \/ UNCHANGED vars
  BY <1>25 DEF Elsewhere, vars, Same, UnderWay
<1> QED BY <1>1, <1>2, <1>2a, <1>2b, <1>3, <1>4, <1>5, <1>6, <1>7, <1>8, <1>9,
   <1>10, <1>11,
   <1>12, <1>13, <1>14, <1>15, <1>16, <1>17, <1>18, <1>19, <1>20, <1>21, <1>22,
   <1>23, <1>24, <1>25 DEF Next, Call, Serve, Startup

-----------------------------------------------------------------------------

\* The inductive invariant holds initially.
LEMMA IInvInit == Init => IInv
<1> SUFFICES ASSUME Init PROVE IInv
  OBVIOUS
<1>1. at = [p \in Procs |-> IF p = Loop THEN Down ELSE Idle]
  BY DEF Init, Fresh
<1>2. at \in [Procs -> Frame] /\ FrameInv
  BY <1>1, IdleFrames DEF FrameInv, FrameOK
<1>3. TypeOK
  BY <1>2 DEF Init, Fresh, TypeOK, Row, Empty, SomeToken, Status, Brokers
<1>4. \A b : UnderWay(b) = {}
  BY <1>1, IdleFrames DEF UnderWay, Asking
<1>5. Cardinality({}) = 0 /\ Cardinality(Procs) \in Nat
  BY FS_EmptySet, UnderWayFinite
<1>6. BreakerInv
  BY <1>4, <1>5 DEF BreakerInv, Init, Fresh
<1> QED BY <1>2, <1>3, <1>6 DEF IInv

\* The inductive invariant holds in every reachable state.
THEOREM Invariance == Spec => []IInv
<1>1. Init => IInv
  BY IInvInit
<1>2. IInv /\ [Next]_vars => IInv'
  BY TypeOKStep, FramesStep, BreakerInvStep DEF IInv
<1> QED BY <1>1, <1>2, PTL DEF Spec

\* The row, the memory of the worker and the frames of its calls stay well
\* typed, whatever overlaps.
THEOREM TypeCorrect == Spec => []TypeOK
<1>1. IInv => TypeOK
  BY DEF IInv
<1> QED BY <1>1, Invariance, PTL

\* Between two cooldowns a failing broker is counted at most once for each
\* thread and for the loop: with any number of threads, only calls that had
\* passed the breaker before it opened still reach the broker.
THEOREM BreakerBound == Spec => []FailuresBounded
<1>1. IInv => FailuresBounded
  <2> SUFFICES ASSUME IInv, NEW b \in Brokers
               PROVE  failed[b] <= Cardinality(Procs)
    BY DEF FailuresBounded
  <2>1. UnderWay(b) \in SUBSET Procs
    BY DEF UnderWay
  <2>2. Cardinality(UnderWay(b)) \in Nat /\ Cardinality(Procs) \in Nat
    BY <2>1, UnderWayFinite
  <2>3. failed[b] \in Nat /\ failed[b] + Cardinality(UnderWay(b)) <= Cardinality(Procs)
    BY DEF IInv, TypeOK, BreakerInv
  <2> QED BY <2>2, <2>3
<1> QED BY <1>1, Invariance, PTL

\* A call that has met an authorisation failure and still has a broker to ask
\* goes on asking.
LEMMA FallbackStep ==
  ASSUME TypeOK, FrameInv, [Next]_vars, up', NEW p \in Procs,
         at[p].kind = "auth", at[p].call # "login", at'[p].pc = "idle"
  PROVE  at[p].pc = "sent"
<1> SUFFICES ASSUME at[p].pc \in {"next", "create", "read"} PROVE FALSE
  BY DEF FrameInv, FrameOK, Asking
<1>0. /\ at \in [Procs -> Frame] /\ Loop \in Procs /\ at[p] \in Frame
      /\ \A t \in Threads : t \in Procs
  BY DEF TypeOK, Procs
<1>1. at[p] # Idle /\ at'[p] # at[p]
  BY IdleFrames
<1>2. ~Ready(p)
  BY <1>1 DEF Ready
<1> USE DEF Go, GoTo
<1>3. ASSUME NEW t \in Threads, BeginEnsure(t) \/ BeginData(t) \/ BeginLogin(t)
      PROVE  FALSE
  BY <1>0, <1>1, <1>2, <1>3 DEF BeginEnsure, BeginData, BeginLogin, Enter
<1>4. ASSUME BeginStream \/ BeginUnsubscribe \/ BeginCallback \/ BeginDisconnect
      PROVE  FALSE
  BY <1>0, <1>1, <1>2, <1>4 DEF BeginStream, BeginUnsubscribe, BeginCallback,
     BeginDisconnect, Enter
<1>5. ASSUME Serve \/ Startup PROVE FALSE
  <2>1. at[Loop].pc \notin {"next", "create", "read"}
    BY <1>5 DEF Serve, Startup, CommitSave, Saved, Apply, CommitDisconnect,
       CloseConnector, Forget, Boot, ValidateOK, ValidateFails, Start
  <2>2. \A q \in Procs \ {Loop} : at'[q] = at[q]
    BY <1>0, <1>5 DEF Serve, Startup, CommitSave, Saved, Apply,
       CommitDisconnect, CloseConnector, Forget, Boot, ValidateOK,
       ValidateFails, Start
  <2> QED BY <1>1, <2>1, <2>2
<1>6. ASSUME NEW q \in Procs, q # p, Call(q) PROVE FALSE
  <2>1. at'[p] = at[p]
    BY <1>0, <1>6 DEF Call, Check, Enter, Plan, Ask, GiveUp, Create, Read,
       AnswerOK,
       AnswerFails
  <2> QED BY <1>1, <2>1
<1>7. ASSUME Check(p) \/ Plan(p) \/ AnswerOK(p) \/ AnswerFails(p) PROVE FALSE
  BY <1>7 DEF Check, Plan, AnswerOK, AnswerFails
<1>8. ASSUME Ask(p) PROVE FALSE
  BY <1>0, <1>8 DEF Ask, Frame
<1>9. ASSUME GiveUp(p) PROVE FALSE
  BY <1>0, <1>9 DEF GiveUp, Frame
<1>10. ASSUME Create(p) PROVE FALSE
  BY <1>0, <1>10 DEF Create, Frame
<1>11. ASSUME Read(p) PROVE FALSE
  BY <1>0, <1>11 DEF Read, Frame
<1>12. ASSUME Crash PROVE FALSE
  BY <1>12 DEF Crash
<1>13. ASSUME CooldownEnds \/ Elsewhere \/ UNCHANGED vars PROVE FALSE
  BY <1>1, <1>13 DEF CooldownEnds, Elsewhere, vars
<1> QED BY <1>3, <1>4, <1>5, <1>6, <1>7, <1>8, <1>9, <1>10, <1>11, <1>12, <1>13
        DEF Next, Call

\* No call of a worker that lives, but regen_token's login, is given up on a
\* rejected token, or because the router is blocked by one, before Upstox was
\* asked past the router.
THEOREM Fallback == Spec => AuthFallback
<1>1. IInv /\ [Next]_vars =>
        [\A p \in Procs :
           (up' /\ at[p].kind = "auth" /\ at[p].call # "login" /\ at'[p].pc = "idle")
               => at[p].pc = "sent"]_vars
  BY FallbackStep DEF IInv
<1> QED BY <1>1, Invariance, PTL DEF Spec, AuthFallback
=============================================================================
