--------------------------- MODULE MarketFeedProofs ---------------------------
(***************************************************************************)
(* Proofs about MarketFeed: the clients' side is consistent in every       *)
(* reachable state, for any numbers of clients, users and symbols.         *)
(***************************************************************************)
EXTENDS MarketFeed, FiniteSetTheorems, TLAPS

\* What the instrument master knows of some symbols is some symbols.
LEMMA KnownSymbols ==
    ASSUME NEW symbols \in SUBSET Symbols, NEW known \in Known(symbols)
    PROVE  known \subseteq Symbols
  BY DEF Known, New

\* A start past the check of the broker session keeps the feed well typed.
LEMMA StartWithType ==
    ASSUME TypeOK, NEW known \in SUBSET Symbols, NEW looping \in BOOLEAN,
           StartWith(known, looping)
    PROVE  /\ started' \in BOOLEAN
           /\ state' \in States
           /\ attempt' \in 0 .. MaxRetries + 1
           /\ subscribed' \subseteq Symbols
           /\ retry' \in {"none", "check", "sleep"}
           /\ plan' \subseteq Symbols
           /\ tokens' \subseteq Symbols
<1>1. started' \in BOOLEAN
  BY Zenon DEF TypeOK, StartWith, StartNothing, StartUnknown, StartAdds,
     StartAddFails, StartOpens, StartNoToken, StartFails
<1>2. subscribed' \subseteq Symbols /\ tokens' \subseteq Symbols
  BY DEF TypeOK, StartWith, StartNothing, StartUnknown, StartAdds,
     StartAddFails, StartOpens, StartNoToken, StartFails
<1>3. attempt' \in 0 .. MaxRetries + 1
  <2>1. attempt' = attempt \/ attempt' = 0
    BY Zenon DEF StartWith, StartNothing, StartUnknown, StartAdds,
       StartAddFails, StartOpens, StartNoToken, StartFails
  <2> QED
    BY <2>1, LimitsAssumption DEF TypeOK
<1>4. state' \in States
  BY DEF TypeOK, States, SetState, StartWith, StartNothing, StartUnknown,
     StartAdds, StartAddFails, StartOpens, StartNoToken, StartFails
<1>5. retry' \in {"none", "check", "sleep"} /\ plan' \subseteq Symbols
  BY <1>2 DEF TypeOK, KeepRetry, Schedule, StartWith, StartNothing,
     StartUnknown, StartAdds, StartAddFails, StartOpens, StartNoToken,
     StartFails
<1> QED
  BY <1>1, <1>2, <1>3, <1>4, <1>5

\* A call of start_smartapi_ws keeps the feed well typed.
LEMMA StartType ==
    ASSUME TypeOK, NEW symbols \in SUBSET Symbols, NEW looping \in BOOLEAN,
           StartWs(symbols, looping)
    PROVE  /\ started' \in BOOLEAN /\ blocked' \in BOOLEAN
           /\ state' \in States
           /\ attempt' \in 0 .. MaxRetries + 1
           /\ subscribed' \subseteq Symbols
           /\ retry' \in {"none", "check", "sleep"}
           /\ plan' \subseteq Symbols
           /\ tokens' \subseteq Symbols
<1>1. blocked' \in BOOLEAN
  BY DEF TypeOK, StartWs
<1>2. CASE StartBlocked(looping)
  BY <1>1, <1>2 DEF TypeOK, States, StartBlocked, SetState, KeepRetry
<1>3. ASSUME NEW known \in Known(symbols), StartWith(known, looping)
      PROVE  /\ started' \in BOOLEAN
             /\ state' \in States
             /\ attempt' \in 0 .. MaxRetries + 1
             /\ subscribed' \subseteq Symbols
             /\ retry' \in {"none", "check", "sleep"}
             /\ plan' \subseteq Symbols
             /\ tokens' \subseteq Symbols
  BY <1>3, KnownSymbols, StartWithType
<1> QED
  BY <1>1, <1>2, <1>3 DEF StartWs

\* Leaving rooms keeps both sides well typed.
LEMMA LeaveRoomsType ==
    ASSUME TypeOK, NEW c \in Clients, NEW symbols \in SUBSET Symbols,
           LeaveRooms(c, symbols)
    PROVE  /\ subs' \in [Clients -> SUBSET Symbols]
           /\ rooms' \in [Symbols -> SUBSET Clients]
  BY DEF TypeOK, LeaveRooms

\* SocketManager.disconnect keeps its tables well typed.
LEMMA DisconnectType ==
    ASSUME TypeOK, NEW c \in Clients, Disconnect(c)
    PROVE  /\ connected' \subseteq Clients
           /\ subs' \in [Clients -> SUBSET Symbols]
           /\ rooms' \in [Symbols -> SUBSET Clients]
           /\ recent' \in [Users -> SUBSET Symbols]
<1>1. subs[c] \in SUBSET Symbols
  BY DEF TypeOK
<1>2. LeaveRooms(c, subs[c])
  BY DEF Disconnect
<1>3. connected' \subseteq Clients /\ recent' \in [Users -> SUBSET Symbols]
  BY <1>1 DEF TypeOK, Disconnect
<1> QED
  BY <1>1, <1>2, <1>3, LeaveRoomsType

\* Type correctness is preserved by every step.
LEMMA TypeOKStep ==
    ASSUME TypeOK, [Next]_vars
    PROVE  TypeOK'
<1>1. ASSUME NEW c \in Clients, Connect(c)
      PROVE  TypeOK'
  <2>1. recent[UserOf[c]] \subseteq Symbols
    BY ConstantsAssumption DEF TypeOK
  <2>2. /\ connected' \subseteq Clients
        /\ subs' \in [Clients -> SUBSET Symbols]
        /\ rooms' \in [Symbols -> SUBSET Clients]
        /\ recent' \in [Users -> SUBSET Symbols]
        /\ pc' \in [Clients -> {"gone", "ready", "subscribing"}]
    BY <1>1, <2>1 DEF TypeOK, Connect
  <2> QED
    BY <1>1, <2>2 DEF TypeOK, Connect, feed
<1>2. ASSUME NEW c \in Clients, NEW symbols \in SUBSET Symbols,
             Subscribe(c, symbols)
      PROVE  TypeOK'
  <2>1. /\ subs' \in [Clients -> SUBSET Symbols]
        /\ rooms' \in [Symbols -> SUBSET Clients]
        /\ pc' \in [Clients -> {"gone", "ready", "subscribing"}]
        /\ want' \in [Clients -> SUBSET Symbols]
    BY <1>2 DEF TypeOK, Subscribe
  <2> QED
    BY <1>2, <2>1 DEF TypeOK, Subscribe, feed
<1>3. ASSUME NEW c \in Clients, NEW symbols \in SUBSET Symbols,
             Unsubscribe(c, symbols)
      PROVE  TypeOK'
  <2>1. LeaveRooms(c, symbols)
    BY <1>3 DEF Unsubscribe
  <2>2. /\ subs' \in [Clients -> SUBSET Symbols]
        /\ rooms' \in [Symbols -> SUBSET Clients]
    BY <2>1, LeaveRoomsType
  <2> QED
    BY <1>3, <2>2 DEF TypeOK, Unsubscribe, serving
<1>4. ASSUME NEW c \in Clients, StartFor(c)
      PROVE  TypeOK'
  <2>1. want[c] \in SUBSET Symbols /\ StartWs(want[c], FALSE)
    BY <1>4 DEF TypeOK, StartFor
  <2>2. /\ pc' \in [Clients -> {"gone", "ready", "subscribing"}]
        /\ want' \in [Clients -> SUBSET Symbols]
    BY <1>4 DEF TypeOK, StartFor
  <2> QED
    BY <1>4, <2>1, <2>2, StartType DEF TypeOK, StartFor, sockets
<1>5. ASSUME NEW c \in Clients, Hangup(c), subscribed' \subseteq Symbols
      PROVE  TypeOK'
  <2>1. Disconnect(c)
    BY <1>5 DEF Hangup
  <2>2. /\ pc' \in [Clients -> {"gone", "ready", "subscribing"}]
        /\ want' \in [Clients -> SUBSET Symbols]
    BY <1>5 DEF TypeOK, Hangup
  <2> QED
    BY <1>5, <2>1, <2>2, DisconnectType DEF TypeOK, Hangup
<1>6. ASSUME NEW c \in Clients, Leave(c)
      PROVE  TypeOK'
  BY <1>5, <1>6 DEF TypeOK, Leave
<1>7. ASSUME NEW c \in Clients, StartRaises(c)
      PROVE  TypeOK'
  <2>1. want[c] \in SUBSET Symbols
    BY DEF TypeOK
  <2>2. subscribed' \subseteq Symbols
    BY <1>7, <2>1, KnownSymbols DEF TypeOK, StartRaises
  <2> QED
    BY <1>5, <1>7, <2>2 DEF StartRaises
<1>8. ASSUME NEW c \in Clients, Drop(c)
      PROVE  TypeOK'
  BY <1>8, DisconnectType DEF TypeOK, Drop, serving, feed
<1>9. ASSUME NEW u \in Users, Expire(u)
      PROVE  TypeOK'
  BY <1>9 DEF TypeOK, Expire, serving, feed
<1>10. CASE RetryCheck
  <2>1. attempt' \in 0 .. MaxRetries + 1
    <3>1. \/ attempt' = attempt
          \/ ~(attempt > MaxRetries) /\ attempt' = attempt + 1
      BY <1>10, Zenon DEF RetryCheck
    <3> QED
      BY <3>1, LimitsAssumption DEF TypeOK
  <2>2. state' \in States /\ retry' \in {"none", "check", "sleep"}
    BY <1>10 DEF TypeOK, States, RetryCheck, StopRetry
  <2> QED
    BY <1>10, <2>1, <2>2, Zenon DEF TypeOK, RetryCheck, sockets, serving
<1>11. CASE RetryStart
  <2>1. plan \in SUBSET Symbols /\ StartWs(plan, TRUE)
    BY <1>11 DEF TypeOK, RetryStart
  <2> QED
    BY <1>11, <2>1, StartType DEF TypeOK, RetryStart, sockets, serving
<1>12. CASE RetryRaises
  <2>1. subscribed' \subseteq Symbols
    BY <1>12, KnownSymbols DEF TypeOK, RetryRaises
  <2> QED
    BY <1>12, <2>1 DEF TypeOK, States, RetryRaises, StopRetry, sockets, serving
<1>13. CASE AutoStart
  BY <1>13, ConstantsAssumption DEF TypeOK, AutoStart, sockets, serving, feed
<1>14. CASE AutoStarted
  <2>1. auto \in SUBSET Symbols /\ StartWs(auto, FALSE)
    BY <1>14 DEF TypeOK, AutoStarted
  <2> QED
    BY <1>14, <2>1, StartType DEF TypeOK, AutoStarted, sockets, serving
<1>15. CASE AutoRaises
  <2>1. subscribed' \subseteq Symbols
    BY <1>15, KnownSymbols DEF TypeOK, AutoRaises
  <2> QED
    BY <1>15, <2>1 DEF TypeOK, AutoRaises, sockets, serving
<1>16. CASE Session
  BY <1>16 DEF TypeOK, Session, sockets, serving, feed
<1>17. CASE UNCHANGED vars
  BY <1>17 DEF TypeOK, vars, sockets, serving, feed
<1> QED
  BY <1>1, <1>2, <1>3, <1>4, <1>6, <1>7, <1>8, <1>9, <1>10, <1>11, <1>12,
     <1>13, <1>14, <1>15, <1>16, <1>17
     DEF Next, Client, Retry, AutoJob

\* A worker starts well typed.
LEMMA TypeOKInit == Init => TypeOK
<1> SUFFICES ASSUME Init PROVE TypeOK
  OBVIOUS
<1>1. started \in BOOLEAN /\ blocked \in BOOLEAN
  BY DEF Init
<1>2. attempt \in 0 .. MaxRetries + 1
  BY LimitsAssumption DEF Init
<1>3. /\ subs \in [Clients -> SUBSET Symbols]
      /\ rooms \in [Symbols -> SUBSET Clients]
      /\ recent \in [Users -> SUBSET Symbols]
      /\ pc \in [Clients -> {"gone", "ready", "subscribing"}]
      /\ want \in [Clients -> SUBSET Symbols]
  BY DEF Init
<1>4. state \in States /\ retry \in {"none", "check", "sleep"}
  BY DEF Init, States
<1>5. /\ connected \subseteq Clients /\ subscribed \subseteq Symbols
      /\ plan \subseteq Symbols /\ auto \subseteq Symbols
      /\ tokens \subseteq Symbols
  BY DEF Init
<1> QED
  BY <1>1, <1>2, <1>3, <1>4, <1>5 DEF TypeOK

\* The reachable states of the model are well typed.
THEOREM TypeCorrect == Spec => []TypeOK
  BY TypeOKInit, TypeOKStep, PTL DEF Spec

-----------------------------------------------------------------------------
(***************************************************************************)
(* The two sides of a subscription.  Connect writes both sides for the     *)
(* restored symbols only: that they agree afterwards needs that the        *)
(* client's last connection left no room behind, and that in turn needs    *)
(* that the two sides agreed when it ended.                                *)
(***************************************************************************)

Mirrored == RoomsMirror /\ GoneLeavesNothing

\* The steps of the reconnect loop, the scheduler and the session, and the
\* expiry of a payload, do not touch the subscriptions.
LEMMA UpstreamKeeps ==
    ASSUME Retry \/ AutoJob \/ Session \/ (\E u \in Users : Expire(u))
    PROVE  UNCHANGED <<connected, subs, rooms, pc>>
  BY DEF Retry, RetryCheck, RetryStart, RetryRaises, AutoJob, AutoStart,
     AutoStarted, AutoRaises, Session, Expire, sockets, serving

\* Leaving rooms keeps the two sides of every client equal.
LEMMA LeaveRoomsMirror ==
    ASSUME TypeOK, RoomsMirror, NEW c \in Clients, NEW symbols \in SUBSET Symbols,
           LeaveRooms(c, symbols)
    PROVE  RoomsMirror'
  BY DEF TypeOK, RoomsMirror, LeaveRooms

\* A disconnect leaves nothing of the client, and nothing of others changes.
LEMMA DisconnectMirror ==
    ASSUME TypeOK, Mirrored, NEW c \in Clients, Disconnect(c)
    PROVE  /\ RoomsMirror'
           /\ c \notin connected' /\ \A s \in Symbols : c \notin rooms'[s]
           /\ connected' \subseteq connected
           /\ \A s \in Symbols : rooms'[s] \subseteq rooms[s]
<1>1. subs[c] \in SUBSET Symbols /\ LeaveRooms(c, subs[c])
  BY DEF TypeOK, Disconnect
<1>2. RoomsMirror'
  BY <1>1, LeaveRoomsMirror DEF Mirrored
<1>3. \A s \in Symbols : c \notin rooms'[s] /\ rooms'[s] \subseteq rooms[s]
  BY <1>1 DEF TypeOK, Mirrored, RoomsMirror, LeaveRooms
<1>4. c \notin connected' /\ connected' \subseteq connected
  BY DEF Disconnect
<1> QED
  BY <1>2, <1>3, <1>4

\* Every step of the feed keeps the two sides equal.
LEMMA MirroredStep ==
    ASSUME TypeOK, Mirrored, [Next]_vars
    PROVE  Mirrored'
<1>1. ASSUME NEW c \in Clients, Connect(c)
      PROVE  Mirrored'
  <2> DEFINE restored == recent[UserOf[c]]
  <2>1. /\ pc[c] = "gone"
        /\ pc' = [pc EXCEPT ![c] = "ready"]
        /\ connected' = connected \cup {c}
        /\ subs' = [subs EXCEPT ![c] = restored]
        /\ rooms' = [s \in Symbols |-> IF s \in restored THEN rooms[s] \cup {c}
                                       ELSE rooms[s]]
    BY <1>1 DEF Connect
  <2>2. \A s \in Symbols : c \notin rooms[s]
    BY <2>1 DEF Mirrored, GoneLeavesNothing
  <2> HIDE DEF restored
  <2>3. RoomsMirror'
    <3> SUFFICES ASSUME NEW d \in Clients, NEW s \in Symbols
                 PROVE  d \in rooms'[s] <=> s \in subs'[d]
      BY DEF RoomsMirror
    <3>1. d \in rooms[s] <=> s \in subs[d]
      BY DEF Mirrored, RoomsMirror
    <3> QED
      BY <2>1, <2>2, <3>1 DEF TypeOK
  <2>4. GoneLeavesNothing'
    BY <2>1 DEF TypeOK, Mirrored, GoneLeavesNothing
  <2> QED
    BY <2>3, <2>4 DEF Mirrored
<1>2. ASSUME NEW c \in Clients, NEW symbols \in SUBSET Symbols,
             Subscribe(c, symbols)
      PROVE  Mirrored'
  <2>1. /\ pc[c] = "ready"
        /\ pc' = [pc EXCEPT ![c] = "subscribing"]
        /\ subs' = [subs EXCEPT ![c] = @ \cup symbols]
        /\ rooms' = [s \in Symbols |-> IF s \in symbols THEN rooms[s] \cup {c}
                                       ELSE rooms[s]]
        /\ UNCHANGED connected
    BY <1>2 DEF Subscribe
  <2>2. RoomsMirror'
    <3> SUFFICES ASSUME NEW d \in Clients, NEW s \in Symbols
                 PROVE  d \in rooms'[s] <=> s \in subs'[d]
      BY DEF RoomsMirror
    <3>1. d \in rooms[s] <=> s \in subs[d]
      BY DEF Mirrored, RoomsMirror
    <3> QED
      BY <2>1, <3>1 DEF TypeOK
  <2>3. GoneLeavesNothing'
    BY <2>1 DEF TypeOK, Mirrored, GoneLeavesNothing
  <2> QED
    BY <2>2, <2>3 DEF Mirrored
<1>3. ASSUME NEW c \in Clients, NEW symbols \in SUBSET Symbols,
             Unsubscribe(c, symbols)
      PROVE  Mirrored'
  <2>1. LeaveRooms(c, symbols) /\ UNCHANGED <<connected, pc>>
    BY <1>3 DEF Unsubscribe, serving
  <2>2. RoomsMirror'
    BY <2>1, LeaveRoomsMirror DEF Mirrored
  <2>3. GoneLeavesNothing'
    BY <2>1 DEF TypeOK, Mirrored, GoneLeavesNothing, LeaveRooms
  <2> QED
    BY <2>2, <2>3 DEF Mirrored
<1>4. ASSUME NEW c \in Clients, StartFor(c)
      PROVE  Mirrored'
  <2>1. /\ pc' = [pc EXCEPT ![c] = "ready"]
        /\ pc[c] = "subscribing"
        /\ UNCHANGED <<connected, subs, rooms>>
    BY <1>4 DEF StartFor, sockets
  <2> QED
    BY <2>1 DEF TypeOK, Mirrored, RoomsMirror, GoneLeavesNothing
<1>5. ASSUME NEW c \in Clients, Hangup(c)
      PROVE  Mirrored'
  <2>1. Disconnect(c) /\ pc' = [pc EXCEPT ![c] = "gone"]
    BY <1>5 DEF Hangup
  <2>2. GoneLeavesNothing'
    BY <2>1, DisconnectMirror DEF TypeOK, Mirrored, GoneLeavesNothing
  <2> QED
    BY <2>1, <2>2, DisconnectMirror DEF Mirrored
<1>6. ASSUME NEW c \in Clients, Drop(c)
      PROVE  Mirrored'
  <2>1. Disconnect(c) /\ UNCHANGED pc
    BY <1>6 DEF Drop, serving
  <2>2. GoneLeavesNothing'
    BY <2>1, DisconnectMirror DEF TypeOK, Mirrored, GoneLeavesNothing
  <2> QED
    BY <2>1, <2>2, DisconnectMirror DEF Mirrored
<1>7. CASE UNCHANGED <<connected, subs, rooms, pc>>
  BY <1>7 DEF Mirrored, RoomsMirror, GoneLeavesNothing
<1>8. CASE UNCHANGED vars
  BY <1>7, <1>8 DEF vars, sockets, serving
<1>9. ASSUME NEW c \in Clients, Leave(c) \/ StartRaises(c)
      PROVE  Mirrored'
  BY <1>5, <1>9 DEF Leave, StartRaises
<1> QED
  BY <1>1, <1>2, <1>3, <1>4, <1>6, <1>7, <1>8, <1>9, UpstreamKeeps
     DEF Next, Client

\* A worker starts without subscriptions.
LEMMA MirroredInit == Init => Mirrored
  BY DEF Init, Mirrored, RoomsMirror, GoneLeavesNothing

\* Rooms and subscriptions agree in every reachable state: handle_subscribe,
\* handle_unsubscribe, broadcast and the pruning of dead sockets never leave a
\* socket in the room of a symbol it does not hold, nor a holder out of it.
THEOREM Mirror == Spec => []RoomsMirror
<1>1. TypeOK /\ Mirrored /\ [Next]_vars => TypeOK' /\ Mirrored'
  BY TypeOKStep, MirroredStep
<1>2. Mirrored => RoomsMirror
  BY DEF Mirrored
<1> QED
  BY <1>1, <1>2, TypeOKInit, MirroredInit, PTL DEF Spec

\* A connection that is gone leaves nothing behind, by whichever path it went:
\* a clean close, a failed send of a broadcast, or an upstream start that
\* raises in the middle of its handler.
THEOREM Gone == Spec => []GoneLeavesNothing
<1>1. TypeOK /\ Mirrored /\ [Next]_vars => TypeOK' /\ Mirrored'
  BY TypeOKStep, MirroredStep
<1>2. Mirrored => GoneLeavesNothing
  BY DEF Mirrored
<1> QED
  BY <1>1, <1>2, TypeOKInit, MirroredInit, PTL DEF Spec

-----------------------------------------------------------------------------
(***************************************************************************)
(* The limit of a client: a subscription adds what was counted, and a      *)
(* restored payload is what some client had.                               *)
(***************************************************************************)

Bounded ==
    /\ SubscriptionLimit
    /\ \A u \in Users : Cardinality(recent[u]) <= MaxSubscriptions

\* Fewer symbols stay within the limit.
LEMMA FewerSymbols ==
    ASSUME NEW A \in SUBSET Symbols, NEW B \in SUBSET A,
           Cardinality(A) <= MaxSubscriptions
    PROVE  Cardinality(B) <= MaxSubscriptions
<1>1. IsFiniteSet(A)
  BY ConstantsAssumption, FS_Subset
<1>2. Cardinality(A) \in Nat /\ Cardinality(B) \in Nat
      /\ Cardinality(B) <= Cardinality(A)
  BY <1>1, FS_Subset, FS_CardinalityType
<1> QED
  BY <1>2, LimitsAssumption

\* Added symbols stay within the limit when both parts were counted.
LEMMA AddedSymbols ==
    ASSUME NEW A \in SUBSET Symbols, NEW B \in SUBSET Symbols,
           Cardinality(A) + Cardinality(B) <= MaxSubscriptions
    PROVE  Cardinality(A \cup B) <= MaxSubscriptions
<1>1. IsFiniteSet(A) /\ IsFiniteSet(B)
  BY ConstantsAssumption, FS_Subset
<1>2. /\ IsFiniteSet(A \cup B) /\ IsFiniteSet(A \cap B)
      /\ Cardinality(A \cup B)
         = Cardinality(A) + Cardinality(B) - Cardinality(A \cap B)
  BY <1>1, FS_Union, FS_Intersection
<1>3. /\ Cardinality(A) \in Nat /\ Cardinality(B) \in Nat
      /\ Cardinality(A \cap B) \in Nat
  BY <1>1, <1>2, FS_CardinalityType
<1> QED
  BY <1>2, <1>3, LimitsAssumption

\* A disconnect keeps the limits: the payload is what the client had.
LEMMA BoundedDisconnect ==
    ASSUME TypeOK, Bounded, NEW c \in Clients, Disconnect(c)
    PROVE  Bounded'
<1>1. subs' = [subs EXCEPT ![c] = subs[c] \ subs[c]]
  BY DEF Disconnect, LeaveRooms
<1>2. SubscriptionLimit'
  <2> SUFFICES ASSUME NEW d \in Clients
               PROVE  Cardinality(subs'[d]) <= MaxSubscriptions
    BY DEF SubscriptionLimit
  <2>1. subs[d] \in SUBSET Symbols /\ subs'[d] \subseteq subs[d]
    BY <1>1 DEF TypeOK
  <2> QED
    BY <2>1, FewerSymbols DEF Bounded, SubscriptionLimit
<1>3. ASSUME NEW u \in Users
      PROVE  Cardinality(recent'[u]) <= MaxSubscriptions
  <2>1. recent'[u] = recent[u] \/ recent'[u] = subs[c]
    BY DEF Disconnect, TypeOK
  <2> QED
    BY <2>1 DEF Bounded, SubscriptionLimit
<1> QED
  BY <1>2, <1>3 DEF Bounded

\* Every step of the feed keeps clients and payloads within the limit.
LEMMA BoundedStep ==
    ASSUME TypeOK, Bounded, [Next]_vars
    PROVE  Bounded'
<1> USE ConstantsAssumption
<1>1. ASSUME NEW c \in Clients, Connect(c)
      PROVE  Bounded'
  <2>1. UserOf[c] \in Users
    OBVIOUS
  <2>2. /\ subs' = [subs EXCEPT ![c] = recent[UserOf[c]]]
        /\ recent' = [recent EXCEPT ![UserOf[c]] = {}]
    BY <1>1 DEF Connect
  <2>3. SubscriptionLimit'
    BY <2>1, <2>2 DEF TypeOK, Bounded, SubscriptionLimit
  <2>4. ASSUME NEW u \in Users
        PROVE  Cardinality(recent'[u]) <= MaxSubscriptions
    <3>1. recent[u] \in SUBSET Symbols /\ recent'[u] \subseteq recent[u]
      BY <2>2 DEF TypeOK
    <3> QED
      BY <3>1, FewerSymbols DEF Bounded
  <2> QED
    BY <2>3, <2>4 DEF Bounded
<1>2. ASSUME NEW c \in Clients, NEW symbols \in SUBSET Symbols,
             Subscribe(c, symbols)
      PROVE  Bounded'
  <2>1. /\ Cardinality(subs[c]) + Cardinality(symbols) <= MaxSubscriptions
        /\ subs' = [subs EXCEPT ![c] = subs[c] \cup symbols]
        /\ UNCHANGED recent
    BY <1>2 DEF Subscribe
  <2>2. subs[c] \in SUBSET Symbols
    BY DEF TypeOK
  <2>3. Cardinality(subs[c] \cup symbols) <= MaxSubscriptions
    BY <2>1, <2>2, AddedSymbols
  <2> QED
    BY <2>1, <2>3 DEF TypeOK, Bounded, SubscriptionLimit
<1>3. ASSUME NEW c \in Clients, NEW symbols \in SUBSET Symbols,
             Unsubscribe(c, symbols)
      PROVE  Bounded'
  <2>1. subs' = [subs EXCEPT ![c] = subs[c] \ symbols] /\ UNCHANGED recent
    BY <1>3 DEF Unsubscribe, LeaveRooms
  <2>2. subs[c] \in SUBSET Symbols
    BY DEF TypeOK
  <2>3. Cardinality(subs[c] \ symbols) <= MaxSubscriptions
    BY <2>2, FewerSymbols DEF Bounded, SubscriptionLimit
  <2> QED
    BY <2>1, <2>3 DEF TypeOK, Bounded, SubscriptionLimit
<1>4. ASSUME NEW c \in Clients, Leave(c) \/ StartRaises(c) \/ Drop(c)
      PROVE  Bounded'
  BY <1>4, BoundedDisconnect DEF Leave, StartRaises, Hangup, Drop
<1>5. ASSUME NEW u \in Users, Expire(u)
      PROVE  Bounded'
  <2>1. recent' = [recent EXCEPT ![u] = {}] /\ UNCHANGED subs
    BY <1>5 DEF Expire
  <2>2. ASSUME NEW v \in Users
        PROVE  Cardinality(recent'[v]) <= MaxSubscriptions
    <3>1. recent[v] \in SUBSET Symbols /\ recent'[v] \subseteq recent[v]
      BY <2>1 DEF TypeOK
    <3> QED
      BY <3>1, FewerSymbols DEF Bounded
  <2> QED
    BY <2>1, <2>2 DEF Bounded, SubscriptionLimit
<1>6. CASE UNCHANGED <<subs, recent>>
  BY <1>6 DEF Bounded, SubscriptionLimit
<1>7. ASSUME NEW c \in Clients, StartFor(c)
      PROVE  Bounded'
  BY <1>6, <1>7 DEF StartFor, sockets
<1>8. CASE Retry \/ AutoJob \/ Session \/ UNCHANGED vars
  BY <1>6, <1>8 DEF Retry, RetryCheck, RetryStart, RetryRaises, AutoJob,
     AutoStart, AutoStarted, AutoRaises, Session, vars, sockets
<1> QED
  BY <1>1, <1>2, <1>3, <1>4, <1>5, <1>7, <1>8 DEF Next, Client

\* A worker starts within the limits.
LEMMA BoundedInit == Init => Bounded
  BY LimitsAssumption, FS_EmptySet DEF Init, Bounded, SubscriptionLimit

\* No client exceeds its limit, restored subscriptions included.
THEOREM Limit == Spec => []SubscriptionLimit
<1>1. TypeOK /\ Bounded /\ [Next]_vars => TypeOK' /\ Bounded'
  BY TypeOKStep, BoundedStep
<1>2. Bounded => SubscriptionLimit
  BY DEF Bounded
<1> QED
  BY <1>1, <1>2, TypeOKInit, BoundedInit, PTL DEF Spec

-----------------------------------------------------------------------------
(***************************************************************************)
(* What is given up upstream.                                              *)
(***************************************************************************)

\* A call of start_smartapi_ws forgets no symbol.
LEMMA StartForgetsNothing ==
    ASSUME NEW symbols, NEW looping, StartWs(symbols, looping)
    PROVE  subscribed \subseteq subscribed'
  BY DEF StartWs, StartBlocked, StartWith, StartNothing, StartUnknown,
     StartAdds, StartAddFails, StartOpens, StartNoToken, StartFails

\* What c leaves and nobody else has is an empty room.
LEMMA EmptiedRooms ==
    ASSUME TypeOK, NEW c \in Clients, NEW symbols \in SUBSET Symbols,
           LeaveRooms(c, symbols)
    PROVE  \A s \in Emptied(c, symbols) : rooms'[s] = {}
  BY DEF TypeOK, LeaveRooms, Emptied

\* Every step gives up upstream only the symbols of empty rooms.
LEMMA GivenUpStep ==
    ASSUME TypeOK, [Next]_vars
    PROVE  \A s \in subscribed \ subscribed' : rooms'[s] = {}
<1> DEFINE Goal == \A s \in subscribed \ subscribed' : rooms'[s] = {}
<1>1. ASSUME NEW c \in Clients, NEW symbols \in SUBSET Symbols,
             LeaveRooms(c, symbols),
             subscribed \ Emptied(c, symbols) \subseteq subscribed'
      PROVE  Goal
  BY <1>1, EmptiedRooms
<1>2. CASE subscribed \subseteq subscribed'
  BY <1>2
<1>3. ASSUME NEW c \in Clients, NEW symbols \in SUBSET Symbols,
             Unsubscribe(c, symbols)
      PROVE  Goal
  BY <1>1, <1>3 DEF Unsubscribe
<1>4. ASSUME NEW c \in Clients, Leave(c) \/ StartRaises(c)
      PROVE  Goal
  <2>1. subs[c] \in SUBSET Symbols
    BY DEF TypeOK
  <2>2. LeaveRooms(c, subs[c])
    BY <1>4 DEF Leave, StartRaises, Hangup, Disconnect
  <2>3. subscribed \ Emptied(c, subs[c]) \subseteq subscribed'
    BY <1>4 DEF Leave, StartRaises
  <2> QED
    BY <1>1, <2>1, <2>2, <2>3
<1>5. ASSUME NEW c \in Clients, NEW symbols \in SUBSET Symbols,
             Connect(c) \/ Subscribe(c, symbols) \/ Drop(c) \/ StartFor(c)
      PROVE  Goal
  BY <1>2, <1>5, StartForgetsNothing
     DEF Connect, Subscribe, Drop, StartFor, feed
<1>6. ASSUME NEW u \in Users, Expire(u)
      PROVE  Goal
  BY <1>2, <1>6 DEF Expire, feed
<1>7. CASE Retry
  BY <1>2, <1>7, StartForgetsNothing
     DEF Retry, RetryCheck, RetryStart, RetryRaises
<1>8. CASE AutoJob
  BY <1>2, <1>8, StartForgetsNothing
     DEF AutoJob, AutoStart, AutoStarted, AutoRaises, feed
<1>9. CASE Session \/ UNCHANGED vars
  BY <1>2, <1>9 DEF Session, vars, feed
<1> QED
  BY <1>3, <1>4, <1>5, <1>6, <1>7, <1>8, <1>9 DEF Next, Client

\* A symbol is given up upstream only when no client is left in its room.
THEOREM GivenUp == Spec => GivenUpWhenUnwanted
<1>1. TypeOK /\ [Next]_vars
      => [\A s \in subscribed \ subscribed' : rooms'[s] = {}]_vars
  BY GivenUpStep
<1> QED
  BY <1>1, TypeOKInit, TypeOKStep, PTL DEF Spec, GivenUpWhenUnwanted
=============================================================================
