------------------------------ MODULE MarketFeed ------------------------------
(***************************************************************************)
(* The market feed of one worker: the clients of SocketManager             *)
(* (backend/app/websocket/relay.py), the coroutines that serve them, and   *)
(* the upstream subscription with its reconnect loop                       *)
(* (backend/app/websocket/handler.py) to the SmartAPI connector.           *)
(*                                                                         *)
(* All of it but the connector's thread runs on one event loop, and the    *)
(* locks of SocketManager are never held across an await, so a step lasts  *)
(* from one await that really waits to the next.                           *)
(***************************************************************************)
EXTENDS Integers, FiniteSets

CONSTANTS
    Clients,          \* connections there can be at a time
    Users,
    UserOf,           \* the user of a connection
    Symbols,
    Watchlist,        \* DEFAULT_WATCHLIST
    Delisted,         \* symbols the instrument master may lose
    MaxSubscriptions, \* symbols per client (50 in the code)
    MaxRetries,       \* MAX_RECONNECT_ATTEMPTS (20 in the code)
    Faults            \* what may go wrong beyond a failing connection

ASSUME ConstantsAssumption ==
    /\ UserOf \in [Clients -> Users]
    /\ Watchlist \subseteq Symbols /\ Watchlist # {}
    /\ Delisted \subseteq Symbols /\ IsFiniteSet(Symbols)
    /\ Faults \subseteq {"no stream", "breaker open"}

ASSUME LimitsAssumption == MaxSubscriptions \in Nat /\ MaxRetries \in Nat

VARIABLES
    connected,  \* clients in _connections and _user_map
    subs,       \* SocketManager._subscriptions
    rooms,      \* SocketManager._rooms
    recent,     \* SocketManager._recent_disconnects: symbols to restore
    pc,         \* where the coroutine of each client is
    want,       \* the symbols a client is subscribing to
    started,    \* _smartapi_ws_started
    state,      \* _ws_state
    attempt,    \* _ws_reconnect_attempt, as far as the limit tells
    subscribed, \* _ws_subscribed_symbols
    retry,      \* where _retry_ws_connect is
    plan,       \* the symbols it will start with
    auto,       \* the symbols auto_start_ws will start with
    blocked,    \* is the broker session expired or failed?
    tokens      \* SmartAPIConnector._ws_tokens, by symbol

sockets == <<connected, subs, rooms, recent>>
serving == <<pc, want>>
feed == <<started, state, attempt, subscribed, retry, plan, tokens>>
vars == <<sockets, serving, feed, auto, blocked>>

States ==
    {"DISCONNECTED", "CONNECTED", "RECONNECTING", "AUTH_FAILED", "FAILED"}

TypeOK ==
    /\ connected \subseteq Clients
    /\ subs \in [Clients -> SUBSET Symbols]
    /\ rooms \in [Symbols -> SUBSET Clients]
    /\ recent \in [Users -> SUBSET Symbols]
    /\ pc \in [Clients -> {"gone", "ready", "subscribing"}]
    /\ want \in [Clients -> SUBSET Symbols]
    /\ started \in BOOLEAN /\ blocked \in BOOLEAN
    /\ state \in States
    /\ attempt \in 0 .. MaxRetries + 1
    /\ subscribed \subseteq Symbols
    /\ retry \in {"none", "check", "sleep"}
    /\ plan \subseteq Symbols
    /\ auto \subseteq Symbols
    /\ tokens \subseteq Symbols

Init ==
    /\ connected = {}
    /\ subs = [c \in Clients |-> {}]
    /\ rooms = [s \in Symbols |-> {}]
    /\ recent = [u \in Users |-> {}]
    /\ pc = [c \in Clients |-> "gone"]
    /\ want = [c \in Clients |-> {}]
    /\ started = FALSE /\ blocked \in BOOLEAN
    /\ state = "DISCONNECTED"
    /\ attempt = 0
    /\ subscribed = {}
    /\ retry = "none" /\ plan = {}
    /\ auto = {}
    /\ tokens = {}

-----------------------------------------------------------------------------
(***************************************************************************)
(* start_smartapi_ws.  No await in it; looping says whether the reconnect  *)
(* loop called it, which sets the state once more when it has returned.    *)
(***************************************************************************)

\* The symbols that are not yet in the active stream.
New(symbols) == IF started THEN symbols \ subscribed ELSE symbols

\* Those the instrument master has a token for, which it may not have had, or
\* have no more, when they were noted.
Known(symbols) == {New(symbols) \ lost : lost \in SUBSET Delisted}

SetState(looping, new) ==
    state' = IF looping /\ started' THEN "CONNECTED" ELSE new

\* The loop ends when the stream is started, and goes on otherwise.
KeepRetry(looping) ==
    /\ retry' = IF ~looping THEN retry
                ELSE IF started' THEN "none" ELSE "check"
    /\ UNCHANGED plan

\* _schedule_reconnect: never a second task.
Schedule(looping) ==
    IF looping \/ retry # "none" THEN KeepRetry(looping)
    ELSE retry' = "check" /\ plan' = subscribed'

StartBlocked(looping) ==
    /\ blocked
    /\ UNCHANGED <<started, attempt, subscribed, tokens>>
    /\ SetState(looping, "AUTH_FAILED")
    /\ KeepRetry(looping)

\* All of them are in the active stream, or unknown.
StartNothing(known, looping) ==
    /\ ~blocked /\ started /\ known = {}
    /\ UNCHANGED <<started, attempt, subscribed, tokens>>
    /\ SetState(looping, state)
    /\ KeepRetry(looping)

\* No valid tokens: there is nothing to open a stream with, and no retry.
StartUnknown(known, looping) ==
    /\ ~blocked /\ ~started /\ known = {}
    /\ UNCHANGED <<started, attempt, subscribed, tokens>>
    /\ SetState(looping, "FAILED")
    /\ KeepRetry(looping)

\* The incremental subscription reaches the broker.
StartAdds(known, looping) ==
    /\ ~blocked /\ started /\ known # {}
    /\ subscribed' = subscribed \cup known
    /\ tokens' = tokens \cup known
    /\ UNCHANGED <<started, attempt>>
    /\ SetState(looping, state)
    /\ KeepRetry(looping)

\* It does not: no socket, or one that is closed.
StartAddFails(known, looping) ==
    /\ ~blocked /\ started /\ known \ tokens # {}
    /\ subscribed' = subscribed \cup known
    /\ tokens' = tokens \cup known
    /\ UNCHANGED <<started, attempt>>
    /\ SetState(looping, "RECONNECTING")
    /\ Schedule(looping)

StartOpens(known, looping) ==
    /\ ~blocked /\ ~started /\ known # {}
    /\ subscribed' = subscribed \cup known
    /\ tokens' = tokens \cup known
    /\ started' = TRUE /\ attempt' = 0
    /\ SetState(looping, "CONNECTED")
    /\ KeepRetry(looping)

\* Without a feed token start_ws returns as if it had succeeded; so does the
\* router's fallback to Upstox.
StartNoToken(known, looping) ==
    /\ "no stream" \in Faults
    /\ ~blocked /\ ~started /\ known # {}
    /\ subscribed' = subscribed \cup known
    /\ started' = TRUE /\ attempt' = 0
    /\ UNCHANGED tokens
    /\ SetState(looping, "CONNECTED")
    /\ KeepRetry(looping)

\* The login or the connector fails.
StartFails(known, looping) ==
    /\ ~blocked /\ ~started /\ known # {}
    /\ subscribed' = subscribed \cup known
    /\ UNCHANGED <<started, attempt, tokens>>
    /\ SetState(looping, "RECONNECTING")
    /\ Schedule(looping)

\* A start that gets past the check of the broker session.
StartWith(known, looping) ==
    \/ StartNothing(known, looping) \/ StartUnknown(known, looping)
    \/ StartAdds(known, looping) \/ StartAddFails(known, looping)
    \/ StartOpens(known, looping) \/ StartNoToken(known, looping)
    \/ StartFails(known, looping)

StartWs(symbols, looping) ==
    /\ StartBlocked(looping)
       \/ \E known \in Known(symbols) : StartWith(known, looping)
    /\ UNCHANGED blocked

\* The router raises in the incremental subscription (its breaker is open).
CanRaise(known) ==
    "breaker open" \in Faults /\ ~blocked /\ started /\ known # {}

-----------------------------------------------------------------------------
(***************************************************************************)
(* The clients.                                                            *)
(***************************************************************************)

Connect(c) ==
    LET restored == recent[UserOf[c]] IN
    /\ pc[c] = "gone"
    /\ pc' = [pc EXCEPT ![c] = "ready"]
    /\ connected' = connected \cup {c}
    /\ recent' = [recent EXCEPT ![UserOf[c]] = {}]
    /\ subs' = [subs EXCEPT ![c] = restored]
    /\ rooms' = [s \in Symbols |-> IF s \in restored THEN rooms[s] \cup {c}
                                   ELSE rooms[s]]
    /\ UNCHANGED <<want, feed, auto, blocked>>

\* Mutant: the symbols the client has are not counted.
Subscribe_Uncounted(c, symbols) ==
    /\ pc[c] = "ready"
    /\ Cardinality(symbols) <= MaxSubscriptions
    /\ pc' = [pc EXCEPT ![c] = "subscribing"]
    /\ want' = [want EXCEPT ![c] = symbols]
    /\ subs' = [subs EXCEPT ![c] = @ \cup symbols]
    /\ rooms' = [s \in Symbols |-> IF s \in symbols THEN rooms[s] \cup {c}
                                   ELSE rooms[s]]
    /\ UNCHANGED <<connected, recent, feed, auto, blocked>>

\* A subscribe message, up to the awaits that send and preload.
Subscribe(c, symbols) ==
    /\ pc[c] = "ready"
    /\ Cardinality(subs[c]) + Cardinality(symbols) <= MaxSubscriptions
    /\ pc' = [pc EXCEPT ![c] = "subscribing"]
    /\ want' = [want EXCEPT ![c] = symbols]
    /\ subs' = [subs EXCEPT ![c] = @ \cup symbols]
    /\ rooms' = [s \in Symbols |-> IF s \in symbols THEN rooms[s] \cup {c}
                                   ELSE rooms[s]]
    /\ UNCHANGED <<connected, recent, feed, auto, blocked>>

StartFor(c) ==
    /\ pc[c] = "subscribing"
    /\ pc' = [pc EXCEPT ![c] = "ready"]
    /\ want' = [want EXCEPT ![c] = {}]
    /\ StartWs(want[c], FALSE)
    /\ UNCHANGED <<sockets, auto>>

\* Mutant: whatever the client leaves is given up.
Emptied_All(c, symbols) == symbols

\* The symbols nobody subscribes to once c has left them.
Emptied(c, symbols) == {s \in symbols : rooms[s] \subseteq {c}}

\* The rooms and subscriptions c leaves.
LeaveRooms(c, symbols) ==
    /\ subs' = [subs EXCEPT ![c] = @ \ symbols]
    /\ rooms' = [s \in Symbols |-> IF s \in symbols THEN rooms[s] \ {c}
                                   ELSE rooms[s]]

\* unsubscribe hands names to a connector that knows tokens: they stay.
Unsubscribe(c, symbols) ==
    /\ pc[c] = "ready"
    /\ LeaveRooms(c, symbols)
    /\ subscribed' = subscribed \ Emptied(c, symbols)
    /\ UNCHANGED <<connected, recent, serving, started, state, attempt, retry,
                   plan, tokens, auto, blocked>>

\* Mutant: a client that was dropped already is left alone.
Disconnect_Once(c) ==
    IF c \in connected
    THEN /\ connected' = connected \ {c}
         /\ LeaveRooms(c, subs[c])
         /\ recent' = [recent EXCEPT ![UserOf[c]] = subs[c]]
    ELSE UNCHANGED sockets

\* Mutant: the subscriptions go, the rooms stay.
Disconnect_NoRooms(c) ==
    /\ connected' = connected \ {c}
    /\ subs' = [subs EXCEPT ![c] = {}]
    /\ UNCHANGED rooms
    /\ recent' = IF c \in connected
                 THEN [recent EXCEPT ![UserOf[c]] = subs[c]] ELSE recent

\* SocketManager.disconnect; only the first of a client leaves a payload.
Disconnect(c) ==
    /\ connected' = connected \ {c}
    /\ LeaveRooms(c, subs[c])
    /\ recent' = IF c \in connected
                 THEN [recent EXCEPT ![UserOf[c]] = subs[c]] ELSE recent

\* A broadcast could not send to the client; the coroutine does not notice,
\* and the symbols that have lost their last client are not given up.  Of two
\* broadcasts the second disconnects what the first has dropped.
Drop(c) ==
    /\ pc[c] # "gone"
    /\ Disconnect(c)
    /\ UNCHANGED <<serving, feed, auto, blocked>>

Hangup(c) ==
    /\ pc' = [pc EXCEPT ![c] = "gone"]
    /\ want' = [want EXCEPT ![c] = {}]
    /\ Disconnect(c)
    /\ UNCHANGED <<started, state, attempt, retry, plan, tokens, auto, blocked>>

\* The socket is closed, or the coroutine fails to send.
Leave(c) ==
    /\ pc[c] = "ready"
    /\ subscribed' = subscribed \ Emptied(c, subs[c])
    /\ Hangup(c)

\* What start_smartapi_ws raises ends the coroutine.
StartRaises(c) ==
    /\ pc[c] = "subscribing"
    /\ \E known \in Known(want[c]) :
        /\ CanRaise(known)
        /\ subscribed' = (subscribed \cup known) \ Emptied(c, subs[c])
    /\ Hangup(c)

\* The grace period of a user is over.
Expire(u) ==
    /\ recent[u] # {}
    /\ recent' = [recent EXCEPT ![u] = {}]
    /\ UNCHANGED <<connected, subs, rooms, serving, feed, auto, blocked>>

-----------------------------------------------------------------------------
(***************************************************************************)
(* The reconnect loop and the scheduler.                                   *)
(***************************************************************************)

StopRetry(new) ==
    /\ retry' = "none"
    /\ state' = new

\* Mutant: attempts are not counted.
RetryCheck_Uncounted ==
    /\ retry = "check"
    /\ retry' = IF started THEN "none" ELSE "sleep"
    /\ UNCHANGED <<sockets, serving, started, state, attempt, subscribed, plan,
                   tokens, auto, blocked>>

\* Mutant: there is no last attempt.
RetryCheck_Endless ==
    /\ retry = "check"
    /\ IF started THEN StopRetry(state) /\ UNCHANGED attempt
       ELSE /\ attempt' = attempt + 1
            /\ IF blocked THEN StopRetry("AUTH_FAILED")
               ELSE retry' = "sleep" /\ state' = "RECONNECTING"
    /\ UNCHANGED <<sockets, serving, started, subscribed, plan, tokens, auto,
                   blocked>>

\* The head of the loop.
RetryCheck ==
    /\ retry = "check"
    /\ IF started THEN StopRetry(state) /\ UNCHANGED attempt
       ELSE /\ attempt' = IF attempt > MaxRetries THEN attempt ELSE attempt + 1
            /\ IF blocked \/ attempt' > MaxRetries
               THEN StopRetry("AUTH_FAILED")
               ELSE retry' = "sleep" /\ state' = "RECONNECTING"
    /\ UNCHANGED <<sockets, serving, started, subscribed, plan, tokens, auto,
                   blocked>>

RetryStart ==
    /\ retry = "sleep"
    /\ StartWs(plan, TRUE)
    /\ UNCHANGED <<sockets, serving, auto>>

\* An exception: the loop ends, as another caller has started the stream.
RetryRaises ==
    /\ retry = "sleep"
    /\ \E known \in Known(plan) :
        CanRaise(known) /\ subscribed' = subscribed \cup known
    /\ \/ StopRetry("RECONNECTING") /\ UNCHANGED blocked
       \/ StopRetry("AUTH_FAILED") /\ blocked' = TRUE
    /\ UNCHANGED <<sockets, serving, started, attempt, plan, tokens, auto>>

\* auto_start_ws_job, every minute, up to the await of auto_start_ws.
AutoStart ==
    /\ auto = {}
    /\ state \notin {"CONNECTED", "RECONNECTING"}
    /\ ~started \/ state \in {"DISCONNECTED", "FAILED"}
    /\ auto' = IF subscribed = {} THEN Watchlist ELSE subscribed
    /\ UNCHANGED <<sockets, serving, feed, blocked>>

AutoStarted ==
    /\ auto # {}
    /\ auto' = {}
    /\ StartWs(auto, FALSE)
    /\ UNCHANGED <<sockets, serving>>

\* The exception is the scheduler's to log.
AutoRaises ==
    /\ auto # {}
    /\ \E known \in Known(auto) :
        CanRaise(known) /\ subscribed' = subscribed \cup known
    /\ auto' = {}
    /\ UNCHANGED <<sockets, serving, started, state, attempt, retry, plan,
                   tokens, blocked>>

\* The broker session expires, or a login renews it.
Session ==
    /\ blocked' = ~blocked
    /\ UNCHANGED <<sockets, serving, feed, auto>>

Client(c) ==
    \/ Connect(c) \/ StartFor(c) \/ StartRaises(c) \/ Leave(c) \/ Drop(c)
    \/ \E symbols \in (SUBSET Symbols) \ {{}} :
        Subscribe(c, symbols) \/ Unsubscribe(c, symbols)

Retry == RetryCheck \/ RetryStart \/ RetryRaises

AutoJob == AutoStart \/ AutoStarted \/ AutoRaises

Next ==
    \/ \E c \in Clients : Client(c)
    \/ \E u \in Users : Expire(u)
    \/ Retry \/ AutoJob \/ Session

Spec == Init /\ [][Next]_vars

\* The event loop runs the reconnect task and the scheduler's job.
FairSpec == Spec /\ WF_vars(Retry) /\ WF_vars(AutoJob)

-----------------------------------------------------------------------------
(***************************************************************************)
(* Properties.                                                             *)
(***************************************************************************)

\* The two sides of a subscription agree: a tick goes to a client exactly when
\* the client has the symbol (relay.py keeps rooms and subscriptions apart).
RoomsMirror ==
    \A c \in Clients, s \in Symbols : c \in rooms[s] <=> s \in subs[c]

\* A connection that is gone leaves nothing behind, even when a broadcast had
\* dropped it and its coroutine subscribed again afterwards.
GoneLeavesNothing ==
    \A c \in Clients :
        pc[c] = "gone" => c \notin connected /\ \A s \in Symbols : c \notin rooms[s]

\* No client exceeds its limit, restored subscriptions included.
SubscriptionLimit == \A c \in Clients : Cardinality(subs[c]) <= MaxSubscriptions

\* A symbol is given up upstream only when no client is left in its room.
GivenUpWhenUnwanted ==
    [][\A s \in subscribed \ subscribed' : rooms'[s] = {}]_vars

\* The reconnect loop ends: started, or given up after the last attempt.
RetryEnds == retry # "none" ~> retry = "none"
=============================================================================
