---------------------------- MODULE LoginBreaker ----------------------------
(***************************************************************************)
(* What the circuit breaker promises the broker, with threads, mutexes and *)
(* retries left out: the transitions BrokerCircuitBreaker documents        *)
(* (token_manager.py:534), taken by one client that logs in, waits for the *)
(* answer and tells the breaker of it before it logs in again.             *)
(***************************************************************************)
EXTENDS Integers

CONSTANT BreakerThreshold   \* consecutive failures that open the breaker

VARIABLES
    state,      \* CLOSED, OPEN or HALF_OPEN
    failures,   \* consecutive failures
    sent,       \* logins sent since the breaker last closed or opened
    pending     \* a login has been sent and not been answered

vars == <<state, failures, sent, pending>>

Init == state = "CLOSED" /\ failures = 0 /\ sent = 0 /\ pending = FALSE

\* OPEN -> 10 minutes elapsed -> HALF_OPEN
Elapse ==
    /\ state = "OPEN"
    /\ state' = "HALF_OPEN"
    /\ UNCHANGED <<failures, sent, pending>>

\* A login; an open breaker is HALF_OPEN with it, once its time is over.
Send ==
    /\ ~pending
    /\ pending' = TRUE
    /\ sent' = sent + 1
    /\ state' = IF state = "OPEN" THEN "HALF_OPEN" ELSE state
    /\ UNCHANGED failures

\* HALF_OPEN -> success -> CLOSED, and a success ends a run of failures.
Succeed ==
    /\ pending
    /\ state' = "CLOSED" /\ failures' = 0
    /\ sent' = 0 /\ pending' = FALSE

\* CLOSED -> 5 consecutive failures -> OPEN; HALF_OPEN -> failure -> OPEN
FailOpens ==
    /\ pending
    /\ state = "HALF_OPEN" \/ failures + 1 = BreakerThreshold
    /\ state' = "OPEN" /\ failures' = BreakerThreshold
    /\ sent' = 0 /\ pending' = FALSE

Fail ==
    /\ pending
    /\ state = "CLOSED" /\ failures + 1 < BreakerThreshold
    /\ failures' = failures + 1
    /\ pending' = FALSE
    /\ UNCHANGED <<state, sent>>

Next == Elapse \/ Send \/ Succeed \/ FailOpens \/ Fail

Spec == Init /\ [][Next]_vars
=============================================================================
