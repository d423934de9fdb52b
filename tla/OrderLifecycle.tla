---------------------------- MODULE OrderLifecycle ----------------------------
(***************************************************************************)
(* What the order router promises of its orders, with threads, sessions    *)
(* and workers left out: the states that are written to order_states and   *)
(* what orders.status then is.  An order is executed at most once for each *)
(* confirmation, and each execution has at most one outcome.               *)
(***************************************************************************)
EXTENDS Integers

CONSTANT OrderIds

VARIABLES
    status,     \* orders.status, ABSENT before the order is placed
    log         \* rows of order_states by order and state

States == {"PENDING_CONFIRMATION", "CONFIRMED", "PENDING_EXECUTION",
           "FILLED", "REJECTED", "FAILED"}

Init ==
    /\ status = [o \in OrderIds |-> "ABSENT"]
    /\ log = [o \in OrderIds |-> [s \in States |-> 0]]

Placed(o) == log[o]["PENDING_CONFIRMATION"] > 0

\* The states are logged and the last of them becomes the status, unless
\* another session has logged it before: a session does not write a column
\* that it believes to hold the value already.
Record(o, states, last) ==
    /\ log' = [log EXCEPT ![o] =
                 [s \in States |-> @[s] + (IF s \in states THEN 1 ELSE 0)]]
    /\ \/ status' = [status EXCEPT ![o] = last]
       \/ log[o][last] > 0 /\ UNCHANGED status

Place(o) ==
    /\ status[o] = "ABSENT"
    /\ Record(o, {"PENDING_CONFIRMATION"}, "PENDING_CONFIRMATION")

Confirm(o) == Placed(o) /\ Record(o, {"CONFIRMED"}, "CONFIRMED")

\* On confirmation, or because the broker does not know the symbol.
Reject(o) == Placed(o) /\ Record(o, {"REJECTED"}, "REJECTED")

\* There is a confirmation that has not been executed.
Executable(o) == log[o]["PENDING_EXECUTION"] < log[o]["CONFIRMED"]

Start(o) ==
    /\ Executable(o)
    /\ Record(o, {"PENDING_EXECUTION"}, "PENDING_EXECUTION")

Settle(o) ==
    /\ log[o]["FILLED"] + log[o]["FAILED"] < log[o]["PENDING_EXECUTION"]
    /\ \E s \in {"FILLED", "FAILED"} : Record(o, {s}, s)

\* On paper an order is executed and filled in one commit.
PaperFill(o) ==
    /\ Executable(o)
    /\ Record(o, {"PENDING_EXECUTION", "FILLED"}, "FILLED")

Next == \E o \in OrderIds :
            \/ Place(o) \/ Confirm(o) \/ Reject(o)
            \/ Start(o) \/ Settle(o) \/ PaperFill(o)

Spec == Init /\ [][Next]_<<status, log>>
=============================================================================
