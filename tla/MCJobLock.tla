------------------------------ MODULE MCJobLock ------------------------------
(***************************************************************************)
(* An instance of JobLock: two workers and the smallest times in the order *)
(* that the code's have (a grace and a delay shorter than the lock, a lock *)
(* that may be taken late and still ends before the next time).            *)
(***************************************************************************)
EXTENDS JobLock
=============================================================================
