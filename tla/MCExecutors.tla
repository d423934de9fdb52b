----------------------------- MODULE MCExecutors -----------------------------
(***************************************************************************)
(* Executors for TLC: two threads of a worker.                             *)
(***************************************************************************)
EXTENDS Executors

CONSTANTS t1, t2
=============================================================================
