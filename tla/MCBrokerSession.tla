--------------------------- MODULE MCBrokerSession ---------------------------
(***************************************************************************)
(* BrokerSession for TLC: a thread and the event loop.                     *)
(***************************************************************************)
EXTENDS BrokerSession

CONSTANTS t1
=============================================================================
