---------------------------- MODULE MCBrokerLogin ----------------------------
(***************************************************************************)
(* An instance of BrokerLogin: a thread that serves requests, and reaches  *)
(* refreshes and forced logins through its retries, beside the thread of   *)
(* the price stream, which logs in.                                        *)
(***************************************************************************)
EXTENDS BrokerLogin

CONSTANTS request, stream

RequestAndStream == [t \in Threads |->
    IF t = request THEN {"fetch"} ELSE {"login"}]
=============================================================================
