----------------------------- MODULE MCMarketFeed -----------------------------
(***************************************************************************)
(* Instances of MarketFeed: two connections of one user, two symbols.      *)
(***************************************************************************)
EXTENDS MarketFeed

CONSTANTS c1, c2, u1, s1, s2

OneUser == [c \in Clients |-> u1]
=============================================================================
