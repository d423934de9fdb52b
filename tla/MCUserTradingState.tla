------------------------- MODULE MCUserTradingState -------------------------
(***************************************************************************)
(* Instances of UserTradingState: the requests of one user, served by two  *)
(* workers or by one.                                                      *)
(***************************************************************************)
EXTENDS UserTradingState, TLC

CONSTANTS c1, c2, c3, w1, w2, s1, s2, b1, b2, b3

TwoWorkers == [c \in Calls |-> IF c = c3 THEN w2 ELSE w1]

ALoss == {-1}

SymbolSymmetry == Permutations({s1, s2}) \cup Permutations({b1, b2, b3})
                  \cup Permutations({c1, c2})
=============================================================================
