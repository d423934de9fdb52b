--------------------------- MODULE MCOrderRouter ---------------------------
(***************************************************************************)
(* Instances of OrderRouter: two threads in two workers, one user, one     *)
(* symbol.  The sizes, order ids and settings are chosen in the .cfg files.*)
(***************************************************************************)
EXTENDS OrderRouter, TLC

CONSTANTS t1, t2, w1, w2, o1, o2

MCWorkerOf == t1 :> w1 @@ t2 :> w2

Live == [enabled |-> TRUE, mode |-> "LIVE", confirmed |-> TRUE]
Unconfirmed == [enabled |-> TRUE, mode |-> "LIVE", confirmed |-> FALSE]
Paper == [enabled |-> TRUE, mode |-> "PAPER", confirmed |-> FALSE]
Stopped == [enabled |-> FALSE, mode |-> "LIVE", confirmed |-> TRUE]

PaperOnly == {Paper}
LiveOrStopped == {Live, Stopped}
LiveOrPaper == {Live, Paper}
UnconfirmedOnly == {Unconfirmed}

OneSize == {1}
TwoSizes == {1, 2}

OrderSymmetry == Permutations({o1, o2})
=============================================================================
