SPECIFICATION Spec
CONSTANTS
    t1 = t1
    t2 = t2
    w1 = w1
    w2 = w2
    o1 = o1
    o2 = o2
    Threads = {t1, t2}
    Workers = {w1, w2}
    WorkerOf <- MCWorkerOf
    Users = {u1}
    Symbols = {s1}
    OrderIds = {o1}
    Quantities <- OneSize
    Envs <- UnconfirmedOnly
    MaxAttempts = 1
    NoOrder = NoOrder
    NoRow = NoRow
INVARIANTS
    LiveNeedsConfirmation
