SPECIFICATION Spec
CONSTANTS
    c1 = c1
    c2 = c2
    c3 = c3
    w1 = w1
    w2 = w2
    s1 = s1
    s2 = s2
    b1 = b1
    b2 = b2
    b3 = b3
    Workers = {w1, w2}
    Calls = {c1, c2, c3}
    WorkerOf <- TwoWorkers
    Objects = {b1, b2, b3}
    Symbols = {s1, s2}
    Pnls <- ALoss
    Capital = 2
    MinBalance = 1
    LossLimit = 1
    MaxTrades = 2
    MaxPositions = 1
    MaxJournal = 2
    TradingEnabled = TRUE
    RedisFails = FALSE
    DatabaseFails = FALSE
    MaxOps = 2
    MaxEvents = 1
    None = None
    Lost = Lost
SYMMETRY SymbolSymmetry
INVARIANTS
    TypeOK
    SnapshotsCoherent
    PositionLimit
    LockExclusive
PROPERTIES
    TableHasOutcome
