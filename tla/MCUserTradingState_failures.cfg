SPECIFICATION FairSpec
CONSTANTS
    c1 = c1
    c2 = c2
    c3 = c3
    w1 = w1
    w2 = w2
    s1 = s1
    s2 = s2
    b1 = b1
    b2 = b2
    b3 = b3
    Workers = {w1}
    Calls = {c1, c2}
    WorkerOf <- TwoWorkers
    Objects = {b1, b2}
    Symbols = {s1}
    Pnls <- ALoss
    Capital = 2
    MinBalance = 0
    LossLimit = 1
    MaxTrades = 2
    MaxPositions = 1
    MaxJournal = 1
    TradingEnabled = TRUE
    RedisFails = TRUE
    DatabaseFails = TRUE
    MaxOps = 2
    MaxEvents = 0
    None = None
    Lost = Lost
PROPERTIES
    RequestReturns
