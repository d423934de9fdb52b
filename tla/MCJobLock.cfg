SPECIFICATION FairSpec
CONSTANTS
    Workers = {w1, w2}
    Period = 3
    Grace = 0
    Delay = 1
    Ttl = 2
    Retries = 2
INVARIANTS
    TimeGivenOnce
    LockMeansStarted
PROPERTIES
    LeavesDegraded
