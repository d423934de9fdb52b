SPECIFICATION FairSpec
CONSTANTS
    c1 = c1
    c2 = c2
    u1 = u1
    s1 = s1
    s2 = s2
    Clients = {c1, c2}
    Users = {u1}
    UserOf <- OneUser
    Symbols = {s1, s2}
    Watchlist = {s1}
    Delisted = {s1}
    MaxSubscriptions = 1
    MaxRetries = 1
    Faults = {"no stream", "breaker open"}
INVARIANTS
    TypeOK
    RoomsMirror
    GoneLeavesNothing
    SubscriptionLimit
PROPERTIES
    GivenUpWhenUnwanted
    RetryEnds
