\* A thread and the loop, restarts, other workers.
CONSTANTS
    t1 = t1
    Threads = {t1}
    Loop = Loop
    Tokens = {"a"}
    NoToken = "none"
    NoConnector = "no connector"
SPECIFICATION FairSpec
INVARIANTS TypeOK 
PROPERTIES AuthFallback Reconnects
