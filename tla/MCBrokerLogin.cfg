SPECIFICATION FairSpec
CONSTANTS
    request = request
    stream = stream
    NoThread = NoThread
    Threads = {request, stream}
    Works <- RequestAndStream
    MaxSessions = 2
    MaxRetries = 2
    MaxFetches = 2
    BreakerThreshold = 2
    AuthThreshold = 2
INVARIANTS
    TypeOK
    OneAtATimeUnlessCooling
PROPERTIES
    KeepsBreaker
    CallsReturn
    Recovers
