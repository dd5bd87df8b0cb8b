SPECIFICATION Spec
CONSTANTS
    Previews = {p1, p2}
    Candidates = {c1}
    Keys = {k1, k2}
    Idle = Idle
    Unclaimed = Unclaimed
    TTL = 1
    Retention = 1
    PendingCapacity = 1
    TaskCapacity = 1
    MaxTime = 2
    MaxRequests = 4
    MaxCrashes = 1
INVARIANT CommitsAreAccountedFor
PROPERTIES
    ImplementsContract
    RecoverableIsKept
CHECK_DEADLOCK FALSE
