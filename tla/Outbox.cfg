SPECIFICATION Spec
CONSTANTS
    Events = {1, 2}
    Workers = {w1, w2}
    NoOwner = NoOwner
    ClaimLimit = 1
    LeaseSeconds = 1
    RetryDelay = 1
    MaxAttempts = 2
    MaxTime = 2
SYMMETRY WorkerSymmetry
INVARIANTS FencingTokenUnique NewestAttemptOwns
CHECK_DEADLOCK FALSE
