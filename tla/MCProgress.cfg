SPECIFICATION FairSpec
CONSTANTS
    None = None
    Posts = {q1, q2}
    Gets = {}
    Calls = {c1}
    MaxProbes = 0
    Runs = {r1, r2}
    Threads = {t1}
    Home <- MCHome
    MaxConcurrent = 1
    Slow = {r1, r2}
    MaxDisturbances = 1
    Events = {1, 2}
    Workers = {w1}
    NoOwner = NoOwner
    ClaimLimit = 1
    LeaseSeconds = 1
    RetryDelay = 1
    MaxAttempts = 2
    MaxTime = 7
    Sites = {a, b}
    Kind = "pointtopointservice"
    MaxErrors = 0
    MaxCrashes = 0
    MaxInstallFailures = 1
    MaxReports = 2
PROPERTIES
    LeaseComesBack
    StreamsEnd
    EventuallySettled
    ServiceComesUp
CHECK_DEADLOCK FALSE
