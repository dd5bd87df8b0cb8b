SPECIFICATION Spec
CONSTANTS
    None = None
    Posts = {p1, p2}
    Gets = {g1}
    Calls = {c1}
    MaxProbes = 1
    PlanLength = 2
    Runners = {r1, r2}
    Backoffs = 1
    MaxRuns = 1
    NoRunner = NoRunner
    Observations <- MCObservations
    Policies <- MCPolicies
    Delays <- MCDelays
    MaxTime = 7
    i1 = i1
    i2 = i2
    s1 = s1
    k1 = k1
    Ids = {i1, i2}
    Sources = {s1}
    Keys = {k1}
    NoCorrelation = NoCorrelation
    StoreRequests <- MCRequests
    Stores <- MCStores
    Callers = {t1, t2}
    MaxSources = 1
    MaxRevision = 2
    Nobody = Nobody
    MaxCrashes = 1
    Procs = {q1, q2}
    Dests = {d1}
    Values = {v1, v2}
    Corrupt = Corrupt
    WritersStopped = TRUE
    MaxCommands = 5
    MaxOutside = 2
    MaxIdentity = 6
SYMMETRY RunnerSymmetry
INVARIANTS
    NothingBesideUnknownOutcome
    CheckpointBehindReceiver
    LeftoverIsReported
    PacingKeepsSchedule
    StoreTellsOneStory
PROPERTY StoredDataIsKept
CHECK_DEADLOCK FALSE
