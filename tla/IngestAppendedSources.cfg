SPECIFICATION MCIngestSpec
CONSTANTS
    s1 = s1
    s2 = s2
    i1 = i1
    i2 = i2
    k = k
    IncidentIds = {i1, i2}
    SourceEvents = {s1, s2}
    CorrelationKeys = {k}
    NoKey = NoKey
    NoOwner = NoOwner
    Keys = {0, 1}
    Times = {0}
    Bodies <- MCBodies
    MaxSourceEvents = 2
    MaxRevision = 2
    EventCandidate <- MCCandidates
    EventKey <- MCEventKey
    AgentsAppendSources = TRUE
INVARIANTS ExactReplayAcknowledged
CHECK_DEADLOCK FALSE
