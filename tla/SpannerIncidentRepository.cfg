SPECIFICATION MCSpannerSpec
CONSTANTS
    IncidentIds = {i1, i2}
    SourceEvents = {s1, s2}
    CorrelationKeys = {k}
    NoKey = NoKey
    NoOwner = NoOwner
    Keys = {1, 2, 3, 4, 5}
    Times = {0}
    Bodies <- MCBodies
    MaxSourceEvents = 2
    MaxRevision = 9
    Long = i1
    ShortRevision = 1
INVARIANTS ActiveKeysExact OneActivePerCorrelation LaterCallsSucceed
PROPERTIES RepositoryContract
CHECK_DEADLOCK FALSE
SYMMETRY Sources
