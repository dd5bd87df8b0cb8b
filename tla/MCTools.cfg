SPECIFICATION Spec
CONSTANTS
    None = None
    Torn = Torn
    Foreign = Foreign
    Broken = Broken
    c1 = c1
    c2 = c2
    c3 = c3
    Ledger <- MCLedger
    Versions <- MCVersions
    VersionOf <- MCVersionOf
    Fits <- MCFits
    Fixable <- MCFixable
    Commits = {c1, c2, c3}
    Builders = {b1, b2}
    MaxFaults = 2
    MaxMoves = 2
    TraceFaults = 3
    MaxOutside = 2
    MaxIdentity = 9
    Windows = 3
    EventLimit = 24
    FirstParty = {w1, w2, w3}
    MaxTokens = 5
    good = good
    rebuilt = rebuilt
    unclean = unclean
    old = old
    new = new
    Wheels = {good, rebuilt, unclean}
    Clean = {good, rebuilt}
    Deps = {old, new}
    Vulnerable = {old}
    first = first
    second = second
    other = other
    d1 = d1
    d2 = d2
    Images = {first, second, other}
    OnBase = {first, second}
    Databases = {d1, d2}
    MaxAge = 1
    MaxRunAge = 2
    Skew = 1
    MaxClock = 3
    MaxChanges = 1
INVARIANTS
    ReportsAreTrue
    LeftoversAreReported
    CalculationsAreExact
    VerifiedIsReleasable
PROPERTIES
    ForeignFilesAreKept
    BundleIsCommitBound
CHECK_DEADLOCK FALSE
