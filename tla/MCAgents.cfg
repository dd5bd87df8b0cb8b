SPECIFICATION Spec
CONSTANTS
    None = None
    r3 = r3
    t1 = t1
    t2 = t2
    Runs = {r1, r2, r3}
    Threads = {t1, t2}
    Home <- MCHome
    MaxConcurrent = 2
    Slow = {r1}
    MaxDisturbances = 1
    MaxEvents = 4
    Sockets = {s1}
    Turns = {n1, n2}
    MaxSends = 3
    MaxCalls = 1
    parent = parent
    vpc = vpc
    subnet = subnet
    route = route
    Resources = {parent, vpc, subnet, route}
    Owner <- MCOwner
    Network <- MCNetwork
    Destinations <- MCDestinations
    MaxFailures = 1
    MaxEdits = 1
    Sites = {a, b}
    Kind = "pointtopointservice"
    MaxErrors = 2
    MaxInstallFailures = 1
    MaxCrashes = 1
    MaxReports = 1
SYMMETRY TurnSymmetry
INVARIANTS
    AnswerContinuesOnce
    MessagesAreBracketed
    ConfirmationReachesItsTask
    TopologyIsCurrent
    PeersShareKeys
CHECK_DEADLOCK FALSE
