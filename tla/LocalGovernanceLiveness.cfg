SPECIFICATION FairSpec
CONSTANTS
    Callers = {c1, c2}
    PrepareRequests <- MCPrepareFew
    DecideRequests <- MCDecideFew
    ExecuteRequests <- MCExecuteFew
    ApprovalTtl = 1
    AbandonTargets = {"FAILED"}
    MaxTime = 1
    MaxCrashes = 1
PROPERTIES EventuallyGoverned
CHECK_DEADLOCK FALSE
