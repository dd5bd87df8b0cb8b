SPECIFICATION Spec
CONSTANTS
    Callers = {c1, c2}
    PrepareRequests <- MCPrepare
    DecideRequests <- MCDecide
    ExecuteRequests <- MCExecute
    ApprovalTtl = 1
    AbandonTargets = {"FAILED"}
    MaxTime = 1
    MaxCrashes = 1
INVARIANTS RunAuthorised OneRequestOwns FailureBindingComplete
CHECK_DEADLOCK FALSE
SYMMETRY CallerSymmetry
