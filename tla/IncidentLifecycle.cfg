SPECIFICATION Spec
CONSTANTS
    Reports <- MCReports
    Decisions <- MCDecisions
    Runs <- MCRuns
    Verifications <- MCVerifications
    Plans <- MCPlans
    SourceEvents = {}
    Times = {1, 2}
    MaxRevision = 10
    MaxVerifications = 1
INVARIANTS RemediatedIsApproved VerifiedIsExecuted
PROPERTIES RequestedActionsStay
CHECK_DEADLOCK FALSE
