------------------------- MODULE IncidentStateMachine -------------------------
(***************************************************************************)
(* The pure incident state machine of telco_domain: the transition graph,  *)
(* the aggregate validator of Incident and transition_incident, which      *)
(* either rejects a requested update or returns the validated successor.   *)
(*                                                                         *)
(* An incident is a record                                                 *)
(*   [status, revision, updated_at, correlation_key, body]                 *)
(* where body holds the fields a caller may update:                        *)
(*   source_event_ids  the aggregate's own source events (a set)           *)
(*   duplicate_of      TRUE iff another incident is named                  *)
(*   recommendations   set of actions [id, hash]                           *)
(*   rca_reports       set of [version, eligible, recs]                    *)
(*   approvals         set of [request, seq, status, report, action,       *)
(*                             decided_at, expires_at]                     *)
(*   action_runs       set of [action, hash, attempt, status]              *)
(*   verification_runs sequence of [status, runs], runs <<action, attempt>>*)
(*                                                                         *)
(* The append-only tuples whose order the code never reads are sets here.  *)
(* "eligible" stands for the report's own conditions (status, evidence and *)
(* a conclusion); an action's hash for its whole content; a report's       *)
(* version, which is unique in an incident, for its id.  Only approvals of *)
(* type NETWORK_ACTION are modelled: the others never cover an action.     *)
(***************************************************************************)
EXTENDS Integers, Sequences

IncidentStatus ==
    {"DETECTED", "TRIAGED", "INVESTIGATING", "RCA_COMPLETE",
     "AWAITING_APPROVAL", "REMEDIATING", "VERIFYING", "RESOLVED", "CLOSED",
     "DUPLICATE", "REJECTED", "FAILED", "CANCELLED", "REOPENED"}

\* _TRANSITIONS
Transitions(s) ==
    CASE s = "DETECTED" -> {"TRIAGED", "DUPLICATE", "FAILED", "CANCELLED"}
      [] s = "TRIAGED" ->
           {"INVESTIGATING", "DUPLICATE", "REJECTED", "FAILED", "CANCELLED"}
      [] s = "INVESTIGATING" ->
           {"RCA_COMPLETE", "DUPLICATE", "FAILED", "CANCELLED"}
      [] s = "RCA_COMPLETE" ->
           {"AWAITING_APPROVAL", "INVESTIGATING", "REJECTED", "FAILED", "CANCELLED"}
      [] s = "AWAITING_APPROVAL" ->
           {"REMEDIATING", "REJECTED", "FAILED", "CANCELLED"}
      [] s = "REMEDIATING" -> {"VERIFYING", "FAILED", "CANCELLED"}
      [] s = "VERIFYING" -> {"RESOLVED", "REOPENED", "FAILED", "CANCELLED"}
      [] s = "RESOLVED" -> {"CLOSED", "REOPENED"}
      [] s = "CLOSED" -> {"REOPENED"}
      [] s = "REOPENED" -> {"INVESTIGATING", "FAILED", "CANCELLED"}
      [] OTHER -> {}

TerminalStatuses == {"DUPLICATE", "REJECTED", "FAILED", "CANCELLED"}
SettledStatuses == TerminalStatuses \cup {"CLOSED"}

\* Mutant of FrozenRecommendationStatuses: the plan thaws once it is carried out.
FrozenUntilApproved == {"RCA_COMPLETE", "AWAITING_APPROVAL"}

\* _FROZEN_RECOMMENDATION_STATUSES
FrozenRecommendationStatuses ==
    {"RCA_COMPLETE", "AWAITING_APPROVAL", "REMEDIATING", "VERIFYING",
     "RESOLVED", "CLOSED"}

-----------------------------------------------------------------------------
\* Approvals.

\* ApprovalDecision.validate_timeline
ValidDecision(d) ==
    /\ (d.status = "PENDING") <=> (d.seq = 0)
    /\ d.status = "APPROVED" => d.decided_at < d.expires_at
    /\ d.status = "EXPIRED" => d.decided_at >= d.expires_at

\* ApprovalDecision.is_effective
IsEffective(d, t) ==
    d.status = "APPROVED" /\ d.decided_at <= t /\ t < d.expires_at

\* ApprovalDecision.covers_action
CoversAction(d, action, report) ==
    d.report = report.version /\ d.action = action

\* _latest_approval_events: the newest event of every request.
LatestApprovals(body) ==
    { d \in body.approvals :
        \A e \in body.approvals : e.request = d.request => e.seq <= d.seq }

-----------------------------------------------------------------------------
\* Incident.validate_aggregate and _validate_approval_lifecycles.

\* The events of one approval request: contiguous from a PENDING event, all
\* with the same binding.
ValidRequest(events) ==
    LET seqs == { e.seq : e \in events }
    IN  /\ \A n \in seqs : n = 0 \/ n - 1 \in seqs
        /\ \A e, f \in events :
             /\ e.report = f.report
             /\ e.action = f.action
             /\ e.expires_at = f.expires_at

\* Mutant of ApprovalBindings: an approval need not name a recommended action.
ApprovalBindingsReportOnly(body) ==
    \A d \in body.approvals :
        \E r \in body.rca_reports : r.version = d.report

\* Every approval binds a report of the incident and a currently recommended
\* action.
ApprovalBindings(body) ==
    \A d \in body.approvals :
        /\ \E r \in body.rca_reports : r.version = d.report
        /\ d.action \in body.recommendations

ValidBody(body) ==
    /\ \A a, b \in body.recommendations : a.id = b.id => a = b
    /\ \A r, q \in body.rca_reports : r.version = q.version => r = q
    /\ \A d, e \in body.approvals :
         d.request = e.request /\ d.seq = e.seq => d = e
    /\ \A r, q \in body.action_runs :
         r.action = q.action /\ r.attempt = q.attempt => r = q
    /\ \A d \in body.approvals : ValidDecision(d)
    /\ ApprovalBindings(body)
    /\ \A d \in body.approvals :
         ValidRequest({ e \in body.approvals : e.request = d.request })
    /\ \A i \in DOMAIN body.verification_runs :
         body.verification_runs[i].runs
            \subseteq { <<r.action, r.attempt>> : r \in body.action_runs }

-----------------------------------------------------------------------------
\* Transition guards.

\* _latest_report
IsLatestReport(body, r) ==
    /\ r \in body.rca_reports
    /\ \A q \in body.rca_reports : q.version <= r.version

\* _validate_rca_complete
RcaComplete(body) ==
    \E r \in body.rca_reports :
        /\ IsLatestReport(body, r)
        /\ r.eligible
        /\ r.recs = body.recommendations

\* _validate_remediation_approvals
RemediationApproved(body, now) ==
    \E r \in body.rca_reports :
        /\ IsLatestReport(body, r)
        /\ r.recs = body.recommendations
        /\ \A a \in body.recommendations :
             \E d \in LatestApprovals(body) :
                CoversAction(d, a, r) /\ IsEffective(d, now)

\* The newest attempt of action a.
LatestRun(body, a, run) ==
    /\ run \in body.action_runs
    /\ run.action = a.id
    /\ \A other \in body.action_runs :
         other.action = a.id => other.attempt <= run.attempt

\* The runs _successful_action_runs returns when it does not raise.
SuccessfulRuns(body) ==
    { run \in body.action_runs :
        \E a \in body.recommendations : LatestRun(body, a, run) }

\* Mutant of AllActionsSucceeded: the run's action hash is not compared.
AllActionsSucceededAnyHash(body) ==
    \A a \in body.recommendations :
        \E run \in body.action_runs :
            LatestRun(body, a, run) /\ run.status = "SUCCEEDED"

\* _successful_action_runs
AllActionsSucceeded(body) ==
    \A a \in body.recommendations :
        \E run \in body.action_runs :
            /\ LatestRun(body, a, run)
            /\ run.status = "SUCCEEDED"
            /\ run.hash = a.hash

\* The latest verification passed and covers exactly the successful runs.
Verified(body) ==
    /\ body.verification_runs # <<>>
    /\ LET latest == body.verification_runs[Len(body.verification_runs)]
       IN  /\ latest.status = "PASSED"
           /\ latest.runs = { <<r.action, r.attempt>> : r \in SuccessfulRuns(body) }

\* _validate_transition_guard, without the append-only check
TransitionGuard(target, body, now) ==
    /\ target = "DUPLICATE" => body.duplicate_of
    /\ target = "RCA_COMPLETE" => RcaComplete(body)
    /\ target = "AWAITING_APPROVAL" =>
         RcaComplete(body) /\ body.recommendations # {}
    /\ target = "REMEDIATING" =>
         body.recommendations # {} /\ RemediationApproved(body, now)
    /\ target = "VERIFYING" => AllActionsSucceeded(body)
    /\ target = "RESOLVED" => AllActionsSucceeded(body) /\ Verified(body)

\* _validate_append_only: history only grows, frozen recommendations stay.
AppendOnly(status, old, new) ==
    /\ old.source_event_ids \subseteq new.source_event_ids
    /\ old.rca_reports \subseteq new.rca_reports
    /\ old.approvals \subseteq new.approvals
    /\ old.action_runs \subseteq new.action_runs
    /\ Len(old.verification_runs) <= Len(new.verification_runs)
    /\ \A i \in 1..Len(old.verification_runs) :
         new.verification_runs[i] = old.verification_runs[i]
    /\ status \in FrozenRecommendationStatuses =>
         new.recommendations = old.recommendations

\* transition_incident accepts (target, body) at clock reading now.  The
\* comparison of expected_revision with incident.revision is the caller's.
TransitionAllowed(incident, target, now, body) ==
    /\ target \in Transitions(incident.status)
    /\ AppendOnly(incident.status, incident.body, body)
    /\ incident.updated_at <= now
    /\ ValidBody(body)
    /\ TransitionGuard(target, body, now)

\* The successor transition_incident returns.
Successor(incident, target, now, body) ==
    [incident EXCEPT !.status = target, !.revision = @ + 1,
                     !.updated_at = now, !.body = body]
===============================================================================
