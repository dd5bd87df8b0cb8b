--------------------- MODULE MCSpannerIncidentRepository ---------------------
(***************************************************************************)
(* The Spanner repository with two incidents, one correlation key (or      *)
(* none) and two source events.                                            *)
(* With any transition a caller may change nothing, append a source event, *)
(* or append the whole record of a verified remediation at once, which is  *)
(* what reopening needs (MCIncidentLifecycle appends it item by item).     *)
(* While the long-lived incident is under investigation nothing else       *)
(* happens: the index tells settled statuses from the others and nothing   *)
(* finer.                                                                  *)
(***************************************************************************)
EXTENDS SpannerIncidentRepository, TLC

CONSTANTS
    Long,            \* the incident that may go through its whole lifecycle
    ShortRevision    \* bound: transitions of the other incident

A == [id |-> "a", hash |-> "h"]
Approval(seq, status) ==
    [request |-> "r", seq |-> seq, status |-> status, report |-> 1,
     action |-> A, decided_at |-> 0, expires_at |-> 1]

\* The complete record of a verified remediation, appended in one update.
Remediated(b) ==
    [b EXCEPT !.rca_reports = {[version |-> 1, eligible |-> TRUE, recs |-> {A}]},
              !.recommendations = {A},
              !.approvals = {Approval(0, "PENDING"), Approval(1, "APPROVED")},
              !.action_runs = {[action |-> "a", hash |-> "h", attempt |-> 1,
                                status |-> "SUCCEEDED"]},
              !.verification_runs = <<[status |-> "PASSED", runs |-> {<<"a", 1>>}]>>]

MCBodies ==
    UNION { {DetectedBody(sources), Remediated(DetectedBody(sources))} :
              sources \in SUBSET SourceEvents }

BodyUpdates(b) ==
    {b, Remediated(b)}
    \cup { [b EXCEPT !.source_event_ids = @ \cup {s}] : s \in SourceEvents }

\* Idempotency keys are opaque and only compared for equality, so callers may
\* take them in order.  A creating operation is requested once per incident
\* id; transition and save, which commit the same successors, alternate.
TransitionOp(i) == IF incidents[i].revision % 2 = 0 THEN "transition" ELSE "save"

\* The way to a closed and reopened incident, and an early way out; the rest
\* of the transition graph is MCIncidentLifecycle's.
MCTargets(s) ==
    CASE s = "DETECTED" -> {"TRIAGED", "CANCELLED"}
      [] s = "TRIAGED" -> {"INVESTIGATING"}
      [] s = "INVESTIGATING" -> {"RCA_COMPLETE"}
      [] s = "RCA_COMPLETE" -> {"AWAITING_APPROVAL"}
      [] s = "AWAITING_APPROVAL" -> {"REMEDIATING"}
      [] s = "REMEDIATING" -> {"VERIFYING"}
      [] s = "VERIFYING" -> {"RESOLVED"}
      [] s = "RESOLVED" -> {"CLOSED"}
      [] s = "CLOSED" -> {"REOPENED"}
      [] OTHER -> {}

MCCandidate == { c \in Candidate : Cardinality(c.source_event_ids) <= 1 }

Sources == Permutations(SourceEvents)

Quiet ==
    Exists(Long) => incidents[Long].status
                      \in {"DETECTED", "TRIAGED", "CANCELLED", "CLOSED", "REOPENED"}

MCSpannerNext ==
    \/ Quiet /\ \E c \in MCCandidate, at \in Times :
         \/ SpannerCreate(c, 1, at)
         \/ SpannerCreateUncorrelated(c, 1, at)
         \/ \E associations \in SUBSET SourceEvents : SpannerImport(c, associations, 1, at)
         \/ c.id # Long /\ \E i \in IncidentIds : SpannerCorrelate(c, 1, i)
    \/ \E i \in { j \in IncidentIds : Exists(j) }, at \in Times, expected \in 0..MaxRevision :
         \E target \in MCTargets(incidents[i].status) :
            \E body \in BodyUpdates(incidents[i].body) :
               /\ body.rca_reports # {} =>
                    target \notin {"TRIAGED", "INVESTIGATING", "CANCELLED"}
               /\ body.source_event_ids # incidents[i].body.source_event_ids
                    => target \in {"TRIAGED", "REOPENED"}
               /\ i # Long => Quiet /\ incidents[i].revision < ShortRevision
               /\ SpannerTransition(TransitionOp(i), i, target, expected,
                                    1 + incidents[i].revision \div 2, at, body)

MCSpannerSpec == SpannerInit /\ [][MCSpannerNext]_spannerVars
===============================================================================
