-------------------------- MODULE IncidentLifecycle --------------------------
(***************************************************************************)
(* One incident whose callers may request any transition with any update.  *)
(* transition_incident is the only thing between a caller and the state:   *)
(* the properties here hold whatever the agents that drive it do.          *)
(***************************************************************************)
EXTENDS IncidentStateMachine

CONSTANTS
    Reports,        \* RCA reports a caller may append
    Decisions,      \* approval events a caller may append
    Runs,           \* action runs a caller may append
    Verifications,  \* verification runs a caller may append
    Plans,          \* recommendation sets a caller may write
    SourceEvents,   \* source event ids a caller may append
    Times,          \* clock readings
    MaxRevision,    \* bound on the number of transitions (model checking only)
    MaxVerifications \* bound on appended verifications (model checking only)

ASSUME LifecycleAssumption ==
    /\ Times \subseteq Nat
    /\ MaxRevision \in Nat
    /\ MaxVerifications \in Nat
    /\ \A d \in Decisions : d.decided_at \in Nat /\ d.expires_at \in Nat
    /\ {} \in Plans
    /\ \A r \in Reports : r.recs \in Plans

VARIABLE incident

Body ==
    [source_event_ids : SUBSET SourceEvents, duplicate_of : BOOLEAN,
     recommendations : Plans, rca_reports : SUBSET Reports,
     approvals : SUBSET Decisions, action_runs : SUBSET Runs,
     verification_runs : Seq(Verifications)]

EmptyBody ==
    [source_event_ids |-> {}, duplicate_of |-> FALSE, recommendations |-> {},
     rca_reports |-> {}, approvals |-> {}, action_runs |-> {},
     verification_runs |-> <<>>]

\* What one request may do to the body: nothing, append one item, replace the
\* recommendations, or append a report together with the plan it owns.
Updates(body) ==
    {body}
    \cup { [body EXCEPT !.source_event_ids = @ \cup {s}] : s \in SourceEvents }
    \cup { [body EXCEPT !.duplicate_of = TRUE] }
    \cup { [body EXCEPT !.recommendations = p] : p \in Plans }
    \cup { [body EXCEPT !.rca_reports = @ \cup {r}] : r \in Reports }
    \cup { [body EXCEPT !.rca_reports = @ \cup {r}, !.recommendations = r.recs] :
             r \in Reports }
    \cup { [body EXCEPT !.approvals = @ \cup {d}] : d \in Decisions }
    \cup { [body EXCEPT !.action_runs = @ \cup {r}] : r \in Runs }
    \cup { [body EXCEPT !.verification_runs = Append(@, v)] :
             v \in { w \in Verifications :
                       Len(body.verification_runs) < MaxVerifications } }

Init ==
    \E at \in Times :
        incident = [status |-> "DETECTED", revision |-> 0, updated_at |-> at,
                    body |-> EmptyBody]

\* transition_incident commits the successor of an accepted request.
Transition(target, at, body) ==
    /\ incident.revision < MaxRevision
    /\ TransitionAllowed(incident, target, at, body)
    /\ incident' = Successor(incident, target, at, body)

Next ==
    \E target \in Transitions(incident.status), at \in Times :
        \E body \in Updates(incident.body) : Transition(target, at, body)

Spec == Init /\ [][Next]_incident

-----------------------------------------------------------------------------
\* Every committed incident passes Incident.validate_aggregate.
TypeOK ==
    /\ incident.status \in IncidentStatus
    /\ incident.revision \in Nat
    /\ incident.updated_at \in Times
    /\ incident.body \in Body
    /\ ValidBody(incident.body)

\* From the start of remediation until the incident is reopened or abandoned,
\* every recommended action carries an approval of exactly that action and
\* content, granted before it expired, even though callers go on updating the
\* incident (_validate_remediation_approvals plus the frozen recommendations).
RemediatedIsApproved ==
    incident.status \in {"REMEDIATING", "VERIFYING", "RESOLVED", "CLOSED"} =>
        /\ incident.body.recommendations # {}
        /\ \A a \in incident.body.recommendations :
             \E d \in incident.body.approvals :
                /\ d.action = a
                /\ d.status = "APPROVED"
                /\ d.decided_at <= incident.updated_at
                /\ d.decided_at < d.expires_at

\* Once verification has started, every recommended action has been executed
\* successfully with the content that was approved (_successful_action_runs).
VerifiedIsExecuted ==
    incident.status \in {"VERIFYING", "RESOLVED", "CLOSED"} =>
        \A a \in incident.body.recommendations :
            \E run \in incident.body.action_runs, d \in incident.body.approvals :
                /\ run.status = "SUCCEEDED" /\ d.status = "APPROVED"
                /\ d.action = a
                /\ run.action = d.action.id /\ run.hash = d.action.hash

\* An action that was ever put up for approval can never leave the
\* recommendations again, not even after the incident is reopened: approvals
\* are append-only and each must bind a recommended action
\* (_validate_approval_lifecycles with _APPEND_ONLY_FIELDS).
RequestedActionsStay ==
    [][\A d \in incident.body.approvals :
          d.action \in incident'.body.recommendations]_incident
===============================================================================
