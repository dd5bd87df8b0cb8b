----------------------- MODULE IncidentLifecycleProofs -----------------------
(***************************************************************************)
(* Proofs, for every set of reports, decisions, runs, verifications and    *)
(* clock readings, that what an incident executes was approved.            *)
(***************************************************************************)
EXTENDS IncidentLifecycle, TLAPS

Incident == [status : IncidentStatus, revision : Nat, updated_at : Times, body : Body]

\* TypeOK with the shape of the record made explicit.
TypeInv == incident \in Incident /\ ValidBody(incident.body)

\* Every update a request may carry yields a well-typed body.
LEMMA UpdatesTyped ==
    ASSUME NEW b \in Body, NEW u \in Updates(b)
    PROVE  u \in Body
<1> USE LifecycleAssumption DEF Body
<1>1. CASE u = b
  BY <1>1
<1>2. ASSUME NEW s \in SourceEvents, u = [b EXCEPT !.source_event_ids = @ \cup {s}]
      PROVE  u \in Body
  BY <1>2
<1>3. CASE u = [b EXCEPT !.duplicate_of = TRUE]
  BY <1>3
<1>4. ASSUME NEW p \in Plans, u = [b EXCEPT !.recommendations = p]
      PROVE  u \in Body
  BY <1>4
<1>5. ASSUME NEW r \in Reports, u = [b EXCEPT !.rca_reports = @ \cup {r}]
      PROVE  u \in Body
  BY <1>5
<1>6. ASSUME NEW r \in Reports,
             u = [b EXCEPT !.rca_reports = @ \cup {r}, !.recommendations = r.recs]
      PROVE  u \in Body
  BY <1>6
<1>7. ASSUME NEW d \in Decisions, u = [b EXCEPT !.approvals = @ \cup {d}]
      PROVE  u \in Body
  BY <1>7
<1>8. ASSUME NEW r \in Runs, u = [b EXCEPT !.action_runs = @ \cup {r}]
      PROVE  u \in Body
  BY <1>8
<1>9. ASSUME NEW v \in Verifications,
             u = [b EXCEPT !.verification_runs = Append(@, v)]
      PROVE  u \in Body
  <2>1. b.verification_runs \in Seq(Verifications)
    OBVIOUS
  <2> DEFINE vs == Append(b.verification_runs, v)
  <2>2. vs \in Seq(Verifications)
    BY <2>1
  <2> HIDE DEF vs
  <2>3. [b EXCEPT !.verification_runs = vs] \in Body
    BY <2>2
  <2>4. QED BY <1>9, <2>3 DEF vs
<1>10. QED
  BY <1>1, <1>2, <1>3, <1>4, <1>5, <1>6, <1>7, <1>8, <1>9 DEF Updates

\* The statuses that follow remediation are entered from one another only.
LEMMA RemediationEntry ==
    ASSUME NEW s, NEW t \in Transitions(s)
    PROVE  /\ t = "VERIFYING" => s = "REMEDIATING"
           /\ t = "RESOLVED" => s = "VERIFYING"
           /\ t = "CLOSED" => s = "RESOLVED"
           /\ t \in IncidentStatus
BY DEF Transitions, IncidentStatus

\* A step of the lifecycle is one accepted request.
LEMMA StepFacts ==
    ASSUME TypeInv, Next
    PROVE  \E target \in Transitions(incident.status), at \in Times, body \in Body :
             /\ TransitionAllowed(incident, target, at, body)
             /\ incident' = [status |-> target, revision |-> incident.revision + 1,
                             updated_at |-> at, body |-> body]
<1>1. PICK target \in Transitions(incident.status), at \in Times,
           body \in Updates(incident.body) : Transition(target, at, body)
  BY DEF Next
<1>2. body \in Body
  BY UpdatesTyped DEF TypeInv, Incident
<1>3. incident' = [status |-> target, revision |-> incident.revision + 1,
                   updated_at |-> at, body |-> body]
  BY <1>1 DEF Transition, Successor, TypeInv, Incident
<1>4. QED BY <1>1, <1>2, <1>3 DEF Transition

\* Every committed incident is well typed and passes validate_aggregate.
LEMMA TypeStep == TypeInv /\ [Next]_incident => TypeInv'
<1> SUFFICES ASSUME TypeInv, [Next]_incident PROVE TypeInv'
  OBVIOUS
<1>1. CASE Next
  <2>1. PICK target \in Transitions(incident.status), at \in Times, body \in Body :
          /\ TransitionAllowed(incident, target, at, body)
          /\ incident' = [status |-> target, revision |-> incident.revision + 1,
                          updated_at |-> at, body |-> body]
    BY <1>1, StepFacts
  <2>2. target \in IncidentStatus
    BY RemediationEntry
  <2>3. incident.revision + 1 \in Nat
    BY DEF TypeInv, Incident
  <2>4. QED BY <2>1, <2>2, <2>3 DEF TypeInv, Incident, TransitionAllowed
<1>2. CASE UNCHANGED incident
  BY <1>2 DEF TypeInv
<1>3. QED BY <1>1, <1>2

LEMMA TypeInit == Init => TypeInv
<1> SUFFICES ASSUME Init PROVE TypeInv
  OBVIOUS
<1>1. EmptyBody \in Body
  BY LifecycleAssumption DEF EmptyBody, Body
<1>2. ValidBody(EmptyBody)
  BY DEF EmptyBody, ValidBody, ApprovalBindings
<1>3. QED BY <1>1, <1>2 DEF Init, TypeInv, Incident, IncidentStatus

\* The invariant that carries an approval from the start of remediation to the
\* end of the incident, and a successful run from the start of verification.
GovernedInv == TypeInv /\ RemediatedIsApproved /\ VerifiedIsExecuted

LEMMA GovernedStep == GovernedInv /\ [Next]_incident => GovernedInv'
<1> SUFFICES ASSUME GovernedInv, [Next]_incident PROVE GovernedInv'
  OBVIOUS
<1>0. TypeInv'
  BY TypeStep DEF GovernedInv
<1>1. CASE Next
  <2>1. PICK target \in Transitions(incident.status), at \in Times, body \in Body :
          /\ TransitionAllowed(incident, target, at, body)
          /\ incident' = [status |-> target, revision |-> incident.revision + 1,
                          updated_at |-> at, body |-> body]
    BY <1>1, StepFacts DEF GovernedInv
  <2>2. /\ incident'.status = target /\ incident'.updated_at = at
        /\ incident'.body = body
    BY <2>1
  <2>3. /\ incident.body.approvals \subseteq body.approvals
        /\ incident.body.action_runs \subseteq body.action_runs
        /\ incident.updated_at <= at
    BY <2>1 DEF TransitionAllowed, AppendOnly
  <2>4. /\ at \in Nat /\ incident.updated_at \in Nat
        /\ \A d \in body.approvals : d.decided_at \in Nat /\ d.expires_at \in Nat
    BY <2>1, LifecycleAssumption DEF GovernedInv, TypeInv, Incident, Body
  <2>5. CASE target = "REMEDIATING"
    <3>1. body.recommendations # {} /\ RemediationApproved(body, at)
      BY <2>1, <2>5 DEF TransitionAllowed, TransitionGuard
    <3>2. ASSUME NEW a \in body.recommendations
          PROVE  \E d \in body.approvals :
                    /\ d.action = a /\ d.status = "APPROVED"
                    /\ d.decided_at <= at /\ d.decided_at < d.expires_at
      <4>1. PICK d \in LatestApprovals(body) : d.action = a /\ IsEffective(d, at)
        BY <3>1, <3>2 DEF RemediationApproved, CoversAction
      <4>2. d \in body.approvals
        BY DEF LatestApprovals
      <4>3. d.decided_at < d.expires_at
        BY <2>4, <4>1, <4>2 DEF IsEffective
      <4>4. QED BY <4>1, <4>2, <4>3 DEF IsEffective
    <3>3. RemediatedIsApproved'
      BY <2>2, <3>1, <3>2 DEF RemediatedIsApproved
    <3>4. VerifiedIsExecuted'
      BY <2>2, <2>5 DEF VerifiedIsExecuted
    <3>5. QED BY <1>0, <3>3, <3>4 DEF GovernedInv
  <2>6. CASE target \in {"VERIFYING", "RESOLVED", "CLOSED"}
    <3>1. incident.status \in {"REMEDIATING", "VERIFYING", "RESOLVED"}
      BY <2>6, RemediationEntry
    <3>2. body.recommendations = incident.body.recommendations
      BY <2>1, <3>1 DEF TransitionAllowed, AppendOnly, FrozenRecommendationStatuses
    <3>3. ASSUME NEW a \in body.recommendations
          PROVE  \E d \in body.approvals :
                    /\ d.action = a /\ d.status = "APPROVED"
                    /\ d.decided_at <= at /\ d.decided_at < d.expires_at
      <4>1. PICK d \in incident.body.approvals :
              /\ d.action = a /\ d.status = "APPROVED"
              /\ d.decided_at <= incident.updated_at /\ d.decided_at < d.expires_at
        BY <3>1, <3>2, <3>3 DEF GovernedInv, RemediatedIsApproved
      <4>2. d \in body.approvals /\ d.decided_at <= at
        BY <2>3, <2>4, <4>1
      <4>3. QED BY <4>1, <4>2
    <3>4. RemediatedIsApproved'
      BY <2>2, <3>1, <3>2, <3>3 DEF RemediatedIsApproved, GovernedInv
    <3>5. ASSUME NEW a \in body.recommendations
          PROVE  \E run \in body.action_runs :
                    run.status = "SUCCEEDED" /\ run.action = a.id /\ run.hash = a.hash
      <4>1. CASE target \in {"VERIFYING", "RESOLVED"}
        BY <2>1, <3>5, <4>1
           DEF TransitionAllowed, TransitionGuard, AllActionsSucceeded, LatestRun
      <4>2. CASE target = "CLOSED"
        <5>1. incident.status = "RESOLVED"
          BY <4>2, RemediationEntry
        <5>2. QED BY <2>3, <3>2, <3>5, <5>1 DEF GovernedInv, VerifiedIsExecuted
      <4>3. QED BY <2>6, <4>1, <4>2
    <3>6. VerifiedIsExecuted'
      BY <2>2, <3>3, <3>5 DEF VerifiedIsExecuted
    <3>7. QED BY <1>0, <3>4, <3>6 DEF GovernedInv
  <2>7. CASE target \notin {"REMEDIATING", "VERIFYING", "RESOLVED", "CLOSED"}
    BY <1>0, <2>2, <2>7 DEF GovernedInv, RemediatedIsApproved, VerifiedIsExecuted
  <2>8. QED BY <2>5, <2>6, <2>7
<1>2. CASE UNCHANGED incident
  BY <1>0, <1>2 DEF GovernedInv, RemediatedIsApproved, VerifiedIsExecuted
<1>3. QED BY <1>1, <1>2

\* GovernedInv holds in every reachable state.
LEMMA GovernedAlways == Spec => []GovernedInv
<1>1. Init => GovernedInv
  BY TypeInit DEF Init, GovernedInv, RemediatedIsApproved, VerifiedIsExecuted
<1>2. QED BY <1>1, GovernedStep, PTL DEF Spec

\* Whatever updates its callers request, an incident that is being remediated,
\* verified, resolved or closed has a timely approval of every recommended
\* action (transition_incident).
THEOREM Governed == Spec => []RemediatedIsApproved
<1>1. GovernedInv => RemediatedIsApproved
  BY DEF GovernedInv
<1>2. QED BY <1>1, GovernedAlways, PTL

\* An incident that is being verified, resolved or closed has executed each of
\* its recommended actions with the approved content (transition_incident).
THEOREM Executed == Spec => []VerifiedIsExecuted
<1>1. GovernedInv => VerifiedIsExecuted
  BY DEF GovernedInv
<1>2. QED BY <1>1, GovernedAlways, PTL

\* Every committed incident passes the aggregate validator.
THEOREM TypeCorrect == Spec => []TypeOK
<1>1. TypeInv => TypeOK
  BY DEF TypeInv, TypeOK, Incident
<1>2. QED BY <1>1, TypeInit, TypeStep, PTL DEF Spec

\* An action that was once put up for approval never leaves the plan.
THEOREM RequestedStay == Spec => RequestedActionsStay
<1>1. TypeInv /\ [Next]_incident =>
        [\A d \in incident.body.approvals :
            d.action \in incident'.body.recommendations]_incident
  <2> SUFFICES ASSUME TypeInv, Next, NEW d \in incident.body.approvals
               PROVE  d.action \in incident'.body.recommendations
    OBVIOUS
  <2>1. PICK target \in Transitions(incident.status), at \in Times, body \in Body :
          /\ TransitionAllowed(incident, target, at, body)
          /\ incident' = [status |-> target, revision |-> incident.revision + 1,
                          updated_at |-> at, body |-> body]
    BY StepFacts
  <2>2. d \in body.approvals /\ ApprovalBindings(body)
    BY <2>1 DEF TransitionAllowed, AppendOnly, ValidBody
  <2>3. QED BY <2>1, <2>2 DEF ApprovalBindings
<1>2. QED BY <1>1, TypeInit, TypeStep, PTL DEF Spec, RequestedActionsStay
===============================================================================
