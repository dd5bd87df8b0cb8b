--------------------------- MODULE LocalGovernance ---------------------------
(***************************************************************************)
(* LocalGovernanceEngine of telco_local on one incident: prepare (triage,  *)
(* RCA, approval request), decide and execute (simulated action and its    *)
(* verification).                                                          *)
(*                                                                         *)
(* Calls run concurrently.  Each is a chain of repository calls with       *)
(* awaits in between, and works on the snapshot its last repository call   *)
(* returned.  One action below is one repository call together with the    *)
(* local computation that follows it.  A call may die between any two of   *)
(* them, or its answer may be lost; its client may send it again.          *)
(*                                                                         *)
(* The policy has one action to propose, so approvals, runs and            *)
(* verifications are told apart by the requests behind them.               *)
(***************************************************************************)
EXTENDS IncidentStateMachine, FiniteSets

CONSTANTS
    Callers,         \* concurrent calls
    PrepareRequests, \* [op |-> "prepare", key, variant], variant = actor and ttl
    DecideRequests,  \* [op |-> "decide", key, approve, hash, revision]
    ExecuteRequests, \* [op |-> "execute", key, passed]
    ApprovalTtl,     \* approval_ttl
    AbandonTargets,  \* where other users of the repository may move the incident
    MaxTime,         \* bound on the clock (model checking only)
    MaxCrashes       \* bound on lost calls (model checking only)

ASSUME GovernanceAssumption ==
    /\ ApprovalTtl \in Nat \ {0}
    /\ AbandonTargets \subseteq {"FAILED", "CANCELLED"}
    /\ MaxTime \in Nat
    /\ MaxCrashes \in Nat
    /\ \A r \in PrepareRequests : r.op = "prepare"
    /\ \A r \in DecideRequests : r.op = "decide"
    /\ \A r \in ExecuteRequests : r.op = "execute"

VARIABLES
    incident,      \* [status, revision, updated_at, body, marker, failure]
    idempotency,   \* step key -> [request, result] of a committed transition
    call,          \* call[c]: the request c serves, its next step and its locals
    now,           \* the trusted clock
    crashes        \* lost calls so far

vars == <<incident, idempotency, call, now, crashes>>

Idle == [pc |-> "idle"]
None == [op |-> "none"]

NewBody ==
    [source_event_ids |-> {}, duplicate_of |-> FALSE, recommendations |-> {},
     rca_reports |-> {}, approvals |-> {}, action_runs |-> {},
     verification_runs |-> <<>>]

\* LocalSimulationPolicy: the one action it attaches.
SimulationAction == [id |-> "local-simulation", hash |-> "h"]

-----------------------------------------------------------------------------
\* What the engine reads from an incident snapshot.

\* _latest_report exists and proposes exactly the simulation action.
Actionable(i, r) == IsLatestReport(i.body, r) /\ r.recs = {SimulationAction}

\* _latest_approval
IsLatestApproval(i, d) ==
    d \in i.body.approvals /\ \A e \in i.body.approvals : e.seq <= d.seq

\* The latest approval is APPROVED and covers the action.
Granted(i, d) ==
    /\ IsLatestApproval(i, d)
    /\ d.status = "APPROVED"
    /\ \E r \in i.body.rca_reports : Actionable(i, r) /\ CoversAction(d, SimulationAction, r)

\* Mutant of OwnRun: the run of any request is taken.
OwnRunAny(i, request) == i.body.action_runs

\* The action run this execute request produced.
OwnRun(i, request) == { run \in i.body.action_runs : run.request = request }

\* _require_marker
HasMarker(i, request) == i.marker = request

\* Mutant of PrepareResume: an interrupted investigation is not taken up again.
PrepareResumeNoRca(i) ==
    CASE i.status = "TRIAGED" -> "investigate"
      [] i.status = "RCA_COMPLETE" /\ (\E r \in i.body.rca_reports : Actionable(i, r)) ->
            "request"
      [] OTHER -> "idle"

\* Where prepare goes on, given the snapshot it holds.
PrepareResume(i) ==
    CASE i.status = "TRIAGED" -> "investigate"
      [] i.status = "INVESTIGATING" -> "analyze"
      [] i.status = "RCA_COMPLETE" /\ (\E r \in i.body.rca_reports : Actionable(i, r)) ->
            "request"
      [] OTHER -> "idle"

-----------------------------------------------------------------------------
At(c, pc) == call[c].pc = pc
StepKey(c, step) == <<call[c].request.key, step>>

\* Call c goes on at pc with snapshot cur.  Two continuations keep a clock
\* reading: the approval request, for its expiry, and the authorised run.
Goto(c, pc, cur) ==
    IF pc = "idle" THEN Idle
    ELSE [pc |-> pc, request |-> call[c].request, cur |-> cur,
          at |-> IF pc \in {"request", "run"} THEN now ELSE 0]

\* How a call goes on once its transition has returned i: prepare and execute
\* have further steps, the other transitions are the last of their call.
AfterTransition(c, i) ==
    CASE call[c].pc \in {"triage", "investigate", "rca"} -> Goto(c, PrepareResume(i), i)
      [] call[c].pc = "run" ->
            Goto(c, IF i.status = "VERIFYING" /\ OwnRun(i, call[c].request) # {}
                    THEN "verify" ELSE "idle", i)
      [] OTHER -> Idle

\* One repository.transition of call c, based on its snapshot.  It commits,
\* or replays an exact retry, whose recorded snapshot may be old; both go on
\* with the result.  Otherwise (another request under the key, a changed
\* revision, a rejected transition) it raises and the call ends.
Apply(c, key, target, body, marker, failure) ==
    LET cur == call[c].cur
        request == [target |-> target, expected |-> cur.revision, body |-> body,
                    marker |-> marker, failure |-> failure]
        successor == [Successor(cur, target, now, body) EXCEPT
                        !.marker = marker, !.failure = failure]
        committed == /\ key \notin DOMAIN idempotency
                     /\ incident.revision = cur.revision
                     /\ TransitionAllowed(incident, target, now, body)
        replayed == key \in DOMAIN idempotency /\ idempotency[key].request = request
    IN  /\ \/ /\ committed
              /\ incident' = successor
              /\ idempotency' = [k \in DOMAIN idempotency \cup {key} |->
                                   IF k = key THEN [request |-> request, result |-> successor]
                                              ELSE idempotency[k]]
              /\ call' = [call EXCEPT ![c] = AfterTransition(c, successor)]
           \/ /\ replayed
              /\ call' = [call EXCEPT ![c] = AfterTransition(c, idempotency[key].result)]
              /\ UNCHANGED <<incident, idempotency>>
           \/ /\ ~committed /\ ~replayed
              /\ call' = [call EXCEPT ![c] = Idle]
              /\ UNCHANGED <<incident, idempotency>>
        /\ UNCHANGED <<now, crashes>>

\* A local step of call c, which only reads the incident.
Continue(c, next) ==
    /\ call' = [call EXCEPT ![c] = next]
    /\ UNCHANGED <<incident, idempotency, now, crashes>>

-----------------------------------------------------------------------------
Init ==
    /\ incident = [status |-> "DETECTED", revision |-> 0, updated_at |-> 0,
                   body |-> NewBody, marker |-> None, failure |-> None]
    /\ idempotency = [k \in {} |-> None]
    /\ call = [c \in Callers |-> Idle]
    /\ now = 0
    /\ crashes = 0

\* A client sends a request.  decide reads the clock first of all.
Begin(c, request) ==
    /\ call[c] = Idle
    /\ Continue(c, [pc |-> request.op, request |-> request, cur |-> None,
                    at |-> IF request.op = "decide" THEN now ELSE 0])

\* prepare: read the incident; take it over if it is new, resume it if it is ours.
PrepareGet(c) ==
    /\ At(c, "prepare")
    /\ Continue(c, Goto(c, IF incident.status = "DETECTED" THEN "triage"
                           ELSE IF HasMarker(incident, call[c].request)
                                THEN PrepareResume(incident) ELSE "idle", incident))

PrepareTriage(c) ==
    /\ At(c, "triage")
    /\ Apply(c, StepKey(c, "triage"), "TRIAGED", call[c].cur.body,
             call[c].request, None)

PrepareInvestigate(c) ==
    /\ At(c, "investigate")
    /\ Apply(c, StepKey(c, "investigate"), "INVESTIGATING", call[c].cur.body,
             call[c].cur.marker, None)

\* The RCA gateway analyses the snapshot; a conclusive report gets the action.
PrepareAnalyze(c, conclusive) ==
    /\ At(c, "analyze")
    /\ Continue(c, [pc |-> "rca", request |-> call[c].request, cur |-> call[c].cur,
                    at |-> 0,
                    report |-> [version |-> 1, eligible |-> TRUE,
                                recs |-> IF conclusive THEN {SimulationAction} ELSE {},
                                workflow |-> call[c].request, created_at |-> now]])

PrepareRca(c) ==
    LET report == call[c].report
    IN  /\ At(c, "rca")
        /\ Apply(c, StepKey(c, "rca-complete"), "RCA_COMPLETE",
                 [call[c].cur.body EXCEPT !.rca_reports = @ \cup {report},
                                          !.recommendations = report.recs],
                 call[c].cur.marker, None)

\* The PENDING event of the request, expiring a ttl after prepare read the clock.
Pending(c, r) ==
    [request |-> call[c].request, seq |-> 0, status |-> "PENDING", report |-> r.version,
     action |-> SimulationAction, decided_at |-> 0, expires_at |-> call[c].at + ApprovalTtl,
     key |-> StepKey(c, "approval-request")]

\* request_approval: read the incident again.  An existing request, with this
\* binding or another one, is not written again.
RequestGet(c) ==
    LET cur == call[c].cur
        ready == /\ call[c].at + ApprovalTtl > now
                 /\ \A d \in incident.body.approvals : d.request # call[c].request
                 /\ incident.status = "RCA_COMPLETE"
                 /\ incident.revision = cur.revision
                 /\ \E r \in cur.body.rca_reports :
                      Actionable(cur, r) /\ IsLatestReport(incident.body, r)
    IN  /\ At(c, "request")
        /\ Continue(c, IF ready THEN [call[c] EXCEPT !.pc = "await", !.cur = incident]
                                ELSE Idle)

RequestCommit(c) ==
    LET cur == call[c].cur
    IN  /\ At(c, "await")
        /\ \E r \in cur.body.rca_reports :
             /\ Actionable(cur, r)
             /\ Apply(c, StepKey(c, "approval-request"), "AWAITING_APPROVAL",
                      [cur.body EXCEPT !.approvals = @ \cup {Pending(c, r)}],
                      cur.marker, None)

-----------------------------------------------------------------------------
\* decide, after the clock was read (in Begin): a decision already recorded
\* under the key is not taken again.
DecideGet(c) ==
    LET request == call[c].request
        ready == /\ \A d \in incident.body.approvals : d.key # StepKey(c, "approval-decision")
                 /\ incident.status = "AWAITING_APPROVAL"
                 /\ incident.revision = request.revision
                 /\ request.hash = SimulationAction.hash
                 /\ \E d \in incident.body.approvals, r \in incident.body.rca_reports :
                      /\ IsLatestApproval(incident, d) /\ d.status = "PENDING"
                      /\ Actionable(incident, r) /\ CoversAction(d, SimulationAction, r)
    IN  /\ At(c, "decide")
        /\ Continue(c, IF ready THEN [call[c] EXCEPT !.pc = "decided", !.cur = incident]
                                ELSE Idle)

DecideCommit(c) ==
    LET cur == call[c].cur
        request == call[c].request
    IN  /\ At(c, "decided")
        /\ \E d \in cur.body.approvals :
             /\ IsLatestApproval(cur, d)
             /\ LET status == IF ~request.approve THEN "REJECTED"
                              ELSE IF call[c].at >= d.expires_at THEN "EXPIRED" ELSE "APPROVED"
                    decision == [d EXCEPT !.seq = 1, !.status = status,
                                          !.decided_at = call[c].at,
                                          !.key = StepKey(c, "approval-decision")]
                IN  Apply(c, decision.key,
                          IF status = "APPROVED" THEN "REMEDIATING" ELSE "REJECTED",
                          [cur.body EXCEPT !.approvals = @ \cup {decision}],
                          cur.marker, None)

-----------------------------------------------------------------------------
\* execute: read the incident.  A finished or failed one, and one another
\* request is executing, is left alone.
ExecuteGet(c) ==
    LET request == call[c].request
        grants == { d \in incident.body.approvals : Granted(incident, d) }
        done == \E n \in DOMAIN incident.body.verification_runs :
                  incident.body.verification_runs[n].request.key = request.key
    IN  /\ At(c, "execute")
        /\ Continue(c, Goto(c,
             CASE done -> "idle"
               [] ~done /\ incident.status = "REMEDIATING" /\ grants # {} ->
                     IF \E d \in grants : IsEffective(d, now) THEN "resolve" ELSE "fail"
               [] ~done /\ incident.status = "VERIFYING"
                        /\ OwnRun(incident, request) # {} -> "verify"
               [] OTHER -> "idle", incident))

\* Mutant of ResolvedApproval: the expiry is not checked again.
ResolvedApprovalStale(c) ==
    /\ incident.status = "REMEDIATING"
    /\ incident.revision = call[c].cur.revision
    /\ \E d \in incident.body.approvals : Granted(incident, d) /\ Granted(call[c].cur, d)

\* resolve_for_execution on a fresh read: the latest decision still is the one
\* referred to, covers the action and is effective now.
ResolvedApproval(c) ==
    /\ incident.status = "REMEDIATING"
    /\ incident.revision = call[c].cur.revision
    /\ \E d \in incident.body.approvals :
         Granted(incident, d) /\ Granted(call[c].cur, d) /\ IsEffective(d, now)

\* SimulatedActionGateway.execute: it produces a run, or refuses; a refusal
\* of an expired grant is recorded.
ExecuteResolve(c) ==
    LET lapsed == \A d \in call[c].cur.body.approvals :
                    Granted(call[c].cur, d) => ~IsEffective(d, now)
    IN  /\ At(c, "resolve")
        /\ Continue(c, IF ResolvedApproval(c) THEN Goto(c, "run", call[c].cur)
                       ELSE IF lapsed THEN Goto(c, "fail", call[c].cur) ELSE Idle)

\* The run, stamped with the clock reading that authorised it.
SimulatedRun(c) ==
    [action |-> SimulationAction.id, hash |-> SimulationAction.hash, attempt |-> 1,
     status |-> "SUCCEEDED", request |-> call[c].request, authorised_at |-> call[c].at]

ExecuteRun(c) ==
    LET cur == call[c].cur
    IN  /\ At(c, "run")
        /\ Apply(c, <<call[c].request.key, "simulate-action", call[c].request>>, "VERIFYING",
                 [cur.body EXCEPT !.action_runs = @ \cup {SimulatedRun(c)}],
                 cur.marker, None)

\* Mutant of ExecuteFail: the failure is recorded on whatever is there now.
ExecuteFailLatest(c) ==
    /\ At(c, "fail")
    /\ TransitionAllowed(incident, "FAILED", now, incident.body)
    /\ incident' = [Successor(incident, "FAILED", now, incident.body) EXCEPT
                      !.failure = call[c].request]
    /\ call' = [call EXCEPT ![c] = Idle]
    /\ UNCHANGED <<idempotency, now, crashes>>

\* _fail_expired_execution
ExecuteFail(c) ==
    /\ At(c, "fail")
    /\ Apply(c, <<call[c].request.key, "approval-no-longer-effective", call[c].request>>,
             "FAILED", call[c].cur.body, call[c].cur.marker, call[c].request)

\* Verify, and record the outcome the request asks for.
ExecuteVerify(c) ==
    LET cur == call[c].cur
        request == call[c].request
        verification == [status |-> IF request.passed THEN "PASSED" ELSE "FAILED",
                         runs |-> { <<run.action, run.attempt>> : run \in OwnRun(cur, request) },
                         request |-> request, finished_at |-> now]
    IN  /\ At(c, "verify")
        /\ Apply(c, <<request.key, "verify", request>>,
                 IF request.passed THEN "RESOLVED" ELSE "REOPENED",
                 [cur.body EXCEPT !.verification_runs = Append(@, verification)],
                 cur.marker, None)

-----------------------------------------------------------------------------
\* The process dies or the answer is lost; what was committed stays.
Crash(c) ==
    /\ call[c] # Idle
    /\ crashes < MaxCrashes
    /\ crashes' = crashes + 1
    /\ call' = [call EXCEPT ![c] = Idle]
    /\ UNCHANGED <<incident, idempotency, now>>

\* Another user of the repository gives the incident up.
Abandon(target) ==
    /\ TransitionAllowed(incident, target, now, incident.body)
    /\ incident' = Successor(incident, target, now, incident.body)
    /\ UNCHANGED <<idempotency, call, now, crashes>>

Tick ==
    /\ now < MaxTime
    /\ now' = now + 1
    /\ UNCHANGED <<incident, idempotency, call, crashes>>

Requests == PrepareRequests \cup DecideRequests \cup ExecuteRequests

Step(c) ==
    \/ PrepareGet(c) \/ PrepareTriage(c) \/ PrepareInvestigate(c)
    \/ \E conclusive \in BOOLEAN : PrepareAnalyze(c, conclusive)
    \/ PrepareRca(c) \/ RequestGet(c) \/ RequestCommit(c)
    \/ DecideGet(c) \/ DecideCommit(c)
    \/ ExecuteGet(c) \/ ExecuteResolve(c) \/ ExecuteRun(c) \/ ExecuteFail(c)
    \/ ExecuteVerify(c)

Next ==
    \/ \E c \in Callers : Step(c) \/ Crash(c) \/ \E r \in Requests : Begin(c, r)
    \/ \E target \in AbandonTargets : Abandon(target)
    \/ Tick

Spec == Init /\ [][Next]_vars

\* A call that is not lost goes on, and clients send their requests again.
Fairness ==
    /\ \A c \in Callers : WF_vars(Step(c))
    /\ \A r \in Requests : SF_vars(\E c \in Callers : Begin(c, r))

FairSpec == Spec /\ Fairness

-----------------------------------------------------------------------------
\* No action run exists without a grant of exactly that action which was
\* effective when the action gateway looked it up, whatever was decided,
\* retried, abandoned or expired between that look and the commit of the run
\* ("Fail-closed authorization" of the local governance gate).
RunAuthorised ==
    \A run \in incident.body.action_runs :
        \E d \in incident.body.approvals :
            /\ d.status = "APPROVED"
            /\ run.action = d.action.id /\ run.hash = d.action.hash
            /\ d.decided_at <= run.authorised_at /\ run.authorised_at < d.expires_at

\* The action is run once, and verified once, by the same request, however many
\* execute requests race or are sent again.
ExecutedOnce ==
    /\ Cardinality(incident.body.action_runs) <= 1
    /\ Len(incident.body.verification_runs) <= 1
    /\ \A n \in DOMAIN incident.body.verification_runs, run \in incident.body.action_runs :
         incident.body.verification_runs[n].request = run.request

\* An incident that failed because its grant expired carries the complete
\* binding prepare and execute ask of it: no run, no verification and an
\* APPROVED decision (_require_complete_execution_failure_binding).
FailureBindingComplete ==
    incident.failure # None =>
        /\ incident.status = "FAILED"
        /\ incident.body.action_runs = {}
        /\ incident.body.verification_runs = <<>>
        /\ \E d \in incident.body.approvals : Granted(incident, d)

\* One prepare request owns the incident: report, action and approvals all stem
\* from the request in its marker, though others try to prepare it as well.
OneWorkflow ==
    /\ \A r \in incident.body.rca_reports : r.workflow = incident.marker
    /\ \A d \in incident.body.approvals : d.request = incident.marker

\* However many prepare and execute requests race or are sent again, one request
\* of each kind owns the incident and everything its workflow appended.
OneRequestOwns == OneWorkflow /\ ExecutedOnce

\* Nothing is left half done: if calls are lost only finitely often and clients
\* repeat their requests, the incident reaches an end of the governed lifecycle
\* (RCA_COMPLETE is one only with an inconclusive report).
EventuallyGoverned ==
    <>[](\/ incident.status \in {"RESOLVED", "REOPENED", "REJECTED", "FAILED", "CANCELLED"}
         \/ incident.status = "RCA_COMPLETE" /\ incident.body.recommendations = {})
===============================================================================
