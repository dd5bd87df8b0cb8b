------------------------ MODULE LocalGovernanceProofs -------------------------
(***************************************************************************)
(* Proofs, for any concurrent calls, requests, approval lifetime and clock *)
(* readings, that the governance engine runs only what was authorised,     *)
(* once and for one workflow.                                              *)
(*                                                                         *)
(* A call works on a snapshot that may be outdated, taken from a read or   *)
(* from the replay of an earlier transition.  What makes this safe is that *)
(* a revision identifies the incident: a transition commits only on the    *)
(* revision of its snapshot, and then the snapshot is the incident.        *)
(***************************************************************************)
EXTENDS LocalGovernance, SequenceTheorems, FiniteSetTheorems, TLAPS

-----------------------------------------------------------------------------
\* Shapes.

Workflow == Requests \cup {None}
Recs == SUBSET {SimulationAction}
ClientKeys == { r.key : r \in Requests }
StepKeys == { <<key, step>> : key \in ClientKeys,
                             step \in {"approval-request", "approval-decision"} }

Report == [version : {1}, eligible : {TRUE}, recs : Recs, workflow : Requests,
           created_at : Nat]
Approval == [request : Requests, seq : {0, 1},
             status : {"PENDING", "APPROVED", "REJECTED", "EXPIRED"},
             report : {1}, action : {SimulationAction}, decided_at : Nat,
             expires_at : Nat, key : StepKeys]
Run == [action : {SimulationAction.id}, hash : {SimulationAction.hash}, attempt : {1},
        status : {"SUCCEEDED"}, request : Requests, authorised_at : Nat]
Verification == [status : {"PASSED", "FAILED"},
                 runs : SUBSET ({SimulationAction.id} \X {1}),
                 request : Requests, finished_at : Nat]

Body == [source_event_ids : {{}}, duplicate_of : {FALSE}, recommendations : Recs,
         rca_reports : SUBSET Report, approvals : SUBSET Approval,
         action_runs : SUBSET Run, verification_runs : Seq(Verification)]

Incident == [status : IncidentStatus, revision : Nat, updated_at : Nat, body : Body,
             marker : Workflow, failure : Workflow]

ReadSteps == {"prepare", "decide", "execute"}
TransitionSteps == {"triage", "investigate", "analyze", "request", "await", "decided",
                    "resolve", "run", "fail", "verify"}

Reading == [pc : ReadSteps, request : Requests, cur : {None}, at : Nat]
Acting == [pc : TransitionSteps, request : Requests, cur : Incident, at : Nat]
Reporting == [pc : {"rca"}, request : Requests, cur : Incident, at : Nat, report : Report]

-----------------------------------------------------------------------------
\* The invariant.

\* At most one run, then at most one verification, of the same request.
RunOnce(body) ==
    \/ body.action_runs = {} /\ body.verification_runs = <<>>
    \/ \E run \in body.action_runs :
         /\ body.action_runs = {run}
         /\ \/ body.verification_runs = <<>>
            \/ /\ Len(body.verification_runs) = 1
               /\ body.verification_runs[1].request = run.request

BeforeRun == {"DETECTED", "TRIAGED", "INVESTIGATING", "RCA_COMPLETE",
              "AWAITING_APPROVAL", "REMEDIATING", "REJECTED"}

Authorised(body, at) ==
    \E d \in body.approvals :
        /\ d.status = "APPROVED" /\ d.action = SimulationAction
        /\ d.decided_at <= at /\ at < d.expires_at

\* What holds of every incident that was ever committed.
Sound(i) ==
    /\ i.status = "DETECTED" => i.body = NewBody
    /\ \A r \in i.body.rca_reports : r.workflow = i.marker
    /\ \A d \in i.body.approvals : d.request = i.marker
    /\ RunOnce(i.body)
    /\ i.status \in BeforeRun => i.body.action_runs = {}
    /\ i.status = "VERIFYING" => i.body.verification_runs = <<>>
    /\ \A run \in i.body.action_runs : Authorised(i.body, run.authorised_at)
    /\ i.failure # None =>
         /\ i.status = "FAILED" /\ i.body.action_runs = {}
         /\ \E d \in i.body.approvals : Granted(i, d)

\* What a call has established about its snapshot when it reaches a step.
Established(k) ==
    /\ k.pc \in {"investigate", "analyze", "rca", "request", "await"} =>
         k.cur.marker = k.request
    /\ k.pc = "investigate" => k.cur.status = "TRIAGED"
    /\ k.pc = "rca" => k.report.workflow = k.request
    /\ k.pc \in {"resolve", "fail"} =>
         /\ k.cur.status = "REMEDIATING"
         /\ \E d \in k.cur.body.approvals : Granted(k.cur, d)
    /\ k.pc = "run" => Authorised(k.cur.body, k.at)
    /\ k.pc = "verify" => k.cur.status = "VERIFYING" /\ OwnRun(k.cur, k.request) # {}

\* i was committed before, or is the incident.
Past(i) == i.revision <= incident.revision /\ (i.revision = incident.revision => i = incident)

CallInv(k) ==
    \/ k = Idle
    \/ k \in Reading
    \/ k \in Acting \cup Reporting /\ Established(k) /\ Past(k.cur)

\* A recorded result is a committed incident with the marker its request set.
ResultInv(entry) ==
    entry.result \in Incident /\ Past(entry.result) /\ entry.result.marker = entry.request.marker

Inv == /\ incident \in Incident /\ now \in Nat
       /\ Sound(incident)
       /\ DOMAIN call = Callers /\ \A c \in Callers : CallInv(call[c])
       /\ \A k \in DOMAIN idempotency : ResultInv(idempotency[k])

-----------------------------------------------------------------------------
\* Operators.

\* Where the statuses that matter come from.
LEMMA Predecessors ==
    ASSUME NEW s, NEW t \in Transitions(s)
    PROVE  /\ t \in IncidentStatus \ {"DETECTED"}
           /\ s # "FAILED"
           /\ t = "TRIAGED" => s = "DETECTED"
           /\ t = "RCA_COMPLETE" => s = "INVESTIGATING"
           /\ t = "AWAITING_APPROVAL" => s = "RCA_COMPLETE"
           /\ t = "REMEDIATING" => s = "AWAITING_APPROVAL"
           /\ t = "REJECTED" => s \in BeforeRun
           /\ t = "VERIFYING" => s = "REMEDIATING"
BY DEF Transitions, IncidentStatus, BeforeRun

\* How a call goes on, it has established what the next step relies on.
LEMMA AfterFacts ==
    ASSUME NEW c \in Callers, call[c] \in Acting \cup Reporting, now \in Nat,
           NEW i \in Incident,
           call[c].pc \in {"triage", "investigate", "rca"} => i.marker = call[c].request
    PROVE  LET n == AfterTransition(c, i)
           IN  \/ n = Idle
               \/ n \in Acting /\ Established(n) /\ n.cur = i
<1> DEFINE k == call[c]
           n == AfterTransition(c, i)
<1>0. k.request \in Requests
  BY DEF Acting, Reporting
<1>1. ASSUME NEW pc \in TransitionSteps
      PROVE  /\ Goto(c, pc, i) \in Acting /\ Goto(c, pc, i).pc = pc
             /\ Goto(c, pc, i).cur = i /\ Goto(c, pc, i).request = k.request
  BY <1>0 DEF Goto, Acting, TransitionSteps
<1>2. Goto(c, "idle", i) = Idle
  BY DEF Goto
<1>3. CASE k.pc \in {"triage", "investigate", "rca"}
  <2> DEFINE pc == PrepareResume(i)
  <2>1. n = Goto(c, pc, i)
    BY <1>3 DEF AfterTransition
  <2>2. /\ pc \in {"idle", "investigate", "analyze", "request"}
        /\ pc = "investigate" => i.status = "TRIAGED"
    BY DEF PrepareResume
  <2> HIDE DEF pc
  <2>3. CASE pc = "idle"
    BY <1>2, <2>1, <2>3
  <2>4. CASE pc \in {"investigate", "analyze", "request"}
    <3>1. n \in Acting /\ n.pc = pc /\ n.cur = i /\ n.request = k.request
      BY <1>1, <2>1, <2>4 DEF TransitionSteps
    <3> HIDE DEF n
    <3>2. Established(n)
      BY <1>3, <2>2, <2>4, <3>1 DEF Established
    <3>3. QED BY <3>1, <3>2 DEF n
  <2>5. QED BY <2>2, <2>3, <2>4
<1>4. CASE k.pc = "run"
  <2>1. n = Goto(c, IF i.status = "VERIFYING" /\ OwnRun(i, k.request) # {}
                    THEN "verify" ELSE "idle", i)
    BY <1>4 DEF AfterTransition
  <2>2. CASE i.status = "VERIFYING" /\ OwnRun(i, k.request) # {}
    <3>1. n \in Acting /\ n.pc = "verify" /\ n.cur = i /\ n.request = k.request
      BY <1>1, <2>1, <2>2 DEF TransitionSteps
    <3> HIDE DEF n
    <3>2. Established(n)
      BY <2>2, <3>1 DEF Established
    <3>3. QED BY <3>1, <3>2 DEF n
  <2>3. CASE ~(i.status = "VERIFYING" /\ OwnRun(i, k.request) # {})
    BY <1>2, <2>1, <2>3
  <2>4. QED BY <2>2, <2>3
<1>5. CASE k.pc \notin {"triage", "investigate", "rca", "run"}
  BY <1>5 DEF AfterTransition
<1>6. QED BY <1>3, <1>4, <1>5

\* i has the fields a transition of the incident commits.
Commits(i, target, body, marker, failure) ==
    /\ i.status = target /\ i.revision = incident.revision + 1 /\ i.body = body
    /\ i.marker = marker /\ i.failure = failure

LEMMA SuccessorRecord ==
    ASSUME incident \in Incident, now \in Nat, NEW target \in IncidentStatus,
           NEW body \in Body, NEW marker \in Workflow, NEW failure \in Workflow
    PROVE  LET i == [Successor(incident, target, now, body) EXCEPT
                       !.marker = marker, !.failure = failure]
           IN  i \in Incident /\ Commits(i, target, body, marker, failure)
<1> DEFINE s == Successor(incident, target, now, body)
<1>0. incident.revision + 1 \in Nat /\ incident.marker \in Workflow
      /\ incident.failure \in Workflow
  BY DEF Incident
<1>1. /\ s \in Incident /\ s.status = target /\ s.revision = incident.revision + 1
      /\ s.body = body
  <2>1. s \in Incident
    BY <1>0 DEF Successor, Incident
  <2>2. s.status = target /\ s.revision = incident.revision + 1 /\ s.body = body
    BY <1>0 DEF Successor, Incident
  <2>3. QED BY <2>1, <2>2
<1> HIDE DEF s
<1>2. [s EXCEPT !.marker = marker, !.failure = failure] \in Incident
  BY <1>1 DEF Incident
<1>3. Commits([s EXCEPT !.marker = marker, !.failure = failure],
              target, body, marker, failure)
  BY <1>1 DEF Incident, Commits
<1>4. QED BY <1>2, <1>3 DEF s

\* A commit makes the incident it replaces, and every earlier one, past.
LEMMA StaysPast ==
    ASSUME NEW i \in Incident, incident \in Incident, Past(i),
           incident'.revision = incident.revision + 1
    PROVE  Past(i)'
BY DEF Past, Incident

-----------------------------------------------------------------------------
\* One repository transition of a call: what it commits is sound if it is sound
\* on the incident as it is, because a snapshot with the incident's revision is
\* the incident.
LEMMA ApplyStep ==
    ASSUME Inv, NEW c \in Callers, call[c] \in Acting \cup Reporting, Past(call[c].cur),
           NEW key, NEW target, NEW body \in Body, NEW marker \in Workflow,
           NEW failure \in Workflow,
           Apply(c, key, target, body, marker, failure),
           call[c].pc \in {"triage", "investigate", "rca"} => marker = call[c].request,
           (/\ call[c].cur = incident
            /\ TransitionAllowed(incident, target, now, body))
             => \A i \in Incident : Commits(i, target, body, marker, failure) => Sound(i)
    PROVE  Inv'
<1> DEFINE cur == call[c].cur
           request == [target |-> target, expected |-> cur.revision, body |-> body,
                       marker |-> marker, failure |-> failure]
           successor == [Successor(cur, target, now, body) EXCEPT
                           !.marker = marker, !.failure = failure]
<1>0. /\ now' = now /\ now \in Nat /\ incident \in Incident /\ DOMAIN call = Callers
      /\ cur \in Incident
  BY DEF Apply, Inv, Acting, Reporting
<1>1. \A d \in Callers \ {c} : call'[d] = call[d]
  BY <1>0 DEF Apply
<1>2. DOMAIN call' = Callers
  BY <1>0 DEF Apply
<1>3. CASE /\ incident.revision = cur.revision
           /\ TransitionAllowed(incident, target, now, body)
           /\ incident' = successor
           /\ idempotency' = [k \in DOMAIN idempotency \cup {key} |->
                                IF k = key THEN [request |-> request, result |-> successor]
                                           ELSE idempotency[k]]
           /\ call' = [call EXCEPT ![c] = AfterTransition(c, successor)]
  <2>1. cur = incident
    BY <1>3 DEF Past
  <2>2. target \in IncidentStatus
    BY <1>3, Predecessors DEF TransitionAllowed
  <2>3. successor \in Incident /\ Commits(successor, target, body, marker, failure)
    BY <1>0, <2>1, <2>2, SuccessorRecord
  <2> HIDE DEF successor
  <2>4. /\ successor \in Incident /\ successor.revision = incident.revision + 1
        /\ successor.marker = marker
    BY <2>3 DEF Commits
  <2>5. Sound(incident')
    BY <1>3, <2>1, <2>3
  <2>6. \A i \in Incident : Past(i) => Past(i)'
    BY <1>0, <1>3, <2>4, StaysPast
  <2>7. Past(incident)'
    BY <1>3, <2>4 DEF Past, Incident
  <2>8. ASSUME NEW d \in Callers PROVE CallInv(call[d])'
    <3>1. CASE d = c
      <4>1. call'[d] = AfterTransition(c, successor)
        BY <1>0, <1>3, <3>1
      <4>2. \/ call'[d] = Idle
            \/ call'[d] \in Acting /\ Established(call'[d]) /\ call'[d].cur = successor
        BY <1>0, <2>4, <4>1, AfterFacts
      <4>3. QED BY <1>3, <2>7, <4>2 DEF CallInv, Past
    <3>2. CASE d # c
      <4>1. call'[d] = call[d] /\ CallInv(call[d])
        BY <1>1, <3>2 DEF Inv
      <4>2. call[d] \in Acting \cup Reporting => call[d].cur \in Incident
        BY DEF Acting, Reporting
      <4>3. QED BY <2>6, <4>1, <4>2 DEF CallInv
    <3>3. QED BY <3>1, <3>2
  <2>9. ASSUME NEW k \in DOMAIN idempotency' PROVE ResultInv(idempotency[k])'
    <3>1. CASE k = key
      <4>1. idempotency'[k] = [request |-> request, result |-> successor]
        BY <1>3, <3>1
      <4>2. QED BY <1>3, <2>4, <2>7, <4>1 DEF ResultInv, Past
    <3>2. CASE k # key
      <4>1. idempotency'[k] = idempotency[k] /\ k \in DOMAIN idempotency
        BY <1>3, <3>2
      <4>2. ResultInv(idempotency[k])
        BY <4>1 DEF Inv
      <4>3. QED BY <2>6, <4>1, <4>2 DEF ResultInv
    <3>3. QED BY <3>1, <3>2
  <2>10. QED BY <1>0, <1>2, <1>3, <2>4, <2>5, <2>8, <2>9 DEF Inv
<1>4. CASE /\ key \in DOMAIN idempotency /\ idempotency[key].request = request
           /\ call' = [call EXCEPT ![c] = AfterTransition(c, idempotency[key].result)]
           /\ UNCHANGED <<incident, idempotency>>
  <2> DEFINE result == idempotency[key].result
  <2>1. result \in Incident /\ Past(result) /\ result.marker = marker
    BY <1>4 DEF Inv, ResultInv
  <2>2. \A i : Past(i) => Past(i)'
    BY <1>4 DEF Past
  <2>3. ASSUME NEW d \in Callers PROVE CallInv(call[d])'
    <3>1. CASE d = c
      <4>1. call'[d] = AfterTransition(c, result)
        BY <1>0, <1>4, <3>1
      <4>2. \/ call'[d] = Idle
            \/ call'[d] \in Acting /\ Established(call'[d]) /\ call'[d].cur = result
        BY <1>0, <2>1, <4>1, AfterFacts
      <4>3. QED BY <1>4, <2>1, <4>2 DEF CallInv, Past
    <3>2. CASE d # c
      BY <1>1, <1>4, <3>2 DEF Inv, CallInv, Past
    <3>3. QED BY <3>1, <3>2
  <2>4. ASSUME NEW k \in DOMAIN idempotency' PROVE ResultInv(idempotency[k])'
    BY <1>4 DEF Inv, ResultInv, Past
  <2>5. QED BY <1>0, <1>2, <1>4, <2>3, <2>4 DEF Inv
<1>5. CASE call' = [call EXCEPT ![c] = Idle] /\ UNCHANGED <<incident, idempotency>>
  <2>1. ASSUME NEW d \in Callers PROVE CallInv(call[d])'
    BY <1>0, <1>1, <1>5 DEF Inv, CallInv, Past
  <2>2. ASSUME NEW k \in DOMAIN idempotency' PROVE ResultInv(idempotency[k])'
    BY <1>5 DEF Inv, ResultInv, Past
  <2>3. QED BY <1>0, <1>2, <1>5, <2>1, <2>2 DEF Inv
<1>6. QED BY <1>3, <1>4, <1>5 DEF Apply

-----------------------------------------------------------------------------
\* The steps of a call.

\* A call that only reads: its next step has what it relies on.
LEMMA ContinueStep ==
    ASSUME Inv, NEW c \in Callers, NEW next, Continue(c, next), CallInv(next)
    PROVE  Inv'
<1>1. /\ UNCHANGED <<incident, idempotency, now>> /\ DOMAIN call' = Callers
      /\ \A d \in Callers : call'[d] = IF d = c THEN next ELSE call[d]
  BY DEF Continue, Inv
<1>2. \A d \in Callers : CallInv(call[d])'
  BY <1>1 DEF Inv, CallInv, Past
<1>3. \A k \in DOMAIN idempotency' : ResultInv(idempotency[k])'
  BY <1>1 DEF Inv, ResultInv, Past
<1>4. QED BY <1>1, <1>2, <1>3 DEF Inv

\* The step a call is at tells the shape of what it holds.
LEMMA AtFacts ==
    ASSUME Inv, NEW c \in Callers
    PROVE  /\ call[c].pc \in ReadSteps => call[c] \in Reading
           /\ call[c].pc \in TransitionSteps =>
                call[c] \in Acting /\ Established(call[c]) /\ Past(call[c].cur)
           /\ call[c].pc = "rca" =>
                call[c] \in Reporting /\ Established(call[c]) /\ Past(call[c].cur)
BY DEF Inv, CallInv, Idle, Reading, Acting, Reporting, ReadSteps, TransitionSteps

\* Going on with a snapshot of the incident itself.
LEMMA GotoFacts ==
    ASSUME Inv, NEW c \in Callers, call[c].request \in Requests,
           NEW pc \in TransitionSteps, NEW i \in Incident, Past(i),
           /\ pc \in {"investigate", "analyze", "request"} => i.marker = call[c].request
           /\ pc = "investigate" => i.status = "TRIAGED"
           /\ pc \in {"resolve", "fail"} =>
                i.status = "REMEDIATING" /\ \E d \in i.body.approvals : Granted(i, d)
           /\ pc = "run" => Authorised(i.body, now)
           /\ pc = "verify" => i.status = "VERIFYING" /\ OwnRun(i, call[c].request) # {},
           pc # "await"
    PROVE  CallInv(Goto(c, pc, i))
<1> DEFINE n == Goto(c, pc, i)
<1>1. n = [pc |-> pc, request |-> call[c].request, cur |-> i,
           at |-> IF pc \in {"request", "run"} THEN now ELSE 0]
  BY DEF Goto, TransitionSteps
<1>2. now \in Nat
  BY DEF Inv
<1> HIDE DEF n
<1>3. /\ n \in Acting /\ n.pc = pc /\ n.request = call[c].request /\ n.cur = i
      /\ pc = "run" => n.at = now
  BY <1>1, <1>2 DEF Acting
<1>4. Established(n)
  BY <1>3 DEF Established, TransitionSteps
<1>5. QED BY <1>3, <1>4 DEF CallInv, n

LEMMA GotoIdle ==
    ASSUME NEW c, NEW i
    PROVE  CallInv(Goto(c, "idle", i))
BY DEF Goto, CallInv

LEMMA PrepareGetStep ==
    ASSUME Inv, NEW c \in Callers, PrepareGet(c)
    PROVE  Inv'
<1> DEFINE pc == IF incident.status = "DETECTED" THEN "triage"
                 ELSE IF HasMarker(incident, call[c].request)
                      THEN PrepareResume(incident) ELSE "idle"
<1>1. Continue(c, Goto(c, pc, incident))
  BY DEF PrepareGet
<1>2. call[c].request \in Requests /\ incident \in Incident
  BY AtFacts DEF PrepareGet, At, ReadSteps, Reading, Inv
<1>3. /\ pc \in {"triage", "investigate", "analyze", "request", "idle"}
      /\ pc \in {"investigate", "analyze", "request"} => incident.marker = call[c].request
      /\ pc = "investigate" => incident.status = "TRIAGED"
  BY DEF PrepareResume, HasMarker
<1> HIDE DEF pc
<1>4. Past(incident)
  BY <1>2 DEF Past, Incident
<1>5. CallInv(Goto(c, pc, incident))
  <2>1. CASE pc = "idle"
    BY <2>1, GotoIdle
  <2>2. CASE pc # "idle"
    BY <1>2, <1>3, <1>4, <2>2, GotoFacts DEF TransitionSteps
  <2>3. QED BY <2>1, <2>2
<1>6. QED BY <1>1, <1>5, ContinueStep

LEMMA TriageStep ==
    ASSUME Inv, NEW c \in Callers, PrepareTriage(c)
    PROVE  Inv'
<1> DEFINE k == call[c]
<1>1. k \in Acting /\ Past(k.cur) /\ k.request \in Workflow /\ k.cur.body \in Body
      /\ None \in Workflow
  BY AtFacts DEF PrepareTriage, At, TransitionSteps, Acting, Workflow, Incident
<1>2. ASSUME k.cur = incident, TransitionAllowed(incident, "TRIAGED", now, k.cur.body),
             NEW i \in Incident, Commits(i, "TRIAGED", k.cur.body, k.request, None)
      PROVE  Sound(i)
  <2>1. incident.status = "DETECTED"
    BY <1>2, Predecessors DEF TransitionAllowed
  <2>2. i.body = NewBody
    BY <1>2, <2>1 DEF Inv, Sound, Commits
  <2>3. /\ i.body.rca_reports = {} /\ i.body.approvals = {} /\ i.body.action_runs = {}
        /\ i.body.verification_runs = <<>> /\ i.status = "TRIAGED" /\ i.failure = None
    BY <1>2, <2>2 DEF NewBody, Commits
  <2>4. QED BY <2>3 DEF Sound, RunOnce
<1>3. QED
  BY <1>1, <1>2, ApplyStep DEF PrepareTriage

\* Nothing has been run or verified in the statuses before VERIFYING.
LEMMA NothingRun ==
    ASSUME NEW i, Sound(i), i.status \in BeforeRun
    PROVE  i.body.action_runs = {} /\ i.body.verification_runs = <<>>
BY DEF Sound, RunOnce

\* An incident on the way to its run: only reports and approvals matter.
LEMMA SoundBeforeRun ==
    ASSUME NEW i, i.status \in BeforeRun \ {"DETECTED"}, i.failure = None,
           i.body.action_runs = {}, i.body.verification_runs = <<>>,
           \A r \in i.body.rca_reports : r.workflow = i.marker,
           \A d \in i.body.approvals : d.request = i.marker
    PROVE  Sound(i)
BY DEF Sound, RunOnce, BeforeRun

LEMMA InvestigateStep ==
    ASSUME Inv, NEW c \in Callers, PrepareInvestigate(c)
    PROVE  Inv'
<1> DEFINE k == call[c]
<1>1. /\ k \in Acting /\ Past(k.cur) /\ k.cur.marker \in Workflow /\ k.cur.body \in Body
      /\ None \in Workflow /\ k.cur.marker = k.request /\ k.cur.status = "TRIAGED"
  BY AtFacts
     DEF PrepareInvestigate, At, TransitionSteps, Acting, Workflow, Incident, Established
<1>2. ASSUME k.cur = incident, NEW i \in Incident,
             Commits(i, "INVESTIGATING", k.cur.body, k.cur.marker, None)
      PROVE  Sound(i)
  <2>1. /\ i.status = "INVESTIGATING" /\ i.body = incident.body
        /\ i.marker = incident.marker /\ i.failure = None
    BY <1>2 DEF Commits
  <2>2. i.body.action_runs = {} /\ i.body.verification_runs = <<>>
    BY <1>1, <1>2, <2>1, NothingRun DEF Inv, BeforeRun
  <2>3. QED BY <2>1, <2>2, SoundBeforeRun DEF Inv, Sound, BeforeRun
<1>3. QED BY <1>1, <1>2, ApplyStep DEF PrepareInvestigate

LEMMA AnalyzeStep ==
    ASSUME Inv, NEW c \in Callers, NEW conclusive \in BOOLEAN, PrepareAnalyze(c, conclusive)
    PROVE  Inv'
<1> DEFINE k == call[c]
           report == [version |-> 1, eligible |-> TRUE,
                      recs |-> IF conclusive THEN {SimulationAction} ELSE {},
                      workflow |-> k.request, created_at |-> now]
           n == [pc |-> "rca", request |-> k.request, cur |-> k.cur, at |-> 0,
                 report |-> report]
<1>1. /\ k \in Acting /\ Past(k.cur) /\ k.cur \in Incident /\ k.request \in Requests
      /\ k.cur.marker = k.request
  BY AtFacts DEF PrepareAnalyze, At, TransitionSteps, Acting, Established
<1>2. report \in Report /\ report.workflow = k.request
  BY <1>1 DEF Report, Recs, Inv
<1> HIDE DEF report
<1>3. /\ n \in Reporting /\ n.pc = "rca" /\ n.cur = k.cur /\ n.request = k.request
      /\ n.report = report
  BY <1>1, <1>2 DEF Reporting
<1>4. Continue(c, n)
  BY DEF PrepareAnalyze, report
<1> HIDE DEF n
<1>5. Established(n)
  BY <1>1, <1>2, <1>3 DEF Established
<1>6. CallInv(n)
  BY <1>1, <1>3, <1>5 DEF CallInv
<1>7. QED BY <1>4, <1>6, ContinueStep

LEMMA RcaStep ==
    ASSUME Inv, NEW c \in Callers, PrepareRca(c)
    PROVE  Inv'
<1> DEFINE k == call[c]
           body == [k.cur.body EXCEPT !.rca_reports = @ \cup {k.report},
                                      !.recommendations = k.report.recs]
<1>1. /\ k \in Reporting /\ Past(k.cur) /\ k.cur.body \in Body /\ k.cur.marker \in Workflow
      /\ None \in Workflow /\ k.cur.marker = k.request /\ k.report \in Report
      /\ k.report.workflow = k.request
  BY AtFacts DEF PrepareRca, At, Reporting, Workflow, Incident, Established
<1>2. /\ body \in Body /\ body.rca_reports = k.cur.body.rca_reports \cup {k.report}
      /\ body.approvals = k.cur.body.approvals
      /\ body.action_runs = k.cur.body.action_runs
      /\ body.verification_runs = k.cur.body.verification_runs
  BY <1>1 DEF Body, Report
<1>3. Apply(c, StepKey(c, "rca-complete"), "RCA_COMPLETE", body, k.cur.marker, None)
  BY DEF PrepareRca
<1> HIDE DEF body
<1>4. ASSUME k.cur = incident, TransitionAllowed(incident, "RCA_COMPLETE", now, body),
             NEW i \in Incident, Commits(i, "RCA_COMPLETE", body, k.cur.marker, None)
      PROVE  Sound(i)
  <2>1. incident.status \in BeforeRun
    BY <1>4, Predecessors DEF TransitionAllowed, BeforeRun
  <2>2. incident.body.action_runs = {} /\ incident.body.verification_runs = <<>>
    BY <2>1, NothingRun DEF Inv
  <2>3. /\ i.status = "RCA_COMPLETE" /\ i.body = body /\ i.marker = incident.marker
        /\ i.failure = None
    BY <1>4 DEF Commits
  <2>4. QED
    BY <1>1, <1>2, <1>4, <2>2, <2>3, SoundBeforeRun DEF Inv, Sound, BeforeRun
<1>5. QED BY <1>1, <1>2, <1>3, <1>4, ApplyStep

LEMMA RequestGetStep ==
    ASSUME Inv, NEW c \in Callers, RequestGet(c)
    PROVE  Inv'
<1> DEFINE k == call[c]
           n == [k EXCEPT !.pc = "await", !.cur = incident]
<1>1. k \in Acting /\ Past(k.cur) /\ k.cur.marker = k.request /\ incident \in Incident
  BY AtFacts DEF RequestGet, At, TransitionSteps, Established, Inv
<1>2. Continue(c, Idle) \/ (incident.revision = k.cur.revision /\ Continue(c, n))
  BY DEF RequestGet
<1>3. CASE Continue(c, Idle)
  BY <1>3, ContinueStep DEF CallInv
<1>4. CASE incident.revision = k.cur.revision /\ Continue(c, n)
  <2>1. k.cur = incident
    BY <1>4 , <1>1 DEF Past
  <2>2. n \in Acting /\ n.pc = "await" /\ n.cur = incident /\ n.request = k.request
    BY <1>1 DEF Acting, TransitionSteps
  <2> HIDE DEF n
  <2>3. Established(n) /\ Past(n.cur)
    BY <1>1, <2>1, <2>2 DEF Established
  <2>4. QED BY <1>4, <2>2, <2>3, ContinueStep DEF CallInv
<1>5. QED BY <1>2, <1>3, <1>4

LEMMA RequestCommitStep ==
    ASSUME Inv, NEW c \in Callers, RequestCommit(c)
    PROVE  Inv'
<1> DEFINE k == call[c]
<1>1. PICK r \in k.cur.body.rca_reports :
        Apply(c, StepKey(c, "approval-request"), "AWAITING_APPROVAL",
              [k.cur.body EXCEPT !.approvals = @ \cup {Pending(c, r)}], k.cur.marker, None)
  BY DEF RequestCommit
<1> DEFINE body == [k.cur.body EXCEPT !.approvals = @ \cup {Pending(c, r)}]
<1>2. /\ k \in Acting /\ Past(k.cur) /\ k.cur.body \in Body /\ k.cur.marker \in Workflow
      /\ None \in Workflow /\ k.cur.marker = k.request /\ k.request \in Requests
      /\ k.at \in Nat /\ k.pc = "await"
  BY AtFacts
     DEF RequestCommit, At, TransitionSteps, Acting, Workflow, Incident, Established
<1>3. Pending(c, r) \in Approval /\ Pending(c, r).request = k.request
  <2>1. r.version = 1
    BY <1>2 DEF Body, Report
  <2>2. StepKey(c, "approval-request") \in StepKeys
    <3>1. k.request.key \in ClientKeys
      BY <1>2 DEF ClientKeys
    <3>2. QED BY <3>1 DEF StepKey, StepKeys
  <2>3. k.at + ApprovalTtl \in Nat
    BY <1>2, GovernanceAssumption
  <2>4. QED BY <1>2, <2>1, <2>2, <2>3 DEF Pending, Approval
<1>4. /\ body \in Body /\ body.approvals = k.cur.body.approvals \cup {Pending(c, r)}
      /\ body.rca_reports = k.cur.body.rca_reports
      /\ body.action_runs = k.cur.body.action_runs
      /\ body.verification_runs = k.cur.body.verification_runs
  BY <1>2, <1>3 DEF Body
<1> HIDE DEF body
<1>5. ASSUME k.cur = incident, TransitionAllowed(incident, "AWAITING_APPROVAL", now, body),
             NEW i \in Incident, Commits(i, "AWAITING_APPROVAL", body, k.cur.marker, None)
      PROVE  Sound(i)
  <2>1. incident.status \in BeforeRun
    BY <1>5, Predecessors DEF TransitionAllowed, BeforeRun
  <2>2. incident.body.action_runs = {} /\ incident.body.verification_runs = <<>>
    BY <2>1, NothingRun DEF Inv
  <2>3. /\ i.status = "AWAITING_APPROVAL" /\ i.body = body /\ i.marker = incident.marker
        /\ i.failure = None
    BY <1>5 DEF Commits
  <2>4. QED
    BY <1>2, <1>3, <1>4, <1>5, <2>2, <2>3, SoundBeforeRun DEF Inv, Sound, BeforeRun
<1>6. Apply(c, StepKey(c, "approval-request"), "AWAITING_APPROVAL", body, k.cur.marker, None)
  BY <1>1 DEF body
<1>7. QED BY <1>2, <1>4, <1>5, <1>6, ApplyStep

LEMMA DecideGetStep ==
    ASSUME Inv, NEW c \in Callers, DecideGet(c)
    PROVE  Inv'
<1> DEFINE k == call[c]
           n == [k EXCEPT !.pc = "decided", !.cur = incident]
<1>1. k \in Reading /\ incident \in Incident
  BY AtFacts DEF DecideGet, At, ReadSteps, Inv
<1>2. Continue(c, Idle) \/ Continue(c, n)
  BY DEF DecideGet
<1>3. /\ n \in Acting /\ n.pc = "decided" /\ n.cur = incident
  BY <1>1 DEF Reading, Acting, TransitionSteps
<1> HIDE DEF n
<1>4. Established(n) /\ Past(n.cur)
  BY <1>1, <1>3 DEF Established, Past, Incident
<1>5. CallInv(n) /\ CallInv(Idle)
  BY <1>3, <1>4 DEF CallInv
<1>6. QED BY <1>2, <1>5, ContinueStep

LEMMA DecideCommitStep ==
    ASSUME Inv, NEW c \in Callers, DecideCommit(c)
    PROVE  Inv'
<1> DEFINE k == call[c]
           Status(d) == IF ~k.request.approve THEN "REJECTED"
                        ELSE IF k.at >= d.expires_at THEN "EXPIRED" ELSE "APPROVED"
           Decision(d) == [d EXCEPT !.seq = 1, !.status = Status(d), !.decided_at = k.at,
                                    !.key = StepKey(c, "approval-decision")]
           Target(d) == IF Status(d) = "APPROVED" THEN "REMEDIATING" ELSE "REJECTED"
<1>1. PICK d \in k.cur.body.approvals :
        Apply(c, Decision(d).key, Target(d),
              [k.cur.body EXCEPT !.approvals = @ \cup {Decision(d)}], k.cur.marker, None)
  BY DEF DecideCommit
<1> DEFINE decision == Decision(d)
           target == Target(d)
           body == [k.cur.body EXCEPT !.approvals = @ \cup {decision}]
<1>2. /\ k \in Acting /\ Past(k.cur) /\ k.cur.body \in Body /\ k.cur.marker \in Workflow
      /\ None \in Workflow /\ k.request \in Requests /\ k.at \in Nat /\ k.pc = "decided"
  BY AtFacts DEF DecideCommit, At, TransitionSteps, Acting, Workflow, Incident
<1>3. d \in Approval
  BY <1>2 DEF Body
<1>4. decision \in Approval /\ decision.request = d.request
  <2>1. StepKey(c, "approval-decision") \in StepKeys
    <3>1. k.request.key \in ClientKeys
      BY <1>2 DEF ClientKeys
    <3>2. QED BY <3>1 DEF StepKey, StepKeys
  <2>2. Status(d) \in {"REJECTED", "EXPIRED", "APPROVED"}
    OBVIOUS
  <2> HIDE DEF Status
  <2>3. QED BY <1>2, <1>3, <2>1, <2>2 DEF Approval
<1>5. target \in {"REMEDIATING", "REJECTED"}
  OBVIOUS
<1>6. Apply(c, decision.key, target, body, k.cur.marker, None)
  BY <1>1
<1> HIDE DEF decision, target, Decision, Target, Status
<1>7. /\ body \in Body /\ body.approvals = k.cur.body.approvals \cup {decision}
      /\ body.rca_reports = k.cur.body.rca_reports
      /\ body.action_runs = k.cur.body.action_runs
      /\ body.verification_runs = k.cur.body.verification_runs
  BY <1>2, <1>4 DEF Body
<1> HIDE DEF body
<1>8. ASSUME k.cur = incident, TransitionAllowed(incident, target, now, body),
             NEW i \in Incident, Commits(i, target, body, k.cur.marker, None)
      PROVE  Sound(i)
  <2>1. incident.status \in BeforeRun
    BY <1>5, <1>8, Predecessors DEF TransitionAllowed, BeforeRun
  <2>2. incident.body.action_runs = {} /\ incident.body.verification_runs = <<>>
    BY <2>1, NothingRun DEF Inv
  <2>3. /\ i.status = target /\ i.body = body /\ i.marker = incident.marker
        /\ i.failure = None
    BY <1>8 DEF Commits
  <2>4. QED
    BY <1>4, <1>5, <1>7, <1>8, <2>2, <2>3, SoundBeforeRun DEF Inv, Sound, BeforeRun
<1>9. QED BY <1>2, <1>6, <1>7, <1>8, ApplyStep

LEMMA ExecuteGetStep ==
    ASSUME Inv, NEW c \in Callers, ExecuteGet(c)
    PROVE  Inv'
<1> DEFINE grants == { d \in incident.body.approvals : Granted(incident, d) }
<1>1. call[c].request \in Requests /\ incident \in Incident
  BY AtFacts DEF ExecuteGet, At, ReadSteps, Reading, Inv
<1>2. PICK pc \in {"idle", "resolve", "fail", "verify"} :
        /\ Continue(c, Goto(c, pc, incident))
        /\ pc \in {"resolve", "fail"} => incident.status = "REMEDIATING" /\ grants # {}
        /\ pc = "verify" =>
             incident.status = "VERIFYING" /\ OwnRun(incident, call[c].request) # {}
  BY DEF ExecuteGet
<1>3. Past(incident)
  BY <1>1 DEF Past, Incident
<1>4. CallInv(Goto(c, pc, incident))
  <2>1. CASE pc = "idle"
    BY <2>1, GotoIdle
  <2>2. CASE pc # "idle"
    BY <1>1, <1>2, <1>3, <2>2, GotoFacts DEF TransitionSteps
  <2>3. QED BY <2>1, <2>2
<1>5. QED BY <1>2, <1>4, ContinueStep

LEMMA ResolveStep ==
    ASSUME Inv, NEW c \in Callers, ExecuteResolve(c)
    PROVE  Inv'
<1> DEFINE k == call[c]
<1>1. /\ k \in Acting /\ Past(k.cur) /\ k.cur \in Incident /\ k.request \in Requests
      /\ k.cur.status = "REMEDIATING" /\ \E d \in k.cur.body.approvals : Granted(k.cur, d)
  BY AtFacts DEF ExecuteResolve, At, TransitionSteps, Acting, Established
<1>2. \/ ResolvedApproval(c) /\ Continue(c, Goto(c, "run", k.cur))
      \/ Continue(c, Goto(c, "fail", k.cur))
      \/ Continue(c, Idle)
  BY DEF ExecuteResolve
<1>3. CASE ResolvedApproval(c) /\ Continue(c, Goto(c, "run", k.cur))
  <2>1. PICK d \in incident.body.approvals : Granted(k.cur, d) /\ IsEffective(d, now)
    BY <1>3 DEF ResolvedApproval
  <2>2. Authorised(k.cur.body, now)
    BY <2>1 DEF Authorised, Granted, IsEffective, IsLatestApproval, CoversAction
  <2>3. CallInv(Goto(c, "run", k.cur))
    BY <1>1, <2>2, GotoFacts DEF TransitionSteps
  <2>4. QED BY <1>3, <2>3, ContinueStep
<1>4. CASE Continue(c, Goto(c, "fail", k.cur))
  <2>1. CallInv(Goto(c, "fail", k.cur))
    BY <1>1, GotoFacts DEF TransitionSteps
  <2>2. QED BY <1>4, <2>1, ContinueStep
<1>5. CASE Continue(c, Idle)
  BY <1>5, ContinueStep DEF CallInv
<1>6. QED BY <1>2, <1>3, <1>4, <1>5

LEMMA RunStep ==
    ASSUME Inv, NEW c \in Callers, ExecuteRun(c)
    PROVE  Inv'
<1> DEFINE k == call[c]
           run == SimulatedRun(c)
           body == [k.cur.body EXCEPT !.action_runs = @ \cup {run}]
           key == <<k.request.key, "simulate-action", k.request>>
<1>1. /\ k \in Acting /\ Past(k.cur) /\ k.cur.body \in Body /\ k.cur.marker \in Workflow
      /\ None \in Workflow /\ k.request \in Requests /\ k.at \in Nat /\ k.pc = "run"
      /\ Authorised(k.cur.body, k.at)
  BY AtFacts DEF ExecuteRun, At, TransitionSteps, Acting, Workflow, Incident, Established
<1>2. run \in Run /\ run.authorised_at = k.at
  BY <1>1 DEF SimulatedRun, Run
<1>3. Apply(c, key, "VERIFYING", body, k.cur.marker, None)
  BY DEF ExecuteRun
<1> HIDE DEF run, key
<1>4. /\ body \in Body /\ body.action_runs = k.cur.body.action_runs \cup {run}
      /\ body.rca_reports = k.cur.body.rca_reports
      /\ body.approvals = k.cur.body.approvals
      /\ body.verification_runs = k.cur.body.verification_runs
  BY <1>1, <1>2 DEF Body
<1> HIDE DEF body
<1>5. ASSUME k.cur = incident, TransitionAllowed(incident, "VERIFYING", now, body),
             NEW i \in Incident, Commits(i, "VERIFYING", body, k.cur.marker, None)
      PROVE  Sound(i)
  <2>1. incident.status \in BeforeRun
    BY <1>5, Predecessors DEF TransitionAllowed, BeforeRun
  <2>2. incident.body.action_runs = {} /\ incident.body.verification_runs = <<>>
    BY <2>1, NothingRun DEF Inv
  <2>3. /\ i.status = "VERIFYING" /\ i.body = body /\ i.marker = incident.marker
        /\ i.failure = None
    BY <1>5 DEF Commits
  <2>4. body.action_runs = {run} /\ body.verification_runs = <<>>
    BY <1>4, <1>5, <2>2
  <2>5. RunOnce(i.body)
    BY <2>3, <2>4 DEF RunOnce
  <2>6. \A x \in i.body.action_runs : Authorised(i.body, x.authorised_at)
    BY <1>1, <1>2, <1>4, <2>3, <2>4 DEF Authorised
  <2>7. /\ \A r \in i.body.rca_reports : r.workflow = i.marker
        /\ \A d \in i.body.approvals : d.request = i.marker
    BY <1>4, <1>5, <2>3 DEF Inv, Sound
  <2>8. QED BY <2>3, <2>4, <2>5, <2>6, <2>7 DEF Sound, BeforeRun
<1>6. QED BY <1>1, <1>3, <1>4, <1>5, ApplyStep

LEMMA FailStep ==
    ASSUME Inv, NEW c \in Callers, ExecuteFail(c)
    PROVE  Inv'
<1> DEFINE k == call[c]
           key == <<k.request.key, "approval-no-longer-effective", k.request>>
<1>1. /\ k \in Acting /\ Past(k.cur) /\ k.cur.body \in Body /\ k.cur.marker \in Workflow
      /\ k.request \in Workflow /\ k.pc = "fail" /\ k.cur.status = "REMEDIATING"
      /\ \E d \in k.cur.body.approvals : Granted(k.cur, d)
  BY AtFacts DEF ExecuteFail, At, TransitionSteps, Acting, Workflow, Incident, Established
<1>2. Apply(c, key, "FAILED", k.cur.body, k.cur.marker, k.request)
  BY DEF ExecuteFail
<1> HIDE DEF key
<1>3. ASSUME k.cur = incident, NEW i \in Incident,
             Commits(i, "FAILED", k.cur.body, k.cur.marker, k.request)
      PROVE  Sound(i)
  <2>1. incident.body.action_runs = {} /\ incident.body.verification_runs = <<>>
    BY <1>1, <1>3, NothingRun DEF Inv, BeforeRun
  <2>2. i.status = "FAILED" /\ i.body = incident.body /\ i.marker = incident.marker
    BY <1>3 DEF Commits
  <2>3. \E d \in i.body.approvals : Granted(i, d)
    BY <1>1, <1>3, <2>2 DEF Granted, IsLatestApproval, Actionable
  <2>4. QED BY <2>1, <2>2, <2>3 DEF Inv, Sound, RunOnce, BeforeRun
<1>4. QED BY <1>1, <1>2, <1>3, ApplyStep

LEMMA VerifyStep ==
    ASSUME Inv, NEW c \in Callers, ExecuteVerify(c)
    PROVE  Inv'
<1> DEFINE k == call[c]
           v == [status |-> IF k.request.passed THEN "PASSED" ELSE "FAILED",
                 runs |-> { <<run.action, run.attempt>> : run \in OwnRun(k.cur, k.request) },
                 request |-> k.request, finished_at |-> now]
           target == IF k.request.passed THEN "RESOLVED" ELSE "REOPENED"
           body == [k.cur.body EXCEPT !.verification_runs = Append(@, v)]
           key == <<k.request.key, "verify", k.request>>
<1>1. /\ k \in Acting /\ Past(k.cur) /\ k.cur.body \in Body /\ k.cur.marker \in Workflow
      /\ k.request \in Requests /\ None \in Workflow /\ k.pc = "verify"
      /\ k.cur.status = "VERIFYING" /\ OwnRun(k.cur, k.request) # {}
  BY AtFacts DEF ExecuteVerify, At, TransitionSteps, Acting, Workflow, Incident, Established
<1>2. v \in Verification /\ v.request = k.request
  <2> DEFINE st == IF k.request.passed THEN "PASSED" ELSE "FAILED"
             runs == { <<run.action, run.attempt>> : run \in OwnRun(k.cur, k.request) }
  <2>1. st \in {"PASSED", "FAILED"}
    OBVIOUS
  <2>2. runs \in SUBSET ({SimulationAction.id} \X {1})
    <3>1. \A run \in OwnRun(k.cur, k.request) :
            run.action = SimulationAction.id /\ run.attempt = 1
      BY <1>1 DEF OwnRun, Body, Run
    <3>2. \A x \in runs : x = <<SimulationAction.id, 1>>
      BY <3>1
    <3>3. <<SimulationAction.id, 1>> \in {SimulationAction.id} \X {1}
      OBVIOUS
    <3> HIDE DEF runs
    <3>4. QED BY <3>2, <3>3
  <2>3. now \in Nat
    BY DEF Inv
  <2> HIDE DEF st, runs
  <2>4. [status |-> st, runs |-> runs, request |-> k.request, finished_at |-> now]
          \in Verification
    BY <1>1, <2>1, <2>2, <2>3 DEF Verification
  <2>5. QED BY <2>4 DEF st, runs
<1>3. target \in {"RESOLVED", "REOPENED"}
  OBVIOUS
<1>4. Apply(c, key, target, body, k.cur.marker, None)
  BY DEF ExecuteVerify
<1> HIDE DEF v, target, key
<1>5. /\ body \in Body /\ body.verification_runs = Append(k.cur.body.verification_runs, v)
      /\ body.rca_reports = k.cur.body.rca_reports
      /\ body.approvals = k.cur.body.approvals
      /\ body.action_runs = k.cur.body.action_runs
  <2> DEFINE vs == Append(k.cur.body.verification_runs, v)
  <2>1. vs \in Seq(Verification)
    <3>1. k.cur.body.verification_runs \in Seq(Verification)
      BY <1>1 DEF Body
    <3>2. QED BY <1>2, <3>1, AppendProperties
  <2>2. body = [k.cur.body EXCEPT !.verification_runs = vs]
    OBVIOUS
  <2> HIDE DEF vs
  <2>3. QED BY <1>1, <2>1, <2>2 DEF Body, vs
<1> HIDE DEF body
<1>6. ASSUME k.cur = incident, NEW i \in Incident,
             Commits(i, target, body, k.cur.marker, None)
      PROVE  Sound(i)
  <2>1. incident.body.verification_runs = <<>>
    BY <1>1, <1>6 DEF Inv, Sound
  <2>2. /\ i.status = target /\ i.body = body /\ i.marker = incident.marker
        /\ i.failure = None
    BY <1>6 DEF Commits
  <2>3. Len(i.body.verification_runs) = 1 /\ i.body.verification_runs[1] = v
    <3>1. i.body.verification_runs = Append(<<>>, v)
      BY <1>5, <1>6, <2>1, <2>2
    <3>2. <<>> \in Seq(Verification) /\ Len(<<>>) = 0
      OBVIOUS
    <3>3. QED BY <1>2, <3>1, <3>2, AppendProperties
  <2>4. PICK run \in OwnRun(incident, k.request) : TRUE
    BY <1>1, <1>6
  <2>5. run \in incident.body.action_runs /\ run.request = k.request
    BY <2>4 DEF OwnRun
  <2>6. incident.body.action_runs = {run}
    BY <2>5 DEF Inv, Sound, RunOnce
  <2>7. RunOnce(i.body)
    BY <1>2, <1>5, <1>6, <2>2, <2>3, <2>5, <2>6 DEF RunOnce
  <2>8. \A x \in i.body.action_runs : Authorised(i.body, x.authorised_at)
    BY <1>5, <1>6, <2>2 DEF Inv, Sound, Authorised
  <2>9. /\ \A r \in i.body.rca_reports : r.workflow = i.marker
        /\ \A d \in i.body.approvals : d.request = i.marker
    BY <1>5, <1>6, <2>2 DEF Inv, Sound
  <2>10. QED BY <1>3, <2>2, <2>7, <2>8, <2>9 DEF Sound, BeforeRun
<1>7. QED BY <1>1, <1>4, <1>5, <1>6, ApplyStep

-----------------------------------------------------------------------------
\* The steps that are not a step of a call.

LEMMA BeginStep ==
    ASSUME Inv, NEW c \in Callers, NEW r \in Requests, Begin(c, r)
    PROVE  Inv'
<1> DEFINE n == [pc |-> r.op, request |-> r, cur |-> None,
                 at |-> IF r.op = "decide" THEN now ELSE 0]
<1>1. Continue(c, n)
  BY DEF Begin
<1>2. r.op \in ReadSteps
  BY GovernanceAssumption DEF Requests, ReadSteps
<1>3. n \in Reading
  BY <1>2 DEF Reading, Inv
<1>4. QED BY <1>1, <1>3, ContinueStep DEF CallInv

\* Another user of the repository ends the incident.  A failed one stays as it
\* is, so the record of an expired grant is never overwritten.
LEMMA AbandonStep ==
    ASSUME Inv, NEW target \in AbandonTargets, Abandon(target)
    PROVE  Inv'
<1> DEFINE i == Successor(incident, target, now, incident.body)
<1>1. /\ incident \in Incident /\ now \in Nat /\ target \in {"FAILED", "CANCELLED"}
      /\ target \in IncidentStatus /\ incident.status # "FAILED"
  BY GovernanceAssumption, Predecessors DEF Inv, Abandon, TransitionAllowed
<1>2. /\ i \in Incident /\ i.status = target /\ i.revision = incident.revision + 1
      /\ i.body = incident.body /\ i.marker = incident.marker
      /\ i.failure = incident.failure
  <2>1. incident.revision + 1 \in Nat /\ incident.body \in Body
    BY <1>1 DEF Incident
  <2>2. i \in Incident
    BY <1>1, <2>1 DEF Successor, Incident
  <2>3. /\ i.status = target /\ i.revision = incident.revision + 1
        /\ i.body = incident.body
    BY <1>1, <2>1 DEF Successor, Incident
  <2>4. i.marker = incident.marker /\ i.failure = incident.failure
    BY <1>1 DEF Successor, Incident
  <2>5. QED BY <2>2, <2>3, <2>4
<1>3. incident' = i /\ UNCHANGED <<idempotency, call, now>>
  BY DEF Abandon
<1> HIDE DEF i
<1>4. incident.failure = None
  BY <1>1 DEF Inv, Sound
<1>5. Sound(i)
  <2>1. RunOnce(i.body) /\ \A run \in i.body.action_runs : Authorised(i.body, run.authorised_at)
    BY <1>2 DEF Inv, Sound
  <2>2. /\ \A r \in i.body.rca_reports : r.workflow = i.marker
        /\ \A d \in i.body.approvals : d.request = i.marker
    BY <1>2 DEF Inv, Sound
  <2>3. QED BY <1>1, <1>2, <1>4, <2>1, <2>2 DEF Sound, BeforeRun
<1>6. \A x \in Incident : Past(x) => Past(x)'
  BY <1>1, <1>2, <1>3, StaysPast
<1>7. ASSUME NEW c \in Callers PROVE CallInv(call[c])'
  <2>1. call'[c] = call[c] /\ CallInv(call[c])
    BY <1>3 DEF Inv
  <2>2. call[c] \in Acting \cup Reporting => call[c].cur \in Incident
    BY DEF Acting, Reporting
  <2>3. QED BY <1>6, <2>1, <2>2 DEF CallInv
<1>8. ASSUME NEW k \in DOMAIN idempotency' PROVE ResultInv(idempotency[k])'
  <2>1. idempotency'[k] = idempotency[k] /\ ResultInv(idempotency[k])
    BY <1>3 DEF Inv
  <2>2. QED BY <1>6, <2>1 DEF ResultInv
<1>9. QED BY <1>1, <1>2, <1>3, <1>5, <1>7, <1>8 DEF Inv

\* A lost call leaves nothing behind but what it committed.
LEMMA CrashStep ==
    ASSUME Inv, NEW c \in Callers, Crash(c)
    PROVE  Inv'
<1>1. /\ UNCHANGED <<incident, idempotency, now>> /\ DOMAIN call' = Callers
      /\ \A d \in Callers : call'[d] = IF d = c THEN Idle ELSE call[d]
  BY DEF Crash, Inv
<1>2. \A d \in Callers : CallInv(call[d])'
  BY <1>1 DEF Inv, CallInv, Past
<1>3. \A k \in DOMAIN idempotency' : ResultInv(idempotency[k])'
  BY <1>1 DEF Inv, ResultInv, Past
<1>4. QED BY <1>1, <1>2, <1>3 DEF Inv

\* Neither the passing of time nor a stuttering step changes what is committed.
LEMMA QuietStep ==
    ASSUME Inv, UNCHANGED <<incident, idempotency, call>>, now' \in Nat
    PROVE  Inv'
<1>1. \A d \in Callers : CallInv(call[d])'
  BY DEF Inv, CallInv, Past
<1>2. \A k \in DOMAIN idempotency' : ResultInv(idempotency[k])'
  BY DEF Inv, ResultInv, Past
<1>3. QED BY <1>1, <1>2 DEF Inv

LEMMA InitInv == Init => Inv
<1> SUFFICES ASSUME Init PROVE Inv
  OBVIOUS
<1>1. NewBody \in Body
  <2>1. <<>> \in Seq(Verification)
    OBVIOUS
  <2>2. QED BY <2>1 DEF NewBody, Body, Recs
<1>2. incident \in Incident /\ now \in Nat
  BY <1>1 DEF Init, Incident, IncidentStatus, Workflow
<1>3. Sound(incident)
  BY DEF Init, Sound, NewBody, RunOnce
<1>4. DOMAIN call = Callers /\ \A c \in Callers : CallInv(call[c])
  BY DEF Init, CallInv
<1>5. \A k \in DOMAIN idempotency : ResultInv(idempotency[k])
  BY DEF Init
<1>6. QED BY <1>2, <1>3, <1>4, <1>5 DEF Inv

LEMMA NextInv == Inv /\ [Next]_vars => Inv'
<1> SUFFICES ASSUME Inv, [Next]_vars PROVE Inv'
  OBVIOUS
<1>1. ASSUME NEW c \in Callers, Step(c) PROVE Inv'
  BY <1>1, PrepareGetStep, TriageStep, InvestigateStep, AnalyzeStep, RcaStep,
     RequestGetStep, RequestCommitStep, DecideGetStep, DecideCommitStep, ExecuteGetStep,
     ResolveStep, RunStep, FailStep, VerifyStep
     DEF Step
<1>2. ASSUME NEW c \in Callers, Crash(c) PROVE Inv'
  BY <1>2, CrashStep
<1>3. ASSUME NEW c \in Callers, NEW r \in Requests, Begin(c, r) PROVE Inv'
  BY <1>3, BeginStep
<1>4. ASSUME NEW target \in AbandonTargets, Abandon(target) PROVE Inv'
  BY <1>4, AbandonStep
<1>5. CASE Tick
  BY <1>5, QuietStep DEF Tick, Inv
<1>6. CASE UNCHANGED vars
  BY <1>6, QuietStep DEF vars, Inv
<1>7. QED BY <1>1, <1>2, <1>3, <1>4, <1>5, <1>6 DEF Next

LEMMA InvAlways == Spec => []Inv
BY InitInv, NextInv, PTL DEF Spec

-----------------------------------------------------------------------------
\* The simulated action gateway runs only what an approval effective at its look
\* authorises (resolve_for_execution), whatever is decided, retried, abandoned,
\* lost or expires between that look and the commit of the run.
THEOREM AuthorisedRuns == Spec => []RunAuthorised
<1>1. Inv => RunAuthorised
  BY DEF Inv, Sound, Authorised, RunAuthorised, Incident, Body, Run
<1>2. QED BY <1>1, InvAlways, PTL

\* However many prepare and execute calls race, are lost or sent again, the
\* incident's report, approvals and marker are of one prepare request, and the
\* action is run once and verified once, by one execute request (the revision
\* check and the idempotency ledger of repository.transition).
THEOREM OneOwner == Spec => []OneRequestOwns
<1>1. Inv => OneWorkflow
  BY DEF Inv, Sound, OneWorkflow
<1>2. ASSUME Inv PROVE ExecutedOnce
  <2> DEFINE body == incident.body
  <2>1. RunOnce(body)
    BY <1>2 DEF Inv, Sound
  <2>2. Cardinality({}) = 0
    BY FS_EmptySet
  <2>3. \A x : Cardinality({x}) = 1
    BY FS_Singleton
  <2>4. CASE body.action_runs = {} /\ body.verification_runs = <<>>
    BY <2>2, <2>4 DEF ExecutedOnce
  <2>5. ASSUME NEW run \in body.action_runs, body.action_runs = {run},
               \/ body.verification_runs = <<>>
               \/ /\ Len(body.verification_runs) = 1
                  /\ body.verification_runs[1].request = run.request
        PROVE  ExecutedOnce
    <3>1. Cardinality(body.action_runs) <= 1
      <4>1. Cardinality({run}) = 1
        BY <2>3
      <4>2. body.action_runs = {run}
        BY <2>5
      <4>3. Cardinality(body.action_runs) = 1
        BY <4>1, <4>2, Zenon
      <4>4. QED BY <4>3
    <3>2. body.verification_runs \in Seq(Verification)
      BY <1>2 DEF Inv, Incident, Body
    <3>3. CASE body.verification_runs = <<>>
      BY <3>1, <3>3 DEF ExecutedOnce
    <3>4. CASE /\ Len(body.verification_runs) = 1
               /\ body.verification_runs[1].request = run.request
      <4>1. DOMAIN body.verification_runs = {1}
        BY <3>2, <3>4
      <4>2. QED BY <2>5, <3>1, <3>4, <4>1 DEF ExecutedOnce
    <3>5. QED BY <2>5, <3>3, <3>4
  <2>6. QED BY <2>1, <2>4, <2>5 DEF RunOnce
<1>3. Inv => OneRequestOwns
  BY <1>1, <1>2 DEF OneRequestOwns
<1>4. QED BY <1>3, InvAlways, PTL

\* An incident that failed because its grant expired carries the binding that
\* _require_complete_execution_failure_binding asks for when prepare and execute
\* meet it again: no run, no verification, and the approval that was granted.
THEOREM FailureBound == Spec => []FailureBindingComplete
<1>1. Inv => FailureBindingComplete
  BY DEF Inv, Sound, RunOnce, FailureBindingComplete
<1>2. QED BY <1>1, InvAlways, PTL
===============================================================================
