----------------------------- MODULE EventIngest -----------------------------
(***************************************************************************)
(* Fault ingress (FaultIngressService of telco_fault_ingress) over         *)
(* SpannerEventIngestRepository of telco_cloud.                            *)
(*                                                                         *)
(* Pub/Sub pushes every source event until a push is answered with 204,    *)
(* and sometimes again after that.  A push is handled in the pipeline mode *)
(* its process was configured with; a cutover deploys processes with       *)
(* another mode while older pushes are still being handled.  One           *)
(* transaction either answers an event from its Inbox row or commits the   *)
(* row together with the incident, its association and, for a new          *)
(* incident, the one outbox row that triggers the agents.  Meanwhile the   *)
(* agents move the incidents through their lifecycle.                      *)
(*                                                                         *)
(* An outbox row is present here from its insertion on; what dispatchers   *)
(* do with it is module Outbox.                                            *)
(***************************************************************************)
EXTENDS SpannerIncidentRepository

CONSTANTS
    EventCandidate,       \* source event -> the incident normalize_fault_event derives
    EventKey,             \* source event -> the idempotency key of its trigger
    AgentsAppendSources   \* whether agents copy associated events into the aggregate

ASSUME IngestAssumption ==
    /\ EventCandidate \in [SourceEvents -> Candidate]
    /\ \A s \in SourceEvents :
         /\ EventCandidate[s].source_event_ids = {s}
         /\ EventCandidate[s].correlation_key # NoKey
    /\ \A s, t \in SourceEvents : s # t => EventCandidate[s].id # EventCandidate[t].id
    /\ EventKey \in [SourceEvents -> Keys]
    /\ AgentsAppendSources \in BOOLEAN

VARIABLES
    inbox,      \* source event -> [disposition, incident], or NoRow
    outbox,     \* set of [event, incident]: the trigger and its incident snapshot
    mode,       \* the pipeline mode new processes are configured with
    requests,   \* pushes being handled: <<source event, mode of the process>>
    acked       \* the events Pub/Sub got a 204 for

ingestVars == <<incidents, source_events, idempotency, history, activeKeys,
                inbox, outbox, mode, requests, acked>>

FaultPipelineMode == {"legacy", "shadow", "canonical", "paused"}
NoRow == [disposition |-> "none"]
NoIncident == [status |-> "NONE"]

\* The fields of a persisted incident snapshot that a replay compares.
Snapshot(i, incident) ==
    [id |-> i, status |-> incident.status, revision |-> incident.revision,
     correlation_key |-> incident.correlation_key,
     source_event_ids |-> incident.body.source_event_ids]

-----------------------------------------------------------------------------
\* _incident_identity: id, correlation key and aggregate source events.  The
\* fields not modelled (technology, detected_at, created_at, trace_id) are
\* protected from updates by the state machine.
IncidentIdentity(snapshot) ==
    <<snapshot.id, snapshot.correlation_key, snapshot.source_event_ids>>

\* Mutant of IdentityHolds: the whole snapshot is compared.
IdentityHoldsWhole(s) ==
    LET original == inbox[s].incident
    IN  Exists(original.id) /\ Snapshot(original.id, incidents[original.id]) = original

\* The persisted incident still has the identity the Inbox row recorded.
IdentityHolds(s) ==
    LET original == inbox[s].incident
    IN  /\ Exists(original.id)
        /\ IncidentIdentity(Snapshot(original.id, incidents[original.id]))
             = IncidentIdentity(original)

\* The bindings to the association, the idempotency record and the outbox row.
BindingsHold(s) ==
    LET original == inbox[s].incident
        scope == <<"create_or_correlate", EventCandidate[s].id, EventKey[s]>>
    IN  /\ s \in source_events[original.id]
        /\ ~IsNew(scope)
        /\ idempotency[scope].id = original.id
        /\ idempotency[scope].status = original.status
        /\ idempotency[scope].revision = original.revision
        /\ inbox[s].disposition = "created" => [event |-> s, incident |-> original] \in outbox

\* ingest finds an Inbox row and none of its checks raises.
ReplayConsistent(s) ==
    inbox[s].disposition # "shadow_recorded" => IdentityHolds(s) /\ BindingsHold(s)

\* _result_matches_mode, for a result of ingest.  A result that is not a replay
\* has the disposition of the mode it was ingested in.
ResultMatches(s, row) ==
    row.disposition # "shadow_recorded" =>
        row.incident.correlation_key = EventCandidate[s].correlation_key

-----------------------------------------------------------------------------
IngestInit ==
    /\ SpannerInit
    /\ inbox = [s \in SourceEvents |-> NoRow]
    /\ outbox = {}
    /\ mode = "shadow"
    /\ requests = {}
    /\ acked = {}

\* ingest, an exact replay: nothing is written.
Replay(s) ==
    /\ inbox[s] # NoRow
    /\ ReplayConsistent(s)
    /\ UNCHANGED <<spannerVars, inbox, outbox>>

\* ingest(shadow=True), a new event.
RecordShadow(s) ==
    /\ inbox[s] = NoRow
    /\ inbox' = [inbox EXCEPT ![s] = [disposition |-> "shadow_recorded",
                                      incident |-> NoIncident]]
    /\ UNCHANGED <<spannerVars, outbox>>

\* ingest, a new event that no unsettled incident covers: incident, outbox row
\* and Inbox row commit together.
IngestCreate(s, at) ==
    LET c == EventCandidate[s]
        snapshot == Snapshot(c.id, NewIncident(c, at))
    IN  /\ inbox[s] = NoRow
        /\ SpannerCreateUncorrelated(c, EventKey[s], at)
        /\ inbox' = [inbox EXCEPT ![s] = [disposition |-> "created", incident |-> snapshot]]
        /\ outbox' = outbox \cup {[event |-> s, incident |-> snapshot]}

\* Mutant of IngestCorrelate: a correlated event triggers the agents again.
IngestCorrelateTriggers(s, i) ==
    LET snapshot == Snapshot(i, incidents[i])
    IN  /\ inbox[s] = NoRow
        /\ SpannerCorrelate(EventCandidate[s], EventKey[s], i)
        /\ inbox' = [inbox EXCEPT ![s] =
                       [disposition |-> "correlated", incident |-> snapshot]]
        /\ outbox' = outbox \cup {[event |-> s, incident |-> snapshot]}

\* ingest, a new event that an unsettled incident covers: no new trigger.
IngestCorrelate(s, i) ==
    /\ inbox[s] = NoRow
    /\ SpannerCorrelate(EventCandidate[s], EventKey[s], i)
    /\ inbox' = [inbox EXCEPT ![s] = [disposition |-> "correlated",
                                      incident |-> Snapshot(i, incidents[i])]]
    /\ UNCHANGED outbox

-----------------------------------------------------------------------------
\* Pub/Sub pushes s, acknowledged or not, to a process in the current mode.  A
\* paused process answers 503 at once.  Bound: one push per event and mode.
Receive(s) ==
    /\ mode # "paused"
    /\ <<s, mode>> \notin requests
    /\ requests' = requests \cup {<<s, mode>>}
    /\ UNCHANGED <<spannerVars, inbox, outbox, mode, acked>>

\* The push is answered; the answer, or the outcome of the commit, may be lost.
Answer(s, m, delivered) ==
    /\ <<s, m>> \in requests
    /\ requests' = requests \ {<<s, m>>}
    /\ acked' = IF delivered THEN acked \cup {s} ELSE acked
    /\ UNCHANGED mode

\* process in shadow or canonical mode reaches a durable result: 204 if the
\* result matches, else 503 although it is committed.
Accept(s, m, delivered) ==
    /\ \/ Replay(s)
       \/ m = "shadow" /\ RecordShadow(s)
       \/ m = "canonical" /\ \E at \in Times : IngestCreate(s, at)
       \/ m = "canonical" /\ \E i \in IncidentIds : IngestCorrelate(s, i)
    /\ delivered => ResultMatches(s, inbox'[s])
    /\ Answer(s, m, delivered)

\* process in legacy mode: the legacy handler, outside this system, decides.
AcceptLegacy(s, accepted) ==
    /\ Answer(s, "legacy", accepted)
    /\ UNCHANGED <<spannerVars, inbox, outbox>>

\* A dependency fails, a check raises or the process dies: 400, 503 or nothing.
Refuse(s, m) ==
    /\ m # "legacy"
    /\ Answer(s, m, FALSE)
    /\ UNCHANGED <<spannerVars, inbox, outbox>>

\* A deployment with another pipeline mode.
SwitchMode(m) ==
    /\ m # mode
    /\ mode' = m
    /\ UNCHANGED <<spannerVars, inbox, outbox, requests, acked>>

\* An agent moves an incident on.  With AgentsAppendSources it may copy events
\* ingestion has associated with the incident into source_event_ids.
AgentTransition(i, target, key, at, body) ==
    /\ body.source_event_ids \subseteq
         IF AgentsAppendSources THEN source_events[i] ELSE incidents[i].body.source_event_ids
    /\ SpannerTransition("transition", i, target, incidents[i].revision, key, at, body)
    /\ UNCHANGED <<inbox, outbox, mode, requests, acked>>

IngestNext ==
    \/ \E s \in SourceEvents :
         \/ Receive(s)
         \/ \E delivered \in BOOLEAN :
              \/ \E m \in {"shadow", "canonical"} : Accept(s, m, delivered)
              \/ AcceptLegacy(s, delivered)
         \/ \E m \in FaultPipelineMode : Refuse(s, m)
    \/ \E m \in FaultPipelineMode : SwitchMode(m)
    \/ \E i \in { j \in IncidentIds : Exists(j) }, key \in Keys, at \in Times, body \in Bodies :
         \E target \in Transitions(incidents[i].status) :
            AgentTransition(i, target, key, at, body)

\* Pub/Sub keeps pushing an unacknowledged event, and a push that can succeed
\* again and again is not refused or unanswered for ever.
Fairness ==
    \A s \in SourceEvents :
        /\ WF_ingestVars(s \notin acked /\ Receive(s))
        /\ SF_ingestVars(\E m \in {"shadow", "canonical"} : Accept(s, m, TRUE))

IngestSpec == IngestInit /\ [][IngestNext]_ingestVars /\ Fairness

-----------------------------------------------------------------------------
\* Every incident triggers the agents exactly once, for the event that created
\* it, however often and in whatever modes its events are delivered: incidents,
\* "created" Inbox rows and outbox rows correspond one to one.
OneTriggerPerIncident ==
    /\ \A i \in IncidentIds : Exists(i) => \E row \in outbox : row.incident.id = i
    /\ \A row, other \in outbox : row.incident.id = other.incident.id => row = other
    /\ \A row \in outbox :
         inbox[row.event] = [disposition |-> "created", incident |-> row.incident]
    /\ \A s \in SourceEvents :
         inbox[s].disposition = "created" => \E row \in outbox : row.event = s

\* "A mode cutover acknowledges an exact durable replay in either direction":
\* whatever agents did to the incident since, an exact redelivery passes every
\* consistency check of ingest and is acknowledged.
ExactReplayAcknowledged ==
    \A s \in SourceEvents :
        inbox[s] # NoRow => ReplayConsistent(s) /\ ResultMatches(s, inbox[s])

\* Once the pipeline stays in shadow or canonical mode, every event is
\* acknowledged: no interleaving of cutovers, redeliveries and lifecycle steps
\* leaves an event that is refused for ever.
EventuallyAcked ==
    <>[](mode \in {"shadow", "canonical"}) => \A s \in SourceEvents : <>(s \in acked)
===============================================================================
