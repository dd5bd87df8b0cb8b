-------------------------- MODULE IncidentRepository --------------------------
(***************************************************************************)
(* The incident repository contract (IncidentRepository of telco_domain)   *)
(* as InMemoryIncidentRepository implements it under one lock and          *)
(* DuckDbIncidentRepository in one transaction per call.  It is also the   *)
(* abstract specification that SpannerIncidentRepository refines.          *)
(*                                                                         *)
(* A call is atomic.  It either commits (an action below) or it changes    *)
(* nothing: an exact retry of a committed request is answered from the     *)
(* idempotency record, and every rejected request raises before its first  *)
(* write.  Both are stuttering steps.                                      *)
(***************************************************************************)
EXTENDS IncidentStateMachine, FiniteSets

CONSTANTS
    IncidentIds,
    SourceEvents,
    CorrelationKeys,
    NoKey,             \* correlation_key is None
    Keys,              \* idempotency keys
    Times,             \* clock readings of the callers' processes
    Bodies,            \* incident bodies callers may ask for
    MaxSourceEvents,   \* MAX_INCIDENT_SOURCE_EVENTS
    MaxRevision        \* bound on transitions (model checking only)

VARIABLES
    incidents,       \* incident id -> incident, or Missing
    source_events,   \* incident id -> source events associated with it
    idempotency,     \* <<operation, requested id, key>> -> record of the result
    history          \* incident id -> audit events, in order

vars == <<incidents, source_events, idempotency, history>>

Missing == [status |-> "MISSING"]

Operations ==
    {"create", "create_or_correlate", "import_detected_snapshot", "transition", "save"}

Candidate ==
    [id : IncidentIds, correlation_key : CorrelationKeys \cup {NoKey},
     source_event_ids : SUBSET SourceEvents]

Incident ==
    [status : IncidentStatus, revision : 0..MaxRevision, updated_at : Times,
     correlation_key : CorrelationKeys \cup {NoKey}, body : Bodies]

AuditEvents ==
    [from : IncidentStatus \cup {"NONE"}, to : IncidentStatus, revision : 0..MaxRevision,
     operation : Operations, key : Keys]

IdempotencyRecord ==
    [associations : SUBSET SourceEvents, id : IncidentIds,
     status : IncidentStatus, revision : 0..MaxRevision]

\* The body of a newly detected incident.
DetectedBody(sources) ==
    [source_event_ids |-> sources, duplicate_of |-> FALSE,
     recommendations |-> {}, rca_reports |-> {}, approvals |-> {},
     action_runs |-> {}, verification_runs |-> <<>>]

ASSUME RepositoryAssumption ==
    /\ NoKey \notin CorrelationKeys
    /\ IsFiniteSet(SourceEvents)
    /\ Times \subseteq Nat
    /\ MaxSourceEvents \in Nat
    /\ MaxRevision \in Nat
    /\ \A sources \in SUBSET SourceEvents : DetectedBody(sources) \in Bodies
    /\ \A body \in Bodies : body.source_event_ids \subseteq SourceEvents

\* _validate_new_incident: DETECTED, revision 0, stamped with the clock.
NewIncident(c, at) ==
    [status |-> "DETECTED", revision |-> 0, updated_at |-> at,
     correlation_key |-> c.correlation_key,
     body |-> DetectedBody(c.source_event_ids)]

Exists(i) == incidents[i] # Missing
IsActive(i) == Exists(i) /\ incidents[i].status \notin SettledStatuses

-----------------------------------------------------------------------------
\* _find_active_locked: the unsettled incidents that share the correlation key
\* or an associated source event.
ActiveMatches(key, sources) ==
    { i \in IncidentIds :
        /\ IsActive(i)
        /\ \/ key # NoKey /\ incidents[i].correlation_key = key
           \/ sources \cap source_events[i] # {} }

\* _register_source_events_locked succeeds: the capacity is not exceeded and
\* no other incident, settled or not, owns one of the events.
CanRegister(i, sources) ==
    /\ Cardinality(source_events[i] \cup sources) <= MaxSourceEvents
    /\ \A j \in IncidentIds \ {i} : source_events[j] \cap sources = {}

\* _require_reactivation_keys_locked: a settled incident may only come back if
\* no unsettled one has taken over its correlation key or source events.
ReactivationAllowed(i, successor) ==
    incidents[i].status \in SettledStatuses /\ successor.status \notin SettledStatuses
        => ActiveMatches(successor.correlation_key, source_events[i]) \ {i} = {}

\* _replay finds no record: the request has not been committed before.
IsNew(scope) == scope \notin DOMAIN idempotency

\* _IdempotencyRecord: the fingerprint and the committed snapshot.  Of the
\* request the model keeps the associations, which only an import's retry
\* checks again; of the snapshot, its revision and status.
Remember(scope, associations, i, result) ==
    idempotency' = [s \in DOMAIN idempotency \cup {scope} |->
                      IF s = scope
                      THEN [associations |-> associations, id |-> i,
                            status |-> result.status, revision |-> result.revision]
                      ELSE idempotency[s]]

AuditEvent(from, result, scope) ==
    [from |-> from, to |-> result.status, revision |-> result.revision,
     operation |-> scope[1], key |-> scope[3]]

\* _commit_create_locked
CommitCreate(scope, i, incident, sources) ==
    /\ source_events' = [source_events EXCEPT ![i] = @ \cup sources]
    /\ incidents' = [incidents EXCEPT ![i] = incident]
    /\ Remember(scope, sources, i, incident)
    /\ history' = [history EXCEPT ![i] = <<AuditEvent("NONE", incident, scope)>>]

\* Mutant of CommitTransition: the audit event repeats the old status.
CommitTransitionAuditOld(scope, i, successor) ==
    /\ source_events' =
         [source_events EXCEPT ![i] = @ \cup successor.body.source_event_ids]
    /\ incidents' = [incidents EXCEPT ![i] = successor]
    /\ Remember(scope, {}, i, successor)
    /\ history' = [history EXCEPT ![i] =
                     Append(@, AuditEvent(incidents[i].status, incidents[i], scope))]

\* _commit_transition_locked
CommitTransition(scope, i, successor) ==
    /\ source_events' =
         [source_events EXCEPT ![i] = @ \cup successor.body.source_event_ids]
    /\ incidents' = [incidents EXCEPT ![i] = successor]
    /\ Remember(scope, {}, i, successor)
    /\ history' = [history EXCEPT ![i] =
                     Append(@, AuditEvent(incidents[i].status, successor, scope))]

-----------------------------------------------------------------------------
Init ==
    /\ incidents = [i \in IncidentIds |-> Missing]
    /\ source_events = [i \in IncidentIds |-> {}]
    /\ idempotency = [s \in {} |-> Missing]
    /\ history = [i \in IncidentIds |-> <<>>]

\* create
Create(c, key, at) ==
    LET scope == <<"create", c.id, key>>
    IN  /\ IsNew(scope)
        /\ ~Exists(c.id)
        /\ ActiveMatches(c.correlation_key, c.source_event_ids) = {}
        /\ CanRegister(c.id, c.source_event_ids)
        /\ CommitCreate(scope, c.id, NewIncident(c, at), c.source_event_ids)

\* create_or_correlate, when one unsettled incident already covers the candidate:
\* the events join it, its own record and history stay as they are.
Correlate(c, key, i) ==
    LET scope == <<"create_or_correlate", c.id, key>>
    IN  /\ IsNew(scope)
        /\ ActiveMatches(c.correlation_key, c.source_event_ids) = {i}
        /\ CanRegister(i, c.source_event_ids)
        /\ source_events' = [source_events EXCEPT ![i] = @ \cup c.source_event_ids]
        /\ Remember(scope, c.source_event_ids, i, incidents[i])
        /\ UNCHANGED <<incidents, history>>

\* create_or_correlate, when no unsettled incident matches.
CreateUncorrelated(c, key, at) ==
    LET scope == <<"create_or_correlate", c.id, key>>
    IN  /\ IsNew(scope)
        /\ ActiveMatches(c.correlation_key, c.source_event_ids) = {}
        /\ ~Exists(c.id)
        /\ CanRegister(c.id, c.source_event_ids)
        /\ CommitCreate(scope, c.id, NewIncident(c, at), c.source_event_ids)

\* import_detected_snapshot: the snapshot brings its own time stamp and every
\* association it ever had, not only the aggregate's own source events.
ImportDetectedSnapshot(c, associations, key, at) ==
    LET scope == <<"import_detected_snapshot", c.id, key>>
    IN  /\ IsNew(scope)
        /\ c.source_event_ids \subseteq associations
        /\ ~Exists(c.id)
        /\ CanRegister(c.id, associations)
        /\ ActiveMatches(c.correlation_key, associations) = {}
        /\ CommitCreate(scope, c.id, NewIncident(c, at), associations)

\* transition, and save (compare_and_swap), which rebuilds the successor
\* through the same state machine and refuses any other candidate.
Transition(op, i, target, expected, key, at, body) ==
    LET scope == <<op, i, key>>
        successor == Successor(incidents[i], target, at, body)
    IN  /\ IsNew(scope)
        /\ Exists(i)
        /\ incidents[i].revision = expected
        /\ expected < MaxRevision
        /\ TransitionAllowed(incidents[i], target, at, body)
        /\ ReactivationAllowed(i, successor)
        /\ CanRegister(i, body.source_event_ids)
        /\ CommitTransition(scope, i, successor)

Next ==
    \/ \E c \in Candidate, key \in Keys, at \in Times :
         \/ Create(c, key, at)
         \/ CreateUncorrelated(c, key, at)
         \/ \E associations \in SUBSET SourceEvents :
              ImportDetectedSnapshot(c, associations, key, at)
    \/ \E c \in Candidate, key \in Keys, i \in IncidentIds : Correlate(c, key, i)
    \/ \E i \in IncidentIds, expected \in 0..MaxRevision :
         /\ Exists(i) /\ incidents[i].revision = expected   \* spares TLC the rest
         /\ \E key \in Keys, at \in Times, op \in {"transition", "save"}, body \in Bodies :
              \E target \in Transitions(incidents[i].status) :
                 Transition(op, i, target, expected, key, at, body)

Spec == Init /\ [][Next]_vars

-----------------------------------------------------------------------------
\* The shapes of the repository's four tables.
TypeOK ==
    /\ incidents \in [IncidentIds -> Incident \cup {Missing}]
    /\ source_events \in [IncidentIds -> SUBSET SourceEvents]
    /\ DOMAIN idempotency \subseteq Operations \X IncidentIds \X Keys
    /\ \A s \in DOMAIN idempotency : idempotency[s] \in IdempotencyRecord
    /\ history \in [IncidentIds -> Seq(AuditEvents)]

\* Two unsettled incidents never share a correlation key, however incidents are
\* created, imported, settled and reopened (_find_active_locked,
\* _require_reactivation_keys_locked).
OneActivePerCorrelation ==
    \A i, j \in IncidentIds :
        IsActive(i) /\ IsActive(j) /\ i # j
            /\ incidents[i].correlation_key # NoKey
            => incidents[i].correlation_key # incidents[j].correlation_key

\* A source event has at most one incident, so _source_event_owner_locked never
\* finds "source-event ownership invariant is corrupted", and never changes it,
\* not even after that incident has settled.
SourceEventOwnership ==
    \A i, j \in IncidentIds : i # j => source_events[i] \cap source_events[j] = {}

\* Whatever the aggregate claims as its source events is registered
\* provenance: transitions that append source events register them too.
AggregateHasProvenance ==
    \A i \in IncidentIds :
        Exists(i) => incidents[i].body.source_event_ids \subseteq source_events[i]

\* The audit trail is complete: one event per revision, each continuing from
\* the previous one along the transition graph, ending in the current status.
AuditTrail ==
    \A i \in IncidentIds :
        IF Exists(i)
        THEN /\ Len(history[i]) = incidents[i].revision + 1
             /\ history[i][1].from = "NONE" /\ history[i][1].to = "DETECTED"
             /\ \A n \in 1..Len(history[i]) : history[i][n].revision = n - 1
             /\ \A n \in 2..Len(history[i]) :
                  /\ history[i][n].from = history[i][n-1].to
                  /\ history[i][n].to \in Transitions(history[i][n].from)
             /\ history[i][Len(history[i])].to = incidents[i].status
        ELSE history[i] = <<>>

\* An exact retry is answered from the idempotency record with a snapshot that
\* really was committed at its revision, even if the incident has moved on.
ReplayIsCommitted ==
    \A s \in DOMAIN idempotency :
        LET record == idempotency[s]
        IN  /\ Exists(record.id)
            /\ record.revision <= incidents[record.id].revision
            /\ history[record.id][record.revision + 1].to = record.status

\* An exact retry of a migration import passes every consistency check of
\* import_detected_snapshot, whatever happened to the incident since: it is
\* never refused as "persisted migration ... is inconsistent".
ImportReplayConsistent ==
    \A s \in DOMAIN idempotency :
        s[1] = "import_detected_snapshot" =>
            LET i == s[2]
                associations == idempotency[s].associations
            IN  /\ Exists(i)
                /\ associations \subseteq source_events[i]
                /\ history[i][1].to = "DETECTED"
                /\ history[i][1].key = s[3]
                /\ IsActive(i) /\ (incidents[i].correlation_key # NoKey \/ associations # {})
                     => ActiveMatches(incidents[i].correlation_key, associations) = {i}
===============================================================================
