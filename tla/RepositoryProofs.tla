--------------------------- MODULE RepositoryProofs ---------------------------
(***************************************************************************)
(* The repository contract for any number of incidents, source events,     *)
(* keys and callers, and the Spanner repository that implements it.        *)
(*                                                                         *)
(* The contract: the inductive invariant is the conjunction of the type    *)
(* invariant and of the three properties that protect each other:          *)
(* ownership, one unsettled incident per correlation key, and provenance.  *)
(*                                                                         *)
(* The Spanner repository: its index is exact, so a lookup in the index    *)
(* finds what a scan of the incidents would find (LookupAgrees), and every *)
(* transaction is a step of the contract, whose invariants then hold here  *)
(* too.                                                                    *)
(*                                                                         *)
(* Fault ingress: it calls the Spanner repository, for any number of       *)
(* source events, incidents, deliveries, modes and lifecycle steps of the  *)
(* agents.  Every step of ingestion is a step of the repository or leaves  *)
(* it alone, so that the exact active-key index (SpannerInv) is at hand:   *)
(* an event that was never ingested is associated with no incident, hence  *)
(* an incident the index finds for it has its correlation key.             *)
(***************************************************************************)
EXTENDS EventIngest, SequenceTheorems, FiniteSetTheorems, TLAPS

-----------------------------------------------------------------------------
(* The contract *)

Inv ==
    /\ TypeOK
    /\ SourceEventOwnership
    /\ OneActivePerCorrelation
    /\ AggregateHasProvenance

\* The statuses of committed incidents tell them from a missing one.
LEMMA IncidentExists ==
    ASSUME NEW x \in Incident
    PROVE  x # Missing /\ x.status # "MISSING"
BY DEF Incident, IncidentStatus, Missing

\* What _validate_new_incident returns is an incident with the candidate's key
\* and source events.
LEMMA NewIncidentType ==
    ASSUME NEW c \in Candidate, NEW at \in Times
    PROVE  /\ NewIncident(c, at) \in Incident
           /\ NewIncident(c, at).correlation_key = c.correlation_key
           /\ NewIncident(c, at).body.source_event_ids = c.source_event_ids
           /\ NewIncident(c, at).status = "DETECTED"
           /\ NewIncident(c, at).revision = 0
<1>1. c.source_event_ids \in SUBSET SourceEvents
      /\ c.correlation_key \in CorrelationKeys \cup {NoKey}
  BY DEF Candidate
<1>2. DetectedBody(c.source_event_ids) \in Bodies
  BY <1>1, RepositoryAssumption
<1>3. DetectedBody(c.source_event_ids).source_event_ids = c.source_event_ids
  BY DEF DetectedBody
<1>4. 0 \in 0..MaxRevision
  BY RepositoryAssumption
<1> QED
  BY <1>1, <1>2, <1>3, <1>4 DEF NewIncident, Incident, IncidentStatus

\* transition_incident keeps the protected correlation key.
LEMMA SuccessorType ==
    ASSUME NEW x \in Incident, NEW target \in IncidentStatus, NEW at \in Times,
           NEW body \in Bodies, x.revision < MaxRevision
    PROVE  /\ Successor(x, target, at, body) \in Incident
           /\ Successor(x, target, at, body).status = target
           /\ Successor(x, target, at, body).body = body
           /\ Successor(x, target, at, body).revision = x.revision + 1
           /\ Successor(x, target, at, body).correlation_key = x.correlation_key
<1> DEFINE rev == x.revision + 1
           y == [x EXCEPT !.status = target, !.revision = rev,
                          !.updated_at = at, !.body = body]
<1>1. rev \in 0..MaxRevision
  BY RepositoryAssumption DEF Incident
<1>2. Successor(x, target, at, body) = y
  BY DEF Successor
<1>3. rev = x.revision + 1
  BY DEF rev
<1> HIDE DEF rev
<1>4. y \in Incident
  BY <1>1 DEF Incident
<1>5. y.status = target /\ y.body = body /\ y.revision = rev
      /\ y.correlation_key = x.correlation_key
  BY <1>1 DEF Incident
<1> QED
  BY <1>2, <1>3, <1>4, <1>5

LEMMA TransitionsType ==
    ASSUME NEW s, NEW target \in Transitions(s)
    PROVE  target \in IncidentStatus
BY DEF Transitions, IncidentStatus

-----------------------------------------------------------------------------
\* The parts of a commit.

\* _register_source_events_locked keeps every source event with one incident.
LEMMA RegisterStep ==
    ASSUME TypeOK, SourceEventOwnership,
           NEW i \in IncidentIds, NEW sources \in SUBSET SourceEvents,
           CanRegister(i, sources),
           source_events' = [source_events EXCEPT ![i] = @ \cup sources]
    PROVE  /\ source_events' \in [IncidentIds -> SUBSET SourceEvents]
           /\ SourceEventOwnership'
           /\ \A j \in IncidentIds : source_events[j] \subseteq source_events'[j]
           /\ sources \subseteq source_events'[i]
<1>1. source_events \in [IncidentIds -> SUBSET SourceEvents]
  BY DEF TypeOK
<1>2. \A j \in IncidentIds :
        source_events'[j] = IF j = i THEN source_events[i] \cup sources
                                     ELSE source_events[j]
  BY <1>1
<1>3. \A j \in IncidentIds \ {i} : source_events[j] \cap sources = {}
  BY DEF CanRegister
<1>4. SourceEventOwnership'
  BY <1>2, <1>3 DEF SourceEventOwnership
<1> QED BY <1>1, <1>2, <1>4

LEMMA RememberStep ==
    ASSUME TypeOK,
           NEW scope \in Operations \X IncidentIds \X Keys,
           NEW associations \in SUBSET SourceEvents,
           NEW i \in IncidentIds, NEW result \in Incident,
           Remember(scope, associations, i, result)
    PROVE  /\ DOMAIN idempotency' \subseteq Operations \X IncidentIds \X Keys
           /\ \A s \in DOMAIN idempotency' : idempotency'[s] \in IdempotencyRecord
<1> DEFINE record == [associations |-> associations, id |-> i,
                      status |-> result.status, revision |-> result.revision]
<1>1. record \in IdempotencyRecord
  BY DEF IdempotencyRecord, Incident
<1> HIDE DEF record
<1>2. idempotency' = [s \in DOMAIN idempotency \cup {scope} |->
                        IF s = scope THEN record ELSE idempotency[s]]
  BY DEF Remember, record
<1>3. /\ DOMAIN idempotency \subseteq Operations \X IncidentIds \X Keys
      /\ \A s \in DOMAIN idempotency : idempotency[s] \in IdempotencyRecord
  BY DEF TypeOK
<1> QED BY <1>1, <1>2, <1>3

LEMMA AuditEventType ==
    ASSUME NEW scope \in Operations \X IncidentIds \X Keys, NEW result \in Incident,
           NEW from \in IncidentStatus \cup {"NONE"}
    PROVE  AuditEvent(from, result, scope) \in AuditEvents
BY DEF AuditEvent, AuditEvents, Incident

-----------------------------------------------------------------------------
\* create, create_or_correlate without a match, and import_detected_snapshot.
LEMMA CreateStep ==
    ASSUME Inv,
           NEW scope \in Operations \X IncidentIds \X Keys,
           NEW c \in Candidate, NEW at \in Times,
           NEW sources \in SUBSET SourceEvents,
           c.source_event_ids \subseteq sources,
           ActiveMatches(c.correlation_key, sources) = {},
           CanRegister(c.id, sources),
           CommitCreate(scope, c.id, NewIncident(c, at), sources)
    PROVE  Inv'
<1> DEFINE i == c.id
           x == NewIncident(c, at)
<1>1. i \in IncidentIds
  BY DEF Candidate
<1>2. /\ x \in Incident
      /\ x.correlation_key = c.correlation_key
      /\ x.body.source_event_ids = c.source_event_ids
      /\ x.status = "DETECTED"
  BY NewIncidentType
<1>3. /\ source_events' = [source_events EXCEPT ![i] = @ \cup sources]
      /\ incidents' = [incidents EXCEPT ![i] = x]
      /\ Remember(scope, sources, i, x)
      /\ history' = [history EXCEPT ![i] = <<AuditEvent("NONE", x, scope)>>]
  BY DEF CommitCreate
<1> HIDE DEF i, x
<1>4. incidents \in [IncidentIds -> Incident \cup {Missing}]
  BY DEF Inv, TypeOK
<1>5. \A j \in IncidentIds : incidents'[j] = IF j = i THEN x ELSE incidents[j]
  BY <1>1, <1>3, <1>4
<1>6. /\ source_events' \in [IncidentIds -> SUBSET SourceEvents]
      /\ SourceEventOwnership'
      /\ \A j \in IncidentIds : source_events[j] \subseteq source_events'[j]
      /\ sources \subseteq source_events'[i]
  BY <1>1, <1>3, RegisterStep DEF Inv, i
<1>7. TypeOK'
  <2>1. incidents' \in [IncidentIds -> Incident \cup {Missing}]
    BY <1>1, <1>2, <1>3, <1>4
  <2>2. /\ DOMAIN idempotency' \subseteq Operations \X IncidentIds \X Keys
        /\ \A s \in DOMAIN idempotency' : idempotency'[s] \in IdempotencyRecord
    BY <1>1, <1>2, <1>3, RememberStep DEF Inv
  <2>3. AuditEvent("NONE", x, scope) \in AuditEvents
    BY <1>2, AuditEventType
  <2>4. history' \in [IncidentIds -> Seq(AuditEvents)]
    BY <1>1, <1>3, <2>3 DEF Inv, TypeOK
  <2> QED BY <1>6, <2>1, <2>2, <2>4 DEF TypeOK
<1>8. OneActivePerCorrelation'
  <2>1. \A j \in IncidentIds :
          IsActive(j) /\ c.correlation_key # NoKey
             => incidents[j].correlation_key # c.correlation_key
    BY DEF ActiveMatches
  <2>2. \A j \in IncidentIds \ {i} : IsActive(j)' <=> IsActive(j)
    BY <1>5 DEF IsActive, Exists
  <2>3. OneActivePerCorrelation
    BY DEF Inv
  <2> QED BY <1>2, <1>5, <2>1, <2>2, <2>3 DEF OneActivePerCorrelation
<1>9. AggregateHasProvenance'
  <2>1. \A j \in IncidentIds \ {i} :
          Exists(j)' => incidents'[j].body.source_event_ids \subseteq source_events'[j]
    BY <1>5, <1>6 DEF Inv, AggregateHasProvenance, Exists
  <2>2. incidents'[i].body.source_event_ids \subseteq source_events'[i]
    BY <1>1, <1>2, <1>5, <1>6
  <2> QED BY <2>1, <2>2 DEF AggregateHasProvenance
<1> QED BY <1>6, <1>7, <1>8, <1>9 DEF Inv

\* create_or_correlate with a match.
LEMMA CorrelateStep ==
    ASSUME Inv, NEW c \in Candidate, NEW key \in Keys, NEW i \in IncidentIds,
           Correlate(c, key, i)
    PROVE  Inv'
<1>1. /\ c.source_event_ids \in SUBSET SourceEvents
      /\ <<"create_or_correlate", c.id, key>> \in Operations \X IncidentIds \X Keys
  BY DEF Candidate, Operations
<1>2. /\ CanRegister(i, c.source_event_ids)
      /\ source_events' = [source_events EXCEPT ![i] = @ \cup c.source_event_ids]
      /\ Remember(<<"create_or_correlate", c.id, key>>, c.source_event_ids, i, incidents[i])
      /\ UNCHANGED <<incidents, history>>
      /\ ActiveMatches(c.correlation_key, c.source_event_ids) = {i}
  BY DEF Correlate
<1>3. incidents[i] \in Incident
  BY <1>2 DEF ActiveMatches, IsActive, Exists, Inv, TypeOK
<1>4. /\ source_events' \in [IncidentIds -> SUBSET SourceEvents]
      /\ SourceEventOwnership'
      /\ \A j \in IncidentIds : source_events[j] \subseteq source_events'[j]
  BY <1>1, <1>2, RegisterStep DEF Inv
<1>5. /\ DOMAIN idempotency' \subseteq Operations \X IncidentIds \X Keys
      /\ \A s \in DOMAIN idempotency' : idempotency'[s] \in IdempotencyRecord
  BY <1>1, <1>2, <1>3, RememberStep DEF Inv
<1>6. TypeOK'
  BY <1>2, <1>4, <1>5 DEF Inv, TypeOK
<1>7. OneActivePerCorrelation'
  BY <1>2 DEF Inv, OneActivePerCorrelation, IsActive, Exists
<1>8. AggregateHasProvenance'
  BY <1>2, <1>4 DEF Inv, AggregateHasProvenance, Exists
<1> QED BY <1>4, <1>6, <1>7, <1>8 DEF Inv

\* transition and save.
LEMMA TransitionStep ==
    ASSUME Inv,
           NEW op \in {"transition", "save"}, NEW i \in IncidentIds, NEW key \in Keys,
           NEW at \in Times, NEW target \in Transitions(incidents[i].status),
           NEW expected \in 0..MaxRevision, NEW body \in Bodies,
           Transition(op, i, target, expected, key, at, body)
    PROVE  Inv'
<1> DEFINE scope == <<op, i, key>>
           x == Successor(incidents[i], target, at, body)
<1>1. scope \in Operations \X IncidentIds \X Keys
  BY DEF Operations
<1>2. /\ Exists(i)
      /\ incidents[i].revision < MaxRevision
      /\ ReactivationAllowed(i, x)
      /\ CanRegister(i, body.source_event_ids)
      /\ CommitTransition(scope, i, x)
  BY DEF Transition
<1>3. incidents[i] \in Incident
  BY <1>2 DEF Exists, Inv, TypeOK
<1>4. /\ x \in Incident
      /\ x.status = target
      /\ x.body = body
      /\ x.correlation_key = incidents[i].correlation_key
  BY <1>2, <1>3, SuccessorType, TransitionsType
<1>5. /\ source_events' = [source_events EXCEPT ![i] = @ \cup body.source_event_ids]
      /\ incidents' = [incidents EXCEPT ![i] = x]
      /\ Remember(scope, {}, i, x)
      /\ history' = [history EXCEPT ![i] =
                       Append(@, AuditEvent(incidents[i].status, x, scope))]
  BY <1>2, <1>4 DEF CommitTransition
<1> HIDE DEF scope, x
<1>6. body.source_event_ids \in SUBSET SourceEvents
  BY RepositoryAssumption
<1>7. incidents \in [IncidentIds -> Incident \cup {Missing}]
  BY DEF Inv, TypeOK
<1>8. \A j \in IncidentIds : incidents'[j] = IF j = i THEN x ELSE incidents[j]
  BY <1>5, <1>7
<1>9. /\ source_events' \in [IncidentIds -> SUBSET SourceEvents]
      /\ SourceEventOwnership'
      /\ \A j \in IncidentIds : source_events[j] \subseteq source_events'[j]
      /\ body.source_event_ids \subseteq source_events'[i]
  BY <1>2, <1>5, <1>6, RegisterStep DEF Inv
<1>10. TypeOK'
  <2>1. incidents' \in [IncidentIds -> Incident \cup {Missing}]
    BY <1>4, <1>5, <1>7
  <2>2. /\ DOMAIN idempotency' \subseteq Operations \X IncidentIds \X Keys
        /\ \A s \in DOMAIN idempotency' : idempotency'[s] \in IdempotencyRecord
    BY <1>1, <1>4, <1>5, RememberStep DEF Inv
  <2>3. AuditEvent(incidents[i].status, x, scope) \in AuditEvents
    <3>1. incidents[i].status \in IncidentStatus
      BY <1>3 DEF Incident
    <3> QED BY <1>1, <1>4, <3>1, AuditEventType
  <2>4. history' \in [IncidentIds -> Seq(AuditEvents)]
    <3>1. history \in [IncidentIds -> Seq(AuditEvents)]
      BY DEF Inv, TypeOK
    <3>2. Append(history[i], AuditEvent(incidents[i].status, x, scope))
            \in Seq(AuditEvents)
      BY <2>3, <3>1
    <3> QED BY <1>5, <3>1, <3>2
  <2> QED BY <1>9, <2>1, <2>2, <2>4 DEF TypeOK
<1>11. OneActivePerCorrelation'
  <2>1. OneActivePerCorrelation
    BY DEF Inv
  <2>2. \A j \in IncidentIds \ {i} :
          /\ IsActive(j)' <=> IsActive(j)
          /\ incidents'[j] = incidents[j]
    BY <1>8 DEF IsActive, Exists
  <2>3. incidents'[i] = x
    BY <1>8
  <2>4. ASSUME IsActive(i)', NEW j \in IncidentIds \ {i}, IsActive(j),
               x.correlation_key # NoKey
        PROVE  incidents[j].correlation_key # x.correlation_key
    <3>1. x.status \notin SettledStatuses
      BY <2>3, <2>4 DEF IsActive
    <3>2. CASE incidents[i].status \in SettledStatuses
      <4>1. ActiveMatches(x.correlation_key, source_events[i]) \ {i} = {}
        BY <1>2, <3>1, <3>2 DEF ReactivationAllowed
      <4> QED BY <2>4, <4>1 DEF ActiveMatches
    <3>3. CASE incidents[i].status \notin SettledStatuses
      <4>1. IsActive(i)
        BY <1>2, <3>3 DEF IsActive
      <4> QED BY <1>4, <2>1, <2>4, <4>1 DEF OneActivePerCorrelation
    <3> QED BY <3>2, <3>3
  <2> QED BY <2>1, <2>2, <2>3, <2>4 DEF OneActivePerCorrelation
<1>12. AggregateHasProvenance'
  <2>1. \A j \in IncidentIds \ {i} :
          Exists(j)' => incidents'[j].body.source_event_ids \subseteq source_events'[j]
    BY <1>8, <1>9 DEF Inv, AggregateHasProvenance, Exists
  <2>2. incidents'[i].body.source_event_ids \subseteq source_events'[i]
    BY <1>4, <1>8, <1>9
  <2> QED BY <2>1, <2>2 DEF AggregateHasProvenance
<1> QED BY <1>9, <1>10, <1>11, <1>12 DEF Inv

-----------------------------------------------------------------------------
LEMMA InitInv == Init => Inv
<1> SUFFICES ASSUME Init PROVE Inv
  OBVIOUS
<1>1. TypeOK
  <2>1. DOMAIN idempotency = {}
    BY DEF Init
  <2>2. history \in [IncidentIds -> Seq(AuditEvents)]
    BY DEF Init
  <2> QED BY <2>1, <2>2 DEF Init, TypeOK
<1>2. SourceEventOwnership
  BY DEF Init, SourceEventOwnership
<1>3. \A i \in IncidentIds : ~Exists(i)
  BY DEF Init, Exists
<1> QED
  BY <1>1, <1>2, <1>3 DEF Inv, OneActivePerCorrelation, AggregateHasProvenance, IsActive

LEMMA NextInv == Inv /\ [Next]_vars => Inv'
<1> SUFFICES ASSUME Inv, [Next]_vars PROVE Inv'
  OBVIOUS
<1>1. ASSUME NEW c \in Candidate, NEW key \in Keys, NEW at \in Times,
             Create(c, key, at)
      PROVE  Inv'
  <2>1. /\ <<"create", c.id, key>> \in Operations \X IncidentIds \X Keys
        /\ c.source_event_ids \in SUBSET SourceEvents
    BY DEF Candidate, Operations
  <2> QED BY <1>1, <2>1, CreateStep DEF Create
<1>2. ASSUME NEW c \in Candidate, NEW key \in Keys, NEW at \in Times,
             CreateUncorrelated(c, key, at)
      PROVE  Inv'
  <2>1. /\ <<"create_or_correlate", c.id, key>> \in Operations \X IncidentIds \X Keys
        /\ c.source_event_ids \in SUBSET SourceEvents
    BY DEF Candidate, Operations
  <2> QED BY <1>2, <2>1, CreateStep DEF CreateUncorrelated
<1>3. ASSUME NEW c \in Candidate, NEW key \in Keys, NEW at \in Times,
             NEW associations \in SUBSET SourceEvents,
             ImportDetectedSnapshot(c, associations, key, at)
      PROVE  Inv'
  <2>1. <<"import_detected_snapshot", c.id, key>> \in Operations \X IncidentIds \X Keys
    BY DEF Candidate, Operations
  <2> QED BY <1>3, <2>1, CreateStep DEF ImportDetectedSnapshot
<1>4. CASE UNCHANGED vars
  BY <1>4 DEF vars, Inv, TypeOK, SourceEventOwnership, OneActivePerCorrelation,
              AggregateHasProvenance, IsActive, Exists
<1> QED
  BY <1>1, <1>2, <1>3, <1>4, CorrelateStep, TransitionStep DEF Next

\* The four tables keep their shapes (TypeOK), for any number of incidents,
\* source events, correlation keys, idempotency keys and body contents.
THEOREM TypeCorrect == Spec => []TypeOK
<1>1. Inv => TypeOK
  BY DEF Inv
<1> QED BY <1>1, InitInv, NextInv, PTL DEF Spec

\* However incidents are created, correlated, imported, settled and reopened,
\* two unsettled incidents never share a correlation key and no source event
\* ever has two owners.
THEOREM Exclusive == Spec => [](OneActivePerCorrelation /\ SourceEventOwnership)
<1>1. Inv => OneActivePerCorrelation /\ SourceEventOwnership
  BY DEF Inv
<1> QED BY <1>1, InitInv, NextInv, PTL DEF Spec

\* Every source event an incident claims is registered provenance.
THEOREM Provenance == Spec => []AggregateHasProvenance
<1>1. Inv => AggregateHasProvenance
  BY DEF Inv
<1> QED BY <1>1, InitInv, NextInv, PTL DEF Spec

-----------------------------------------------------------------------------
(***************************************************************************)
(* What is recorded about committed calls.  History, idempotency records   *)
(* and associations only grow, a record names an incident that exists, and *)
(* an incident that exists is never created again.                         *)
(***************************************************************************)

\* An import's record stays true of the incident it created.
ImportRecorded(s) ==
    s[1] = "import_detected_snapshot" =>
        /\ Exists(s[2])
        /\ idempotency[s].associations \subseteq source_events[s[2]]
        /\ history[s[2]][1].key = s[3]

\* AuditTrail of one incident, and ReplayIsCommitted of one record.
Trail(i) ==
    IF Exists(i)
    THEN /\ Len(history[i]) = incidents[i].revision + 1
         /\ history[i][1].from = "NONE" /\ history[i][1].to = "DETECTED"
         /\ \A n \in 1..Len(history[i]) : history[i][n].revision = n - 1
         /\ \A n \in 2..Len(history[i]) :
              /\ history[i][n].from = history[i][n-1].to
              /\ history[i][n].to \in Transitions(history[i][n].from)
         /\ history[i][Len(history[i])].to = incidents[i].status
    ELSE history[i] = <<>>

Committed(s) ==
    \E i \in IncidentIds :
        /\ i = idempotency[s].id /\ Exists(i)
        /\ idempotency[s].revision <= incidents[i].revision
        /\ history[i][idempotency[s].revision + 1].to = idempotency[s].status

WithinCapacity ==
    \A i \in IncidentIds : Cardinality(source_events[i]) <= MaxSourceEvents

LedgerInv ==
    /\ \A i \in IncidentIds : Trail(i)
    /\ \A s \in DOMAIN idempotency : Committed(s) /\ ImportRecorded(s)
    /\ WithinCapacity

LEMMA RememberFacts ==
    ASSUME NEW scope, NEW associations, NEW i, NEW result,
           Remember(scope, associations, i, result)
    PROVE  /\ DOMAIN idempotency' = DOMAIN idempotency \cup {scope}
           /\ idempotency'[scope].associations = associations
           /\ idempotency'[scope].id = i
           /\ idempotency'[scope].status = result.status
           /\ idempotency'[scope].revision = result.revision
           /\ \A s \in DOMAIN idempotency \ {scope} : idempotency'[s] = idempotency[s]
BY DEF Remember

LEMMA CapacityStep ==
    ASSUME TypeOK, WithinCapacity, NEW i \in IncidentIds, NEW sources,
           CanRegister(i, sources),
           source_events' = [source_events EXCEPT ![i] = @ \cup sources]
    PROVE  WithinCapacity'
<1>1. source_events \in [IncidentIds -> SUBSET SourceEvents]
  BY DEF TypeOK
<1>2. ASSUME NEW j \in IncidentIds PROVE Cardinality(source_events'[j]) <= MaxSourceEvents
  <2>1. CASE j = i
    <3>1. source_events'[j] = source_events[i] \cup sources
      BY <1>1, <2>1
    <3>2. QED BY <3>1 DEF CanRegister
  <2>2. CASE j # i
    <3>1. source_events'[j] = source_events[j]
      BY <1>1, <2>2
    <3>2. QED BY <3>1 DEF WithinCapacity
  <2>3. QED BY <2>1, <2>2
<1>3. QED BY <1>2 DEF WithinCapacity

LEMMA CreateLedger ==
    ASSUME Inv, LedgerInv, Inv',
           NEW op \in Operations, NEW key \in Keys,
           NEW c \in Candidate, NEW at \in Times, NEW sources \in SUBSET SourceEvents,
           ~Exists(c.id), CanRegister(c.id, sources),
           CommitCreate(<<op, c.id, key>>, c.id, NewIncident(c, at), sources)
    PROVE  LedgerInv'
<1> DEFINE i == c.id
           x == NewIncident(c, at)
           scope == <<op, i, key>>
           e == AuditEvent("NONE", x, scope)
<1>1. i \in IncidentIds /\ ~Exists(i)
  BY DEF Candidate
<1>2. x \in Incident /\ x.status = "DETECTED" /\ x.revision = 0
  BY NewIncidentType
<1>3. /\ source_events' = [source_events EXCEPT ![i] = @ \cup sources]
      /\ incidents' = [incidents EXCEPT ![i] = x]
      /\ Remember(scope, sources, i, x)
      /\ history' = [history EXCEPT ![i] = <<e>>]
  BY DEF CommitCreate
<1>4. scope[1] = op /\ scope[2] = i /\ scope[3] = key
  OBVIOUS
<1>5. /\ e.from = "NONE" /\ e.to = "DETECTED" /\ e.revision = 0 /\ e.key = key
  BY <1>2 DEF AuditEvent
<1>6. WithinCapacity'
  BY <1>1, <1>3, CapacityStep DEF Inv, LedgerInv, i
<1> HIDE DEF i, x, scope, e
<1>7. \A j \in IncidentIds :
        /\ incidents'[j] = IF j = i THEN x ELSE incidents[j]
        /\ history'[j] = IF j = i THEN <<e>> ELSE history[j]
        /\ source_events'[j] = IF j = i THEN source_events[j] \cup sources
                                        ELSE source_events[j]
  BY <1>1, <1>3 DEF Inv, TypeOK
<1>8. Exists(i)' /\ \A j \in IncidentIds \ {i} : Exists(j)' <=> Exists(j)
  BY <1>1, <1>2, <1>7, IncidentExists DEF Exists
<1>9. \A j \in IncidentIds : Trail(j)'
  <2>1. ASSUME NEW j \in IncidentIds \ {i} PROVE Trail(j)'
    <3>1. history'[j] = history[j] /\ incidents'[j] = incidents[j] /\ Trail(j)
      BY <1>7 DEF LedgerInv
    <3>2. QED BY <3>1 DEF Trail, Exists
  <2>2. history'[i] = <<e>> /\ Len(<<e>>) = 1 /\ <<e>>[1] = e /\ incidents'[i] = x
    BY <1>1, <1>7
  <2>3. Trail(i)'
    BY <1>2, <1>5, <1>8, <2>2 DEF Trail
  <2>4. QED BY <2>1, <2>3
<1>10. /\ DOMAIN idempotency' = DOMAIN idempotency \cup {scope}
       /\ idempotency'[scope].associations = sources
       /\ idempotency'[scope].id = i
       /\ idempotency'[scope].status = x.status
       /\ idempotency'[scope].revision = x.revision
       /\ \A s \in DOMAIN idempotency \ {scope} : idempotency'[s] = idempotency[s]
  BY <1>3, RememberFacts
<1>11. ASSUME NEW s \in DOMAIN idempotency' PROVE Committed(s)'
  <2>1. CASE s = scope
    <3>1. history'[i][1] = e /\ incidents'[i] = x
      <4>1. history'[i] = <<e>> /\ <<e>>[1] = e
        BY <1>1, <1>7
      <4>2. QED BY <1>1, <1>7, <4>1
    <3>2. QED BY <1>1, <1>2, <1>5, <1>8, <1>10, <2>1, <3>1 DEF Committed
  <2>2. CASE s # scope
    <3>1. s \in DOMAIN idempotency /\ idempotency'[s] = idempotency[s] /\ Committed(s)
      BY <1>10, <2>2 DEF LedgerInv
    <3>2. PICK j \in IncidentIds :
            /\ j = idempotency[s].id /\ Exists(j)
            /\ idempotency[s].revision <= incidents[j].revision
            /\ history[j][idempotency[s].revision + 1].to = idempotency[s].status
      BY <3>1 DEF Committed
    <3>3. j # i
      BY <1>1, <3>2
    <3>4. Exists(j)' /\ incidents'[j] = incidents[j] /\ history'[j] = history[j]
      BY <1>7, <1>8, <3>2, <3>3
    <3>5. QED BY <3>1, <3>2, <3>4 DEF Committed
  <2>3. QED BY <2>1, <2>2
<1>13. ASSUME NEW s \in DOMAIN idempotency' PROVE ImportRecorded(s)'
  <2>1. CASE s = scope
    <3>1. history'[i][1] = e /\ sources \subseteq source_events'[i]
      <4>1. history'[i] = <<e>> /\ <<e>>[1] = e
        BY <1>1, <1>7
      <4>2. QED BY <1>1, <1>7, <4>1
    <3>2. QED BY <1>1, <1>4, <1>5, <1>8, <1>10, <2>1, <3>1 DEF ImportRecorded
  <2>2. CASE s # scope
    <3>1. s \in DOMAIN idempotency /\ idempotency'[s] = idempotency[s] /\ ImportRecorded(s)
      BY <1>10, <2>2 DEF LedgerInv
    <3>2. s[2] \in IncidentIds
      BY <3>1 DEF Inv, TypeOK
    <3>3. CASE s[2] = i
      BY <1>1, <3>1, <3>3 DEF ImportRecorded
    <3>4. CASE s[2] # i
      BY <1>7, <1>8, <3>1, <3>2, <3>4 DEF ImportRecorded
    <3>5. QED BY <3>3, <3>4
  <2>3. QED BY <2>1, <2>2
<1>14. QED BY <1>6, <1>9, <1>11, <1>13 DEF LedgerInv

LEMMA CorrelateLedger ==
    ASSUME Inv, LedgerInv, NEW c \in Candidate, NEW key \in Keys, NEW i \in IncidentIds,
           Correlate(c, key, i)
    PROVE  LedgerInv'
<1> DEFINE scope == <<"create_or_correlate", c.id, key>>
<1>1. /\ CanRegister(i, c.source_event_ids)
      /\ source_events' = [source_events EXCEPT ![i] = @ \cup c.source_event_ids]
      /\ Remember(scope, c.source_event_ids, i, incidents[i])
      /\ UNCHANGED <<incidents, history>>
      /\ i \in ActiveMatches(c.correlation_key, c.source_event_ids)
  BY DEF Correlate
<1>2. Exists(i) /\ incidents[i] \in Incident
  BY <1>1 DEF ActiveMatches, IsActive, Exists, Inv, TypeOK
<1>3. WithinCapacity'
  BY <1>1, CapacityStep DEF Inv, LedgerInv
<1>4. scope[1] # "import_detected_snapshot"
  OBVIOUS
<1> HIDE DEF scope
<1>5. /\ DOMAIN idempotency' = DOMAIN idempotency \cup {scope}
      /\ idempotency'[scope].id = i
      /\ idempotency'[scope].status = incidents[i].status
      /\ idempotency'[scope].revision = incidents[i].revision
      /\ \A s \in DOMAIN idempotency \ {scope} : idempotency'[s] = idempotency[s]
  BY <1>1, RememberFacts
<1>6. \A j \in IncidentIds : source_events[j] \subseteq source_events'[j]
  BY <1>1 DEF Inv, TypeOK
<1>7. \A j \in IncidentIds : Trail(j)'
  BY <1>1 DEF LedgerInv, Trail, Exists
<1>8. ASSUME NEW s \in DOMAIN idempotency' PROVE Committed(s)'
  <2>1. CASE s = scope
    <3>1. history[i][incidents[i].revision + 1].to = incidents[i].status
      BY <1>2 DEF LedgerInv, Trail
    <3>2. incidents[i].revision <= incidents[i].revision
      BY <1>2, RepositoryAssumption DEF Incident
    <3>3. QED BY <1>1, <1>2, <1>5, <2>1, <3>1, <3>2 DEF Committed, Exists
  <2>2. CASE s # scope
    <3>1. s \in DOMAIN idempotency /\ idempotency'[s] = idempotency[s] /\ Committed(s)
      BY <1>5, <2>2 DEF LedgerInv
    <3>2. QED BY <1>1, <3>1 DEF Committed, Exists
  <2>3. QED BY <2>1, <2>2
<1>9. ASSUME NEW s \in DOMAIN idempotency' PROVE ImportRecorded(s)'
  <2>1. CASE s = scope
    BY <1>4, <2>1 DEF ImportRecorded
  <2>2. CASE s # scope
    <3>1. s \in DOMAIN idempotency /\ idempotency'[s] = idempotency[s] /\ ImportRecorded(s)
      BY <1>5, <2>2 DEF LedgerInv
    <3>2. s[2] \in IncidentIds
      BY <3>1 DEF Inv, TypeOK
    <3>3. QED BY <1>1, <1>6, <3>1, <3>2 DEF ImportRecorded, Exists
  <2>3. QED BY <2>1, <2>2
<1>10. QED BY <1>3, <1>7, <1>8, <1>9 DEF LedgerInv

LEMMA TransitionLedger ==
    ASSUME Inv, LedgerInv,
           NEW op \in {"transition", "save"}, NEW i \in IncidentIds, NEW key \in Keys,
           NEW at \in Times, NEW target \in Transitions(incidents[i].status),
           NEW expected \in 0..MaxRevision, NEW body \in Bodies,
           Transition(op, i, target, expected, key, at, body)
    PROVE  LedgerInv'
<1> DEFINE scope == <<op, i, key>>
           x == Successor(incidents[i], target, at, body)
           r == incidents[i].revision
           h == history[i]
           e == AuditEvent(incidents[i].status, x, scope)
<1>1. /\ Exists(i) /\ incidents[i].revision < MaxRevision
      /\ CanRegister(i, body.source_event_ids) /\ CommitTransition(scope, i, x)
  BY DEF Transition
<1>2. incidents[i] \in Incident /\ r \in Nat
  BY <1>1, RepositoryAssumption DEF Exists, Inv, TypeOK, Incident
<1>3. x \in Incident /\ x.status = target /\ x.body = body /\ x.revision = r + 1
  BY <1>1, <1>2, SuccessorType, TransitionsType
<1>4. /\ source_events' = [source_events EXCEPT ![i] = @ \cup body.source_event_ids]
      /\ incidents' = [incidents EXCEPT ![i] = x]
      /\ Remember(scope, {}, i, x)
      /\ history' = [history EXCEPT ![i] = Append(@, e)]
  BY <1>1, <1>3 DEF CommitTransition
<1>5. scope[1] # "import_detected_snapshot"
  OBVIOUS
<1>6. e.from = incidents[i].status /\ e.to = target /\ e.revision = r + 1
  BY <1>3 DEF AuditEvent
<1>7. e \in AuditEvents
  <2>1. scope \in Operations \X IncidentIds \X Keys
    BY DEF Operations
  <2>2. incidents[i].status \in IncidentStatus
    BY <1>2 DEF Incident
  <2>3. QED BY <1>3, <2>1, <2>2, AuditEventType
<1>8. WithinCapacity'
  BY <1>1, <1>4, CapacityStep DEF Inv, LedgerInv
<1> HIDE DEF scope, x, e
<1>9. \A j \in IncidentIds :
        /\ incidents'[j] = IF j = i THEN x ELSE incidents[j]
        /\ history'[j] = IF j = i THEN Append(h, e) ELSE history[j]
        /\ source_events[j] \subseteq source_events'[j]
  BY <1>4 DEF Inv, TypeOK
<1>10. \A j \in IncidentIds : Exists(j)' <=> Exists(j)
  BY <1>1, <1>3, <1>9, IncidentExists DEF Exists
<1>11. /\ h \in Seq(AuditEvents) /\ Len(h) = r + 1
       /\ h[1].from = "NONE" /\ h[1].to = "DETECTED"
       /\ \A n \in 1..Len(h) : h[n].revision = n - 1
       /\ \A n \in 2..Len(h) : h[n].from = h[n-1].to /\ h[n].to \in Transitions(h[n].from)
       /\ h[Len(h)].to = incidents[i].status
  BY <1>1 DEF LedgerInv, Trail, Inv, TypeOK
<1> DEFINE g == Append(h, e)
<1>12. /\ Len(g) = r + 2 /\ g[r + 2] = e /\ \A n \in 1..(r + 1) : g[n] = h[n]
  <2>1. /\ Len(g) = Len(h) + 1 /\ \A n \in 1..Len(h) : g[n] = h[n]
        /\ g[Len(h) + 1] = e
    BY <1>7, <1>11, AppendProperties
  <2>2. Len(h) + 1 = r + 2
    BY <1>2, <1>11
  <2>3. QED BY <1>11, <2>1, <2>2
<1> HIDE DEF g, h, r
<1>13. ASSUME NEW j \in IncidentIds PROVE Trail(j)'
  <2>1. CASE j # i
    <3>1. history'[j] = history[j] /\ incidents'[j] = incidents[j] /\ Trail(j)
      BY <1>9, <2>1 DEF LedgerInv
    <3>2. QED BY <3>1 DEF Trail, Exists
  <2>2. CASE j = i
    <3>1. history'[i] = g /\ incidents'[i] = x /\ Exists(i)'
      BY <1>1, <1>9, <1>10 DEF g
    <3>2. Len(g) = x.revision + 1
      BY <1>2, <1>3, <1>12
    <3>3. g[1] = h[1] /\ g[1].from = "NONE" /\ g[1].to = "DETECTED"
      BY <1>2, <1>11, <1>12
    <3>4. ASSUME NEW n \in 1..Len(g) PROVE g[n].revision = n - 1
      <4>1. CASE n = r + 2
        BY <1>2, <1>6, <1>12, <4>1
      <4>2. CASE n # r + 2
        <5>1. n \in 1..(r + 1)
          BY <1>2, <1>12, <4>2
        <5>2. QED BY <1>11, <1>12, <5>1
      <4>3. QED BY <4>1, <4>2
    <3>5. ASSUME NEW n \in 2..Len(g)
          PROVE  g[n].from = g[n-1].to /\ g[n].to \in Transitions(g[n].from)
      <4>1. CASE n = r + 2
        <5>1. g[n] = e /\ n - 1 = r + 1 /\ r + 1 \in 1..(r + 1)
          BY <1>2, <1>12, <4>1
        <5>2. g[n-1] = h[Len(h)]
          BY <1>11, <1>12, <5>1
        <5>3. QED BY <1>6, <1>11, <5>1, <5>2
      <4>2. CASE n # r + 2
        <5>1. n \in 2..(r + 1) /\ n \in 1..(r + 1) /\ n - 1 \in 1..(r + 1)
          BY <1>2, <1>12, <4>2
        <5>2. g[n] = h[n] /\ g[n-1] = h[n-1]
          BY <1>12, <5>1
        <5>3. QED BY <1>11, <5>1, <5>2
      <4>3. QED BY <4>1, <4>2
    <3>6. g[Len(g)].to = x.status
      BY <1>3, <1>6, <1>12
    <3>7. QED BY <2>2, <3>1, <3>2, <3>3, <3>4, <3>5, <3>6 DEF Trail
  <2>3. QED BY <2>1, <2>2
<1>14. /\ DOMAIN idempotency' = DOMAIN idempotency \cup {scope}
       /\ idempotency'[scope].id = i
       /\ idempotency'[scope].status = x.status
       /\ idempotency'[scope].revision = x.revision
       /\ \A s \in DOMAIN idempotency \ {scope} : idempotency'[s] = idempotency[s]
  BY <1>4, RememberFacts, ZenonT(60)
<1>15. ASSUME NEW s \in DOMAIN idempotency' PROVE Committed(s)'
  <2>1. CASE s = scope
    <3>1. history'[i] = g /\ incidents'[i] = x /\ Exists(i)'
      BY <1>1, <1>9, <1>10 DEF g
    <3>2. x.revision + 1 = r + 2 /\ x.revision <= x.revision
      BY <1>2, <1>3
    <3>3. history'[i][x.revision + 1].to = x.status
      BY <1>3, <1>6, <1>12, <3>1, <3>2
    <3>4. QED BY <1>14, <2>1, <3>1, <3>2, <3>3 DEF Committed
  <2>2. CASE s # scope
    <3>1. s \in DOMAIN idempotency /\ idempotency'[s] = idempotency[s] /\ Committed(s)
      BY <1>14, <2>2 DEF LedgerInv
    <3>2. PICK j \in IncidentIds :
            /\ j = idempotency[s].id /\ Exists(j)
            /\ idempotency[s].revision <= incidents[j].revision
            /\ history[j][idempotency[s].revision + 1].to = idempotency[s].status
      BY <3>1 DEF Committed
    <3>3. idempotency[s].revision \in Nat
      BY <3>1, RepositoryAssumption DEF Inv, TypeOK, IdempotencyRecord
    <3>4. CASE j # i
      BY <1>9, <1>10, <3>1, <3>2, <3>4 DEF Committed
    <3>5. CASE j = i
      <4>1. idempotency[s].revision + 1 \in 1..(r + 1) /\ idempotency[s].revision <= r + 1
        BY <1>2, <3>2, <3>3, <3>5 DEF r
      <4>2. history'[i] = g /\ incidents'[i] = x /\ Exists(i)'
        BY <1>1, <1>9, <1>10 DEF g
      <4>3. history'[i][idempotency[s].revision + 1] = history[i][idempotency[s].revision + 1]
        BY <1>12, <4>1, <4>2 DEF h
      <4>4. QED BY <1>3, <3>1, <3>2, <3>5, <4>1, <4>2, <4>3 DEF Committed
    <3>6. QED BY <3>4, <3>5
  <2>3. QED BY <2>1, <2>2
<1>16. ASSUME NEW s \in DOMAIN idempotency' PROVE ImportRecorded(s)'
  <2>1. CASE s = scope
    BY <1>5, <2>1 DEF ImportRecorded
  <2>2. CASE s # scope
    <3>1. s \in DOMAIN idempotency /\ idempotency'[s] = idempotency[s] /\ ImportRecorded(s)
      BY <1>14, <2>2 DEF LedgerInv
    <3>2. s[2] \in IncidentIds
      BY <3>1 DEF Inv, TypeOK
    <3>3. g[1] = h[1]
      BY <1>2, <1>12
    <3>4. history'[s[2]][1] = history[s[2]][1]
      <4>1. CASE s[2] = i
        BY <1>9, <3>3, <4>1 DEF g, h
      <4>2. CASE s[2] # i
        BY <1>9, <3>2, <4>2
      <4>3. QED BY <4>1, <4>2
    <3>5. QED BY <1>9, <1>10, <3>1, <3>2, <3>4 DEF ImportRecorded
  <2>3. QED BY <2>1, <2>2
<1>17. QED BY <1>8, <1>13, <1>15, <1>16 DEF LedgerInv

LEMMA LedgerInit == Init => LedgerInv
<1> SUFFICES ASSUME Init PROVE LedgerInv
  OBVIOUS
<1>1. \A i \in IncidentIds : ~Exists(i) /\ history[i] = <<>> /\ source_events[i] = {}
  BY DEF Init, Exists
<1>2. \A i \in IncidentIds : Trail(i)
  BY <1>1 DEF Trail
<1>3. DOMAIN idempotency = {}
  BY DEF Init
<1>4. Cardinality({}) = 0
  BY FS_EmptySet
<1>5. WithinCapacity
  <2>1. ASSUME NEW i \in IncidentIds PROVE Cardinality(source_events[i]) <= MaxSourceEvents
    <3>1. Cardinality(source_events[i]) = 0
      BY <1>1, <1>4, Zenon
    <3>2. QED BY <3>1, RepositoryAssumption
  <2>2. QED BY <2>1 DEF WithinCapacity
<1>6. QED BY <1>2, <1>3, <1>5 DEF LedgerInv

LEMMA LedgerNext == Inv /\ LedgerInv /\ [Next]_vars => LedgerInv'
<1> SUFFICES ASSUME Inv, LedgerInv, [Next]_vars PROVE LedgerInv'
  OBVIOUS
<1>0. Inv'
  BY NextInv
<1>1. ASSUME NEW c \in Candidate, NEW key \in Keys, NEW at \in Times,
             \/ Create(c, key, at)
             \/ CreateUncorrelated(c, key, at)
             \/ \E associations \in SUBSET SourceEvents :
                  ImportDetectedSnapshot(c, associations, key, at)
      PROVE  LedgerInv'
  <2>0. c.source_event_ids \in SUBSET SourceEvents
    BY DEF Candidate
  <2>1. CASE Create(c, key, at)
    <3>1. "create" \in Operations
      BY DEF Operations
    <3>2. QED BY <1>0, <2>0, <2>1, <3>1, CreateLedger DEF Create
  <2>2. CASE CreateUncorrelated(c, key, at)
    <3>1. "create_or_correlate" \in Operations
      BY DEF Operations
    <3>2. QED BY <1>0, <2>0, <2>2, <3>1, CreateLedger DEF CreateUncorrelated
  <2>3. ASSUME NEW associations \in SUBSET SourceEvents,
               ImportDetectedSnapshot(c, associations, key, at)
        PROVE  LedgerInv'
    <3>1. "import_detected_snapshot" \in Operations
      BY DEF Operations
    <3>2. QED BY <1>0, <2>3, <3>1, CreateLedger DEF ImportDetectedSnapshot
  <2>4. QED BY <1>1, <2>1, <2>2, <2>3
<1>2. CASE UNCHANGED vars
  BY <1>2 DEF vars, LedgerInv, Trail, Committed, ImportRecorded, WithinCapacity, Exists
<1>3. QED
  BY <1>1, <1>2, CorrelateLedger, TransitionLedger DEF Next

LEMMA LedgerAlways == Spec => [](Inv /\ LedgerInv)
BY InitInv, NextInv, LedgerInit, LedgerNext, PTL DEF Spec

LEMMA LedgerFacts ==
    ASSUME Inv, LedgerInv
    PROVE  AuditTrail /\ ReplayIsCommitted /\ ImportReplayConsistent
<1>1. AuditTrail
  BY DEF LedgerInv, Trail, AuditTrail
<1>2. ReplayIsCommitted
  BY DEF LedgerInv, Committed, ReplayIsCommitted
<1>3. ASSUME NEW s \in DOMAIN idempotency, s[1] = "import_detected_snapshot",
             NEW i, i = s[2], NEW associations, associations = idempotency[s].associations
      PROVE  /\ Exists(i)
             /\ associations \subseteq source_events[i]
             /\ history[i][1].to = "DETECTED"
             /\ history[i][1].key = s[3]
             /\ IsActive(i) /\ (incidents[i].correlation_key # NoKey \/ associations # {})
                  => ActiveMatches(incidents[i].correlation_key, associations) = {i}
  <2>1. i \in IncidentIds
    BY <1>3 DEF Inv, TypeOK
  <2>2. /\ Exists(i) /\ associations \subseteq source_events[i]
        /\ history[i][1].key = s[3]
    BY <1>3 DEF LedgerInv, ImportRecorded
  <2>3. history[i][1].to = "DETECTED"
    BY <2>1, <2>2 DEF LedgerInv, Trail
  <2>4. ASSUME IsActive(i), incidents[i].correlation_key # NoKey \/ associations # {}
        PROVE  ActiveMatches(incidents[i].correlation_key, associations) = {i}
    <3>1. i \in ActiveMatches(incidents[i].correlation_key, associations)
      BY <2>1, <2>2, <2>4 DEF ActiveMatches
    <3>2. ASSUME NEW j \in ActiveMatches(incidents[i].correlation_key, associations)
          PROVE  j = i
      BY <2>1, <2>2, <2>4, <3>2
         DEF ActiveMatches, Inv, OneActivePerCorrelation, SourceEventOwnership
    <3>3. QED BY <3>1, <3>2
  <2>5. QED BY <2>2, <2>3, <2>4
<1>4. QED BY <1>1, <1>2, <1>3 DEF ImportReplayConsistent

\* What the repository recorded stays usable: the audit trail has one event per
\* revision along the transition graph, an exact retry (_replay) finds a snapshot
\* that was committed, and a repeated import_detected_snapshot passes its
\* consistency checks, whatever was created, correlated or reopened since.
THEOREM Ledger == Spec => [](AuditTrail /\ ReplayIsCommitted /\ ImportReplayConsistent)
BY LedgerAlways, LedgerFacts, PTL

-----------------------------------------------------------------------------
(* The Spanner repository *)

\* ActiveKeysExact, key by key.
SourceKeyExact ==
    \A i \in IncidentIds, s \in SourceEvents :
        activeKeys[<<"source", s>>] = i <=> IsActive(i) /\ s \in source_events[i]

CorrelationKeyExact ==
    \A i \in IncidentIds, k \in CorrelationKeys :
        activeKeys[<<"correlation", k>>] = i
            <=> IsActive(i) /\ incidents[i].correlation_key = k

SpannerInv ==
    /\ Inv
    /\ activeKeys \in [ActiveKey -> IncidentIds \cup {NoOwner}]
    /\ \A i \in IncidentIds : ~Exists(i) => source_events[i] = {}
    /\ SourceKeyExact
    /\ CorrelationKeyExact

LEMMA KeyMembership ==
    ASSUME NEW key \in CorrelationKeys \cup {NoKey}, NEW sources \in SUBSET SourceEvents
    PROVE  /\ CandidateKeys(key, sources) \subseteq ActiveKey
           /\ \A s \in SourceEvents :
                <<"source", s>> \in CandidateKeys(key, sources) <=> s \in sources
           /\ \A k \in CorrelationKeys :
                <<"correlation", k>> \in CandidateKeys(key, sources) <=> k = key
           /\ \A k \in CandidateKeys(key, sources) :
                \/ \E s \in sources : k = <<"source", s>>
                \/ key \in CorrelationKeys /\ k = <<"correlation", key>>
           /\ CandidateKeys(NoKey, sources) = SourceKeys(sources)
<1>1. \A s, t : <<"source", s>> = <<"source", t>> => s = t
  OBVIOUS
<1>2. \A s, t : <<"correlation", s>> = <<"correlation", t>> => s = t
  OBVIOUS
<1>3. \A s, t : <<"source", s>> # <<"correlation", t>>
  OBVIOUS
<1>4. NoKey \notin CorrelationKeys
  BY RepositoryAssumption
<1> QED
  BY <1>1, <1>2, <1>3, <1>4, Zenon DEF CandidateKeys, SourceKeys, CorrelationKey, ActiveKey

LEMMA ActiveKeyCases ==
    \A k \in ActiveKey : \/ \E s \in SourceEvents : k = <<"source", s>>
                         \/ \E c \in CorrelationKeys : k = <<"correlation", c>>
BY DEF ActiveKey, SourceKeys

\* The two forms of exactness agree.
LEMMA ExactForm ==
    ASSUME SpannerInv PROVE ActiveKeysExact
<1> SUFFICES ASSUME NEW i \in IncidentIds
             PROVE  { k \in ActiveKey : activeKeys[k] = i }
                       = IF IsActive(i) THEN HeldKeys(i) ELSE {}
  BY DEF ActiveKeysExact
<1>1. source_events[i] \in SUBSET SourceEvents
  BY DEF SpannerInv, Inv, TypeOK
<1>2. CASE IsActive(i)
  <2>1. incidents[i].correlation_key \in CorrelationKeys \cup {NoKey}
    BY <1>2 DEF IsActive, Exists, SpannerInv, Inv, TypeOK, Incident
  <2>2. ASSUME NEW k \in ActiveKey PROVE activeKeys[k] = i <=> k \in HeldKeys(i)
    <3>1. CASE \E s \in SourceEvents : k = <<"source", s>>
      BY <1>1, <1>2, <2>1, <3>1, KeyMembership DEF SpannerInv, SourceKeyExact, HeldKeys
    <3>2. CASE \E c \in CorrelationKeys : k = <<"correlation", c>>
      BY <1>1, <1>2, <2>1, <3>2, KeyMembership
         DEF SpannerInv, CorrelationKeyExact, HeldKeys
    <3> QED BY <3>1, <3>2, ActiveKeyCases
  <2>3. HeldKeys(i) \subseteq ActiveKey
    BY <1>1, <2>1, KeyMembership DEF HeldKeys
  <2> QED BY <1>2, <2>2, <2>3
<1>3. CASE ~IsActive(i)
  BY <1>3, ActiveKeyCases DEF SpannerInv, SourceKeyExact, CorrelationKeyExact
<1> QED BY <1>2, <1>3

\* A lookup in the index finds what a scan of all incidents would find.
LEMMA LookupAgrees ==
    ASSUME SpannerInv,
           NEW key \in CorrelationKeys \cup {NoKey}, NEW sources \in SUBSET SourceEvents
    PROVE  Owners(CandidateKeys(key, sources)) = ActiveMatches(key, sources)
<1> DEFINE keys == CandidateKeys(key, sources)
<1>1. ASSUME NEW i \in Owners(keys) PROVE i \in ActiveMatches(key, sources)
  <2>1. PICK k \in keys : activeKeys[k] = i /\ i # NoOwner
    BY <1>1 DEF Owners
  <2>2. k \in ActiveKey
    BY KeyMembership
  <2>3. i \in IncidentIds
    BY <2>1, <2>2 DEF SpannerInv
  <2>4. CASE \E s \in sources : k = <<"source", s>>
    BY <2>1, <2>3, <2>4 DEF SpannerInv, SourceKeyExact, ActiveMatches
  <2>5. CASE key \in CorrelationKeys /\ k = <<"correlation", key>>
    BY <2>1, <2>3, <2>5, RepositoryAssumption
       DEF SpannerInv, CorrelationKeyExact, ActiveMatches
  <2> QED BY <2>4, <2>5, KeyMembership
<1>2. ASSUME NEW i \in ActiveMatches(key, sources) PROVE i \in Owners(keys)
  <2>1. i \in IncidentIds /\ IsActive(i) /\ i # NoOwner
    BY <1>2, SpannerAssumption DEF ActiveMatches
  <2>2. CASE key # NoKey /\ incidents[i].correlation_key = key
    <3>1. activeKeys[<<"correlation", key>>] = i /\ <<"correlation", key>> \in keys
      BY <2>1, <2>2, KeyMembership DEF SpannerInv, CorrelationKeyExact
    <3> QED BY <2>1, <3>1 DEF Owners
  <2>3. CASE sources \cap source_events[i] # {}
    <3>1. PICK s \in sources : s \in source_events[i]
      BY <2>3
    <3>2. activeKeys[<<"source", s>>] = i /\ <<"source", s>> \in keys
      BY <2>1, <3>1, KeyMembership DEF SpannerInv, SourceKeyExact
    <3> QED BY <2>1, <3>2 DEF Owners
  <2> QED BY <1>2, <2>2, <2>3 DEF ActiveMatches
<1> QED BY <1>1, <1>2

LEMMA AcquireStep ==
    ASSUME SpannerInv, NEW i \in IncidentIds,
           NEW key \in CorrelationKeys \cup {NoKey}, NEW sources \in SUBSET SourceEvents,
           Acquire(i, CandidateKeys(key, sources))
    PROVE  /\ activeKeys' \in [ActiveKey -> IncidentIds \cup {NoOwner}]
           /\ \A s \in SourceEvents :
                activeKeys'[<<"source", s>>] =
                   IF s \in sources THEN i ELSE activeKeys[<<"source", s>>]
           /\ \A k \in CorrelationKeys :
                activeKeys'[<<"correlation", k>>] =
                   IF k = key THEN i ELSE activeKeys[<<"correlation", k>>]
<1>1. /\ \A s \in SourceEvents : <<"source", s>> \in ActiveKey
      /\ \A k \in CorrelationKeys : <<"correlation", k>> \in ActiveKey
  BY DEF ActiveKey, SourceKeys
<1> DEFINE keys == CandidateKeys(key, sources)
<1>2. /\ \A s \in SourceEvents : <<"source", s>> \in keys <=> s \in sources
      /\ \A k \in CorrelationKeys : <<"correlation", k>> \in keys <=> k = key
  BY KeyMembership
<1>3. activeKeys' = [k \in ActiveKey |-> IF k \in keys THEN i ELSE activeKeys[k]]
  BY DEF Acquire
<1>4. activeKeys \in [ActiveKey -> IncidentIds \cup {NoOwner}]
  BY DEF SpannerInv
<1> HIDE DEF keys
<1> QED BY <1>1, <1>2, <1>3, <1>4

-----------------------------------------------------------------------------
\* The three operations that create an incident keep the index exact.
LEMMA CreateKeys ==
    ASSUME SpannerInv, Inv',
           NEW scope, NEW c \in Candidate, NEW at \in Times,
           NEW sources \in SUBSET SourceEvents,
           ~Exists(c.id),
           FindsNone(CandidateKeys(c.correlation_key, sources)),
           CanRegister(c.id, sources),
           Acquire(c.id, CandidateKeys(c.correlation_key, sources)),
           CommitCreate(scope, c.id, NewIncident(c, at), sources)
    PROVE  SpannerInv'
<1> DEFINE i == c.id
           x == NewIncident(c, at)
           key == c.correlation_key
<1>1. i \in IncidentIds /\ key \in CorrelationKeys \cup {NoKey}
  BY DEF Candidate
<1>2. x \in Incident /\ x.correlation_key = key /\ x.status = "DETECTED"
  BY NewIncidentType
<1>3. /\ source_events' = [source_events EXCEPT ![i] = @ \cup sources]
      /\ incidents' = [incidents EXCEPT ![i] = x]
  BY DEF CommitCreate
<1>4. ActiveMatches(key, sources) = {}
  BY <1>1, LookupAgrees DEF FindsNone
<1>5. /\ activeKeys' \in [ActiveKey -> IncidentIds \cup {NoOwner}]
      /\ \A s \in SourceEvents :
           activeKeys'[<<"source", s>>] =
              IF s \in sources THEN i ELSE activeKeys[<<"source", s>>]
      /\ \A k \in CorrelationKeys :
           activeKeys'[<<"correlation", k>>] =
              IF k = key THEN i ELSE activeKeys[<<"correlation", k>>]
  BY <1>1, AcquireStep
<1> HIDE DEF i, x, key
<1>6. ~Exists(i)
  BY DEF i
<1>7. source_events[i] = {}
  BY <1>1, <1>6 DEF SpannerInv
<1>8. \A j \in IncidentIds :
        /\ incidents'[j] = IF j = i THEN x ELSE incidents[j]
        /\ source_events'[j] = IF j = i THEN sources ELSE source_events[j]
  BY <1>1, <1>3, <1>7 DEF SpannerInv, Inv, TypeOK
<1>9. IsActive(i)' /\ \A j \in IncidentIds \ {i} : IsActive(j)' <=> IsActive(j)
  <2>1. x # Missing /\ x.status \notin SettledStatuses
    BY <1>2, IncidentExists DEF SettledStatuses, TerminalStatuses
  <2> QED BY <1>1, <1>8, <2>1 DEF IsActive, Exists
<1>10. SourceKeyExact'
  <2>1. \A j \in IncidentIds \ {i} : source_events[j] \cap sources = {}
    BY DEF CanRegister, i
  <2>2. ~IsActive(i)
    BY <1>6 DEF IsActive
  <2>3. SourceKeyExact
    BY DEF SpannerInv
  <2>4. ASSUME NEW j \in IncidentIds, NEW s \in SourceEvents
        PROVE  activeKeys'[<<"source", s>>] = j <=> IsActive(j)' /\ s \in source_events'[j]
    <3>1. CASE j = i
      BY <1>1, <1>5, <1>8, <1>9, <2>2, <2>3, <3>1 DEF SourceKeyExact
    <3>2. CASE j # i
      BY <1>1, <1>5, <1>8, <1>9, <2>1, <2>3, <3>2 DEF SourceKeyExact
    <3> QED BY <3>1, <3>2
  <2> QED BY <2>4, Zenon DEF SourceKeyExact
<1>11. CorrelationKeyExact'
  <2>1. \A j \in IncidentIds :
          IsActive(j) /\ key # NoKey => incidents[j].correlation_key # key
    BY <1>4 DEF ActiveMatches
  <2>2. ~IsActive(i)
    BY <1>6 DEF IsActive
  <2>3. NoKey \notin CorrelationKeys
    BY RepositoryAssumption
  <2>8. CorrelationKeyExact
    BY DEF SpannerInv
  <2>9. ASSUME NEW j \in IncidentIds, NEW k \in CorrelationKeys
        PROVE  activeKeys'[<<"correlation", k>>] = j
               <=> IsActive(j)' /\ incidents'[j].correlation_key = k
    BY <1>1, <1>2, <1>5, <1>8, <1>9, <2>1, <2>2, <2>3, <2>8 DEF CorrelationKeyExact
  <2> QED BY <2>9, Zenon DEF CorrelationKeyExact
<1>12. \A j \in IncidentIds : ~Exists(j)' => source_events'[j] = {}
  BY <1>8, <1>9 DEF IsActive, Exists, SpannerInv
<1> QED BY <1>5, <1>10, <1>11, <1>12 DEF SpannerInv

LEMMA CorrelateKeys ==
    ASSUME SpannerInv, Inv', NEW c \in Candidate, NEW key \in Keys, NEW i \in IncidentIds,
           SpannerCorrelate(c, key, i)
    PROVE  SpannerInv'
<1> DEFINE sources == c.source_event_ids
<1>1. sources \in SUBSET SourceEvents
  BY DEF Candidate
<1>2. /\ IsActive(i)
      /\ CanRegister(i, sources)
      /\ Acquire(i, SourceKeys(sources))
      /\ source_events' = [source_events EXCEPT ![i] = @ \cup sources]
      /\ UNCHANGED <<incidents, history>>
  BY DEF SpannerCorrelate, FindsActive
<1>3. NoKey \in CorrelationKeys \cup {NoKey} /\ NoKey \notin CorrelationKeys
  BY RepositoryAssumption
<1>4. Acquire(i, CandidateKeys(NoKey, sources))
  BY <1>1, <1>2, <1>3, KeyMembership
<1>5. /\ activeKeys' \in [ActiveKey -> IncidentIds \cup {NoOwner}]
      /\ \A s \in SourceEvents :
           activeKeys'[<<"source", s>>] =
              IF s \in sources THEN i ELSE activeKeys[<<"source", s>>]
      /\ \A k \in CorrelationKeys :
           activeKeys'[<<"correlation", k>>] = activeKeys[<<"correlation", k>>]
  BY <1>1, <1>3, <1>4, AcquireStep
<1> HIDE DEF sources
<1>6. \A j \in IncidentIds :
        source_events'[j] = IF j = i THEN source_events[i] \cup sources ELSE source_events[j]
  BY <1>2 DEF SpannerInv, Inv, TypeOK
<1>7. \A j \in IncidentIds : (IsActive(j)' <=> IsActive(j)) /\ (Exists(j)' <=> Exists(j))
  BY <1>2 DEF IsActive, Exists
<1>8. SourceKeyExact'
  <2>1. \A j \in IncidentIds \ {i} : source_events[j] \cap sources = {}
    BY <1>2 DEF CanRegister
  <2>8. SourceKeyExact
    BY DEF SpannerInv
  <2>9. ASSUME NEW j \in IncidentIds, NEW s \in SourceEvents
        PROVE  activeKeys'[<<"source", s>>] = j
               <=> IsActive(j)' /\ s \in source_events'[j]
    BY <1>2, <1>5, <1>6, <1>7, <2>1, <2>8 DEF SourceKeyExact
  <2> QED BY <2>9, Zenon DEF SourceKeyExact
<1>9. CorrelationKeyExact'
  <2>8. CorrelationKeyExact
    BY DEF SpannerInv
  <2>9. ASSUME NEW j \in IncidentIds, NEW k \in CorrelationKeys
        PROVE  activeKeys'[<<"correlation", k>>] = j
               <=> IsActive(j)' /\ incidents'[j].correlation_key = k
    BY <1>2, <1>5, <1>7, <2>8 DEF CorrelationKeyExact
  <2> QED BY <2>9, Zenon DEF CorrelationKeyExact
<1>10. \A j \in IncidentIds : ~Exists(j)' => source_events'[j] = {}
  BY <1>2, <1>6, <1>7 DEF IsActive, SpannerInv
<1> QED BY <1>5, <1>8, <1>9, <1>10 DEF SpannerInv

LEMMA TransitionKeys ==
    ASSUME SpannerInv, Inv',
           NEW op \in {"transition", "save"}, NEW i \in IncidentIds, NEW key \in Keys,
           NEW at \in Times, NEW target \in Transitions(incidents[i].status),
           NEW expected \in 0..MaxRevision, NEW body \in Bodies,
           SpannerTransition(op, i, target, expected, key, at, body)
    PROVE  SpannerInv'
<1> DEFINE x == Successor(incidents[i], target, at, body)
           sources == body.source_event_ids
           ckey == incidents[i].correlation_key
           keys == CandidateKeys(ckey, source_events[i] \cup sources)
<1>1. /\ Exists(i)
      /\ incidents[i].revision < MaxRevision
      /\ CanRegister(i, sources)
      /\ MoveKeys(i, x)
      /\ CommitTransition(<<op, i, key>>, i, x)
  BY DEF SpannerTransition
<1>2. incidents[i] \in Incident
  BY <1>1 DEF Exists, SpannerInv, Inv, TypeOK
<1>3. x \in Incident /\ x.status = target /\ x.body = body /\ x.correlation_key = ckey
  BY <1>1, <1>2, SuccessorType, TransitionsType
<1>4. /\ source_events' = [source_events EXCEPT ![i] = @ \cup sources]
      /\ incidents' = [incidents EXCEPT ![i] = x]
  BY <1>1, <1>3 DEF CommitTransition
<1>5. \/ /\ incidents[i].status \in SettledStatuses /\ x.status \notin SettledStatuses
         /\ FindsNone(keys) /\ Acquire(i, keys)
      \/ /\ incidents[i].status \notin SettledStatuses /\ x.status \in SettledStatuses
         /\ Release(i)
      \/ /\ incidents[i].status \notin SettledStatuses /\ x.status \notin SettledStatuses
         /\ Acquire(i, SourceKeys(sources))
      \/ /\ incidents[i].status \in SettledStatuses /\ x.status \in SettledStatuses
         /\ UNCHANGED activeKeys
  BY <1>1, <1>3 DEF MoveKeys
<1>6. /\ sources \in SUBSET SourceEvents
      /\ source_events[i] \in SUBSET SourceEvents
      /\ ckey \in CorrelationKeys \cup {NoKey}
      /\ NoKey \in CorrelationKeys \cup {NoKey} /\ NoKey \notin CorrelationKeys
  BY <1>2, RepositoryAssumption DEF SpannerInv, Inv, TypeOK, Incident
<1> HIDE DEF x, sources, ckey
<1>7. \A j \in IncidentIds :
        /\ incidents'[j] = IF j = i THEN x ELSE incidents[j]
        /\ source_events'[j] = IF j = i THEN source_events[i] \cup sources
                                         ELSE source_events[j]
  BY <1>4 DEF SpannerInv, Inv, TypeOK
<1>8. /\ IsActive(i)' <=> x.status \notin SettledStatuses
      /\ IsActive(i) <=> incidents[i].status \notin SettledStatuses
      /\ \A j \in IncidentIds \ {i} : IsActive(j)' <=> IsActive(j)
      /\ Exists(i)'
  <2>1. x # Missing
    BY <1>3, IncidentExists
  <2> QED BY <1>1, <1>7, <2>1 DEF IsActive, Exists
<1>9. \A j \in IncidentIds \ {i} : source_events[j] \cap sources = {}
  BY <1>1 DEF CanRegister
<1>10. \A j \in IncidentIds : ~Exists(j)' => source_events'[j] = {}
  BY <1>7, <1>8 DEF Exists, SpannerInv
<1>11. CASE /\ incidents[i].status \in SettledStatuses /\ x.status \notin SettledStatuses
            /\ FindsNone(keys) /\ Acquire(i, keys)
  <2>1. ActiveMatches(ckey, source_events[i] \cup sources) = {}
    BY <1>6, <1>11, LookupAgrees DEF FindsNone
  <2>2. /\ activeKeys' \in [ActiveKey -> IncidentIds \cup {NoOwner}]
        /\ \A s \in SourceEvents :
             activeKeys'[<<"source", s>>] =
                IF s \in source_events[i] \cup sources THEN i ELSE activeKeys[<<"source", s>>]
        /\ \A k \in CorrelationKeys :
             activeKeys'[<<"correlation", k>>] =
                IF k = ckey THEN i ELSE activeKeys[<<"correlation", k>>]
    BY <1>6, <1>11, AcquireStep
  <2>3. SourceKeyExact'
    <3>1. \A j \in IncidentIds \ {i} : source_events[j] \cap source_events[i] = {}
      BY DEF SpannerInv, Inv, SourceEventOwnership
    <3>8. SourceKeyExact
      BY DEF SpannerInv
    <3>9. ASSUME NEW j \in IncidentIds, NEW s \in SourceEvents
          PROVE  activeKeys'[<<"source", s>>] = j
                 <=> IsActive(j)' /\ s \in source_events'[j]
      BY <1>7, <1>8, <1>9, <1>11, <2>2, <3>1, <3>8 DEF SourceKeyExact
    <3> QED BY <3>9, Zenon DEF SourceKeyExact
  <2>4. CorrelationKeyExact'
    <3>1. \A j \in IncidentIds :
            IsActive(j) /\ ckey # NoKey => incidents[j].correlation_key # ckey
      BY <2>1 DEF ActiveMatches
    <3>8. CorrelationKeyExact
      BY DEF SpannerInv
    <3>9. ASSUME NEW j \in IncidentIds, NEW k \in CorrelationKeys
          PROVE  activeKeys'[<<"correlation", k>>] = j
                 <=> IsActive(j)' /\ incidents'[j].correlation_key = k
      BY <1>3, <1>6, <1>7, <1>8, <1>11, <2>2, <3>1, <3>8 DEF CorrelationKeyExact
    <3> QED BY <3>9, Zenon DEF CorrelationKeyExact
  <2> QED BY <1>10, <2>2, <2>3, <2>4 DEF SpannerInv
<1>12. CASE /\ incidents[i].status \notin SettledStatuses /\ x.status \in SettledStatuses
            /\ Release(i)
  <2>1. /\ \A s \in SourceEvents : <<"source", s>> \in ActiveKey
        /\ \A k \in CorrelationKeys : <<"correlation", k>> \in ActiveKey
    BY DEF ActiveKey, SourceKeys
  <2>2. /\ activeKeys' \in [ActiveKey -> IncidentIds \cup {NoOwner}]
        /\ \A k \in ActiveKey :
             activeKeys'[k] = IF activeKeys[k] = i THEN NoOwner ELSE activeKeys[k]
    BY <1>12 DEF Release, SpannerInv
  <2>3. NoOwner \notin IncidentIds
    BY SpannerAssumption
  <2>4. SourceKeyExact'
    <3>8. SourceKeyExact
      BY DEF SpannerInv
    <3>9. ASSUME NEW j \in IncidentIds, NEW s \in SourceEvents
          PROVE  activeKeys'[<<"source", s>>] = j
                 <=> IsActive(j)' /\ s \in source_events'[j]
      BY <1>7, <1>8, <1>12, <2>1, <2>2, <2>3, <3>8 DEF SourceKeyExact
    <3> QED BY <3>9, Zenon DEF SourceKeyExact
  <2>5. CorrelationKeyExact'
    <3>8. CorrelationKeyExact
      BY DEF SpannerInv
    <3>9. ASSUME NEW j \in IncidentIds, NEW k \in CorrelationKeys
          PROVE  activeKeys'[<<"correlation", k>>] = j
                 <=> IsActive(j)' /\ incidents'[j].correlation_key = k
      BY <1>7, <1>8, <1>12, <2>1, <2>2, <2>3, <3>8 DEF CorrelationKeyExact
    <3> QED BY <3>9, Zenon DEF CorrelationKeyExact
  <2> QED BY <1>10, <2>2, <2>4, <2>5 DEF SpannerInv
<1>13. CASE /\ incidents[i].status \notin SettledStatuses
            /\ x.status \notin SettledStatuses
            /\ Acquire(i, SourceKeys(sources))
  <2>1. Acquire(i, CandidateKeys(NoKey, sources))
    BY <1>6, <1>13, KeyMembership
  <2>2. /\ activeKeys' \in [ActiveKey -> IncidentIds \cup {NoOwner}]
        /\ \A s \in SourceEvents :
             activeKeys'[<<"source", s>>] =
                IF s \in sources THEN i ELSE activeKeys[<<"source", s>>]
        /\ \A k \in CorrelationKeys :
             activeKeys'[<<"correlation", k>>] = activeKeys[<<"correlation", k>>]
    BY <1>6, <2>1, AcquireStep
  <2>3. SourceKeyExact'
    <3>8. SourceKeyExact
      BY DEF SpannerInv
    <3>9. ASSUME NEW j \in IncidentIds, NEW s \in SourceEvents
          PROVE  activeKeys'[<<"source", s>>] = j
                 <=> IsActive(j)' /\ s \in source_events'[j]
      BY <1>7, <1>8, <1>9, <1>13, <2>2, <3>8 DEF SourceKeyExact
    <3> QED BY <3>9, Zenon DEF SourceKeyExact
  <2>4. CorrelationKeyExact'
    <3>8. CorrelationKeyExact
      BY DEF SpannerInv
    <3>9. ASSUME NEW j \in IncidentIds, NEW k \in CorrelationKeys
          PROVE  activeKeys'[<<"correlation", k>>] = j
                 <=> IsActive(j)' /\ incidents'[j].correlation_key = k
      BY <1>3, <1>7, <1>8, <1>13, <2>2, <3>8 DEF CorrelationKeyExact, ckey
    <3> QED BY <3>9, Zenon DEF CorrelationKeyExact
  <2> QED BY <1>10, <2>2, <2>3, <2>4 DEF SpannerInv
<1>14. CASE /\ incidents[i].status \in SettledStatuses /\ x.status \in SettledStatuses
            /\ UNCHANGED activeKeys
  <2>1. SourceKeyExact'
    <3>8. SourceKeyExact
      BY DEF SpannerInv
    <3>9. ASSUME NEW j \in IncidentIds, NEW s \in SourceEvents
          PROVE  activeKeys'[<<"source", s>>] = j
                 <=> IsActive(j)' /\ s \in source_events'[j]
      BY <1>7, <1>8, <1>14, <3>8 DEF SourceKeyExact
    <3> QED BY <3>9, Zenon DEF SourceKeyExact
  <2>2. CorrelationKeyExact'
    <3>8. CorrelationKeyExact
      BY DEF SpannerInv
    <3>9. ASSUME NEW j \in IncidentIds, NEW k \in CorrelationKeys
          PROVE  activeKeys'[<<"correlation", k>>] = j
                 <=> IsActive(j)' /\ incidents'[j].correlation_key = k
      BY <1>7, <1>8, <1>14, <3>8 DEF CorrelationKeyExact
    <3> QED BY <3>9, Zenon DEF CorrelationKeyExact
  <2> QED BY <1>10, <1>14, <2>1, <2>2 DEF SpannerInv
<1> QED BY <1>5, <1>11, <1>12, <1>13, <1>14

-----------------------------------------------------------------------------
\* Each transaction is the operation of the contract.
LEMMA CandidateFields ==
    ASSUME NEW c \in Candidate
    PROVE  /\ c.correlation_key \in CorrelationKeys \cup {NoKey}
           /\ c.source_event_ids \in SUBSET SourceEvents
BY DEF Candidate

LEMMA CreateRefines ==
    ASSUME SpannerInv, NEW c \in Candidate, NEW key \in Keys, NEW at \in Times
    PROVE  /\ SpannerCreate(c, key, at) => Create(c, key, at)
           /\ SpannerCreateUncorrelated(c, key, at) => CreateUncorrelated(c, key, at)
           /\ \A associations \in SUBSET SourceEvents :
                SpannerImport(c, associations, key, at)
                   => ImportDetectedSnapshot(c, associations, key, at)
<1>1. SpannerCreate(c, key, at) => Create(c, key, at)
  BY CandidateFields, LookupAgrees DEF SpannerCreate, Create, FindsNone
<1>2. SpannerCreateUncorrelated(c, key, at) => CreateUncorrelated(c, key, at)
  BY CandidateFields, LookupAgrees
     DEF SpannerCreateUncorrelated, CreateUncorrelated, FindsNone
<1>3. ASSUME NEW associations \in SUBSET SourceEvents,
             SpannerImport(c, associations, key, at)
      PROVE  ImportDetectedSnapshot(c, associations, key, at)
  BY <1>3, CandidateFields, LookupAgrees
     DEF SpannerImport, ImportDetectedSnapshot, FindsNone
<1> QED BY <1>1, <1>2, <1>3

LEMMA CorrelateRefines ==
    ASSUME SpannerInv, NEW c \in Candidate, NEW key \in Keys, NEW i \in IncidentIds,
           SpannerCorrelate(c, key, i)
    PROVE  Correlate(c, key, i)
BY CandidateFields, LookupAgrees DEF SpannerCorrelate, Correlate, FindsActive

LEMMA TransitionRefines ==
    ASSUME SpannerInv,
           NEW op \in {"transition", "save"}, NEW i \in IncidentIds, NEW key \in Keys,
           NEW at \in Times, NEW target \in Transitions(incidents[i].status),
           NEW expected \in 0..MaxRevision, NEW body \in Bodies,
           SpannerTransition(op, i, target, expected, key, at, body)
    PROVE  Transition(op, i, target, expected, key, at, body)
<1> DEFINE x == Successor(incidents[i], target, at, body)
<1>1. Exists(i) /\ incidents[i].revision < MaxRevision /\ MoveKeys(i, x)
  BY DEF SpannerTransition
<1>2. incidents[i] \in Incident
  BY <1>1 DEF Exists, SpannerInv, Inv, TypeOK
<1>3. x \in Incident /\ x.body = body
  BY <1>1, <1>2, SuccessorType, TransitionsType
<1> HIDE DEF x
<1>4. ReactivationAllowed(i, x)
  <2> SUFFICES ASSUME incidents[i].status \in SettledStatuses,
                      x.status \notin SettledStatuses
               PROVE  ActiveMatches(x.correlation_key, source_events[i]) \ {i} = {}
    BY DEF ReactivationAllowed
  <2> DEFINE sources == source_events[i] \cup body.source_event_ids
  <2>1. /\ x.correlation_key \in CorrelationKeys \cup {NoKey}
        /\ sources \in SUBSET SourceEvents
    BY <1>3, RepositoryAssumption DEF Incident, SpannerInv, Inv, TypeOK
  <2>2. FindsNone(CandidateKeys(x.correlation_key, sources))
    BY <1>1, <1>3 DEF MoveKeys
  <2>3. ActiveMatches(x.correlation_key, sources) = {}
    BY <2>1, <2>2, LookupAgrees DEF FindsNone
  <2> QED BY <2>3 DEF ActiveMatches
<1> QED BY <1>4 DEF SpannerTransition, Transition, x

LEMMA StepRefines == SpannerInv /\ [SpannerNext]_spannerVars => [Next]_vars
<1> SUFFICES ASSUME SpannerInv, [SpannerNext]_spannerVars PROVE [Next]_vars
  OBVIOUS
<1>1. CASE SpannerNext
  <2>1. ASSUME NEW c \in Candidate, NEW key \in Keys, NEW at \in Times,
               \/ SpannerCreate(c, key, at)
               \/ SpannerCreateUncorrelated(c, key, at)
               \/ \E associations \in SUBSET SourceEvents :
                    SpannerImport(c, associations, key, at)
        PROVE  Next
    BY <2>1, CreateRefines DEF Next
  <2>2. ASSUME NEW c \in Candidate, NEW key \in Keys, NEW i \in IncidentIds,
               SpannerCorrelate(c, key, i)
        PROVE  Next
    BY <2>2, CorrelateRefines DEF Next
  <2>3. ASSUME NEW op \in {"transition", "save"}, NEW i \in IncidentIds,
               NEW key \in Keys, NEW at \in Times,
               NEW target \in Transitions(incidents[i].status),
               NEW expected \in 0..MaxRevision, NEW body \in Bodies,
               SpannerTransition(op, i, target, expected, key, at, body)
        PROVE  Next
    <3>1. Transition(op, i, target, expected, key, at, body)
      BY <2>3, TransitionRefines
    <3>2. Exists(i) /\ incidents[i].revision = expected
      BY <3>1 DEF Transition
    <3> QED BY <2>3, <3>1, <3>2 DEF Next
  <2> QED BY <1>1, <2>1, <2>2, <2>3 DEF SpannerNext
<1>2. CASE UNCHANGED spannerVars
  BY <1>2 DEF spannerVars, vars
<1> QED BY <1>1, <1>2

LEMMA SpannerInitInv == SpannerInit => SpannerInv
<1> SUFFICES ASSUME SpannerInit PROVE SpannerInv
  OBVIOUS
<1>1. Inv
  BY InitInv DEF SpannerInit
<1>2. activeKeys = [k \in ActiveKey |-> NoOwner]
  BY DEF SpannerInit
<1>3. \A i \in IncidentIds : ~Exists(i) /\ source_events[i] = {}
  BY DEF SpannerInit, Init, Exists
<1>4. /\ \A s \in SourceEvents : activeKeys[<<"source", s>>] = NoOwner
      /\ \A k \in CorrelationKeys : activeKeys[<<"correlation", k>>] = NoOwner
  BY <1>2 DEF ActiveKey, SourceKeys
<1> QED
  BY <1>1, <1>2, <1>3, <1>4, SpannerAssumption
     DEF SpannerInv, SourceKeyExact, CorrelationKeyExact, IsActive

LEMMA SpannerNextInv == SpannerInv /\ [SpannerNext]_spannerVars => SpannerInv'
<1> SUFFICES ASSUME SpannerInv, [SpannerNext]_spannerVars PROVE SpannerInv'
  OBVIOUS
<1>1. Inv'
  BY StepRefines, NextInv DEF SpannerInv
<1>2. ASSUME NEW c \in Candidate, NEW key \in Keys, NEW at \in Times,
             SpannerCreate(c, key, at)
      PROVE  SpannerInv'
  BY <1>1, <1>2, CandidateFields, CreateKeys DEF SpannerCreate
<1>3. ASSUME NEW c \in Candidate, NEW key \in Keys, NEW at \in Times,
             SpannerCreateUncorrelated(c, key, at)
      PROVE  SpannerInv'
  BY <1>1, <1>3, CandidateFields, CreateKeys DEF SpannerCreateUncorrelated
<1>4. ASSUME NEW c \in Candidate, NEW key \in Keys, NEW at \in Times,
             NEW associations \in SUBSET SourceEvents,
             SpannerImport(c, associations, key, at)
      PROVE  SpannerInv'
  BY <1>1, <1>4, CreateKeys DEF SpannerImport
<1>5. CASE UNCHANGED spannerVars
  <2>1. \A i \in IncidentIds : (IsActive(i)' <=> IsActive(i)) /\ (Exists(i)' <=> Exists(i))
    BY <1>5 DEF spannerVars, IsActive, Exists
  <2> QED BY <1>1, <1>5, <2>1, Zenon
          DEF spannerVars, SpannerInv, SourceKeyExact, CorrelationKeyExact
<1> QED
  BY <1>1, <1>2, <1>3, <1>4, <1>5, CorrelateKeys, TransitionKeys DEF SpannerNext

\* The active-key index is exact in every reachable state of the Spanner
\* repository, for any number of incidents, source events and keys.
THEOREM IndexExact == SpannerSpec => []ActiveKeysExact
<1>1. SpannerInv => ActiveKeysExact
  BY ExactForm
<1> QED BY <1>1, SpannerInitInv, SpannerNextInv, PTL DEF SpannerSpec

\* The Spanner repository implements the repository contract.
THEOREM Implements == SpannerSpec => RepositoryContract
<1>1. SpannerInit => Init
  BY DEF SpannerInit
<1> QED
  BY <1>1, SpannerInitInv, SpannerNextInv, StepRefines, PTL
     DEF SpannerSpec, RepositoryContract, Spec

\* Hence, in the Spanner repository too, two unsettled incidents never share a
\* correlation key and no source event has two owners.
COROLLARY SpannerExclusive ==
    SpannerSpec => [](OneActivePerCorrelation /\ SourceEventOwnership)
BY Implements, Exclusive, PTL DEF RepositoryContract

-----------------------------------------------------------------------------
\* The keys of an incident are as many as its source events, and the one of its
\* correlation key.
LEMMA KeyCount ==
    ASSUME NEW key, NEW sources, IsFiniteSet(sources)
    PROVE  /\ IsFiniteSet(CandidateKeys(key, sources))
           /\ Cardinality(CandidateKeys(key, sources)) <= Cardinality(sources) + 1
<1> DEFINE keys == SourceKeys(sources)
           f == [s \in sources |-> <<"source", s>>]
<1>1. f \in Surjection(sources, keys)
  BY DEF Surjection, SourceKeys
<1>2. IsFiniteSet(keys) /\ Cardinality(keys) <= Cardinality(sources)
  BY <1>1, FS_Surjection
<1>3. Cardinality(keys) \in Nat /\ Cardinality(sources) \in Nat
  BY <1>2, FS_CardinalityType
<1> HIDE DEF keys
<1>4. CASE key = NoKey
  <2>1. CandidateKeys(key, sources) = keys
    BY <1>4 DEF CandidateKeys, CorrelationKey, keys
  <2>2. QED BY <1>2, <1>3, <2>1
<1>5. CASE key # NoKey
  <2> DEFINE k == <<"correlation", key>>
  <2>1. CandidateKeys(key, sources) = keys \cup {k}
    BY <1>5 DEF CandidateKeys, CorrelationKey, keys
  <2> HIDE DEF k
  <2>2. /\ IsFiniteSet(keys \cup {k})
        /\ Cardinality(keys \cup {k}) = IF k \in keys THEN Cardinality(keys)
                                        ELSE Cardinality(keys) + 1
    BY <1>2, FS_AddElement
  <2>3. Cardinality(keys \cup {k}) <= Cardinality(sources) + 1
    BY <1>2, <1>3, <2>2
  <2>4. QED BY <2>1, <2>2, <2>3
<1>6. QED BY <1>4, <1>5

LEMMA ReleaseFits ==
    ASSUME SpannerInv, WithinCapacity PROVE ReleaseWithinLimit
<1> SUFFICES ASSUME NEW i \in IncidentIds
             PROVE  Cardinality({ k \in ActiveKey : activeKeys[k] = i })
                      <= MaxSourceEvents + 1
  BY DEF ReleaseWithinLimit
<1>1. { k \in ActiveKey : activeKeys[k] = i } = IF IsActive(i) THEN HeldKeys(i) ELSE {}
  BY ExactForm DEF ActiveKeysExact
<1> DEFINE held == { k \in ActiveKey : activeKeys[k] = i }
<1> HIDE DEF held
<1>2. MaxSourceEvents \in Nat
  BY RepositoryAssumption
<1>3. CASE IsActive(i)
  <2>1. IsFiniteSet(source_events[i])
    <3>1. source_events[i] \in SUBSET SourceEvents /\ IsFiniteSet(SourceEvents)
      BY RepositoryAssumption DEF SpannerInv, Inv, TypeOK
    <3>2. QED BY <3>1, FS_Subset
  <2>2. Cardinality(source_events[i]) \in Nat
        /\ Cardinality(source_events[i]) <= MaxSourceEvents
    BY <2>1, FS_CardinalityType DEF WithinCapacity
  <2>3. /\ IsFiniteSet(HeldKeys(i))
        /\ Cardinality(HeldKeys(i)) <= Cardinality(source_events[i]) + 1
    BY <2>1, KeyCount DEF HeldKeys
  <2>4. Cardinality(HeldKeys(i)) \in Nat
    BY <2>3, FS_CardinalityType
  <2>5. Cardinality(HeldKeys(i)) <= MaxSourceEvents + 1
    BY <1>2, <2>2, <2>3, <2>4
  <2>6. held = HeldKeys(i)
    BY <1>1, <1>3 DEF held
  <2>7. QED BY <2>5, <2>6 DEF held
<1>4. CASE ~IsActive(i)
  <2>1. held = {}
    BY <1>1, <1>4 DEF held
  <2>2. Cardinality({}) = 0
    BY FS_EmptySet
  <2>3. Cardinality(held) = 0
    BY <2>1, <2>2, Zenon
  <2>4. QED BY <1>2, <2>3 DEF held
<1>5. QED BY <1>3, <1>4

LEMMA SpannerInvAlways == SpannerSpec => []SpannerInv
BY SpannerInitInv, SpannerNextInv, PTL DEF SpannerSpec

\* What the Spanner repository stores never makes a later call fail: a release
\* stays within the limit _release_active_keys_tx reads under, no source event
\* has two owners, the audit trail is unbroken, a retry finds a committed result
\* and a repeated import passes its checks.  The parts about records are those of
\* the contract, which the repository implements; the limit follows from the
\* exact index and the capacity every registration checks.
THEOREM LaterCalls == SpannerSpec => []LaterCallsSucceed
<1>1. SpannerSpec => [](Inv /\ LedgerInv)
  BY Implements, LedgerAlways, PTL DEF RepositoryContract
<1>2. SpannerInv /\ LedgerInv => LaterCallsSucceed
  <2> SUFFICES ASSUME SpannerInv, LedgerInv PROVE LaterCallsSucceed
    OBVIOUS
  <2>1. AuditTrail /\ ReplayIsCommitted /\ ImportReplayConsistent
    BY LedgerFacts DEF SpannerInv
  <2>2. SourceEventOwnership
    BY DEF SpannerInv, Inv
  <2>3. ReleaseWithinLimit
    BY ReleaseFits DEF LedgerInv
  <2>4. QED BY <2>1, <2>2, <2>3 DEF LaterCallsSucceed
<1>3. QED BY <1>1, <1>2, SpannerInvAlways, PTL

-----------------------------------------------------------------------------
(* Fault ingress *)

\* The request of event s in the idempotency ledger.
Scope(s) == <<"create_or_correlate", EventCandidate[s].id, EventKey[s]>>

\* Triggers name incidents that exist.
TriggerInv ==
    /\ DOMAIN inbox = SourceEvents
    /\ \A row \in outbox :
         row.event \in SourceEvents /\ row.incident.id \in IncidentIds
           /\ Exists(row.incident.id)
    /\ OneTriggerPerIncident

\* An event associated with an incident has been ingested.
Known == \A i \in IncidentIds : \A s \in source_events[i] : inbox[s] # NoRow

\* A row that answers from an incident agrees with everything it is bound to.
Bound(s) ==
    inbox[s] # NoRow /\ inbox[s].disposition # "shadow_recorded" =>
        /\ inbox[s].incident.id \in IncidentIds
        /\ inbox[s].incident.correlation_key = EventCandidate[s].correlation_key
        /\ IdentityHolds(s)
        /\ BindingsHold(s)

-----------------------------------------------------------------------------
\* What a step of the repository keeps of the incidents there are: they exist,
\* keep their identity, and associations and idempotency records only grow.
Keeps ==
    /\ \A j \in IncidentIds :
         /\ Exists(j) =>
              /\ Exists(j)'
              /\ incidents'[j].correlation_key = incidents[j].correlation_key
              /\ ~AgentsAppendSources =>
                   incidents'[j].body.source_event_ids = incidents[j].body.source_event_ids
         /\ source_events[j] \subseteq source_events'[j]
    /\ \A x \in DOMAIN idempotency :
         x \in DOMAIN idempotency' /\ idempotency'[x] = idempotency[x]

LEMMA EventFields ==
    ASSUME NEW s \in SourceEvents
    PROVE  /\ EventCandidate[s] \in Candidate /\ EventKey[s] \in Keys
           /\ EventCandidate[s].id \in IncidentIds
           /\ EventCandidate[s].source_event_ids = {s}
           /\ EventCandidate[s].correlation_key \in CorrelationKeys
BY IngestAssumption DEF Candidate

LEMMA SnapshotFields ==
    ASSUME NEW i, NEW x
    PROVE  /\ Snapshot(i, x).id = i
           /\ Snapshot(i, x).status = x.status
           /\ Snapshot(i, x).revision = x.revision
           /\ Snapshot(i, x).correlation_key = x.correlation_key
           /\ Snapshot(i, x).source_event_ids = x.body.source_event_ids
BY DEF Snapshot

\* _incident_identity, field by field.
LEMMA IdentityFields ==
    ASSUME NEW s
    PROVE  LET original == inbox[s].incident
           IN  IdentityHolds(s) <=>
                 /\ Exists(original.id)
                 /\ incidents[original.id].correlation_key = original.correlation_key
                 /\ incidents[original.id].body.source_event_ids
                      = original.source_event_ids
<1> DEFINE original == inbox[s].incident
           current == Snapshot(original.id, incidents[original.id])
<1>1. /\ current.id = original.id
      /\ current.correlation_key = incidents[original.id].correlation_key
      /\ current.source_event_ids = incidents[original.id].body.source_event_ids
  BY SnapshotFields
<1>2. IdentityHolds(s) <=> /\ Exists(original.id)
                           /\ IncidentIdentity(current) = IncidentIdentity(original)
  BY DEF IdentityHolds
<1> HIDE DEF current, original
<1>3. IncidentIdentity(current) = IncidentIdentity(original) <=>
        /\ current.id = original.id
        /\ current.correlation_key = original.correlation_key
        /\ current.source_event_ids = original.source_event_ids
  BY DEF IncidentIdentity
<1>4. QED BY <1>1, <1>2, <1>3 DEF original

\* create_or_correlate without a match.
LEMMA CreateFacts ==
    ASSUME SpannerInv, NEW s \in SourceEvents, NEW at \in Times,
           SpannerCreateUncorrelated(EventCandidate[s], EventKey[s], at)
    PROVE  LET i == EventCandidate[s].id
               x == NewIncident(EventCandidate[s], at)
           IN  /\ Keeps
               /\ i \in IncidentIds /\ ~Exists(i) /\ Exists(i)' /\ incidents'[i] = x
               /\ \A j \in IncidentIds \ {i} : Exists(j)' => Exists(j)
               /\ \A j \in IncidentIds : source_events'[j] \subseteq source_events[j] \cup {s}
               /\ s \in source_events'[i]
               /\ Scope(s) \in DOMAIN idempotency' /\ idempotency'[Scope(s)].id = i
               /\ idempotency'[Scope(s)].status = x.status
               /\ idempotency'[Scope(s)].revision = x.revision
<1> DEFINE c == EventCandidate[s]
           i == c.id
           x == NewIncident(c, at)
<1>1. /\ c \in Candidate /\ i \in IncidentIds /\ c.source_event_ids = {s}
  BY EventFields
<1>2. /\ IsNew(Scope(s)) /\ ~Exists(i)
      /\ CommitCreate(Scope(s), i, x, c.source_event_ids)
  BY DEF SpannerCreateUncorrelated, Scope
<1>3. x \in Incident
  BY <1>1, NewIncidentType
<1>4. /\ source_events' = [source_events EXCEPT ![i] = @ \cup {s}]
      /\ incidents' = [incidents EXCEPT ![i] = x]
      /\ Remember(Scope(s), {s}, i, x)
  BY <1>1, <1>2 DEF CommitCreate
<1> HIDE DEF c, i, x
<1>5. \A j \in IncidentIds :
        /\ incidents'[j] = IF j = i THEN x ELSE incidents[j]
        /\ source_events'[j] = IF j = i THEN source_events[i] \cup {s} ELSE source_events[j]
  BY <1>1, <1>4 DEF SpannerInv, Inv, TypeOK
<1>6. Exists(i)' /\ \A j \in IncidentIds \ {i} : Exists(j)' <=> Exists(j)
  BY <1>1, <1>3, <1>5, IncidentExists DEF Exists
<1>7. /\ DOMAIN idempotency' = DOMAIN idempotency \cup {Scope(s)}
      /\ idempotency'[Scope(s)].id = i
      /\ idempotency'[Scope(s)].status = x.status
      /\ idempotency'[Scope(s)].revision = x.revision
      /\ \A y \in DOMAIN idempotency \ {Scope(s)} : idempotency'[y] = idempotency[y]
  BY <1>4, RememberFacts, ZenonT(60)
<1>8. Keeps
  BY <1>2, <1>5, <1>6, <1>7 DEF Keeps, IsNew
<1>9. QED BY <1>1, <1>2, <1>5, <1>6, <1>7, <1>8 DEF c, i, x

\* create_or_correlate with a match.
LEMMA CorrelateFacts ==
    ASSUME SpannerInv, Known, NEW s \in SourceEvents, inbox[s] = NoRow,
           NEW i \in IncidentIds,
           SpannerCorrelate(EventCandidate[s], EventKey[s], i)
    PROVE  /\ Keeps
           /\ Exists(i) /\ UNCHANGED incidents
           /\ incidents[i].correlation_key = EventCandidate[s].correlation_key
           /\ \A j \in IncidentIds : source_events'[j] \subseteq source_events[j] \cup {s}
           /\ s \in source_events'[i]
           /\ Scope(s) \in DOMAIN idempotency' /\ idempotency'[Scope(s)].id = i
           /\ idempotency'[Scope(s)].status = incidents[i].status
           /\ idempotency'[Scope(s)].revision = incidents[i].revision
<1> DEFINE c == EventCandidate[s]
<1>1. /\ c \in Candidate /\ c.source_event_ids = {s} /\ c.correlation_key \in CorrelationKeys
  BY EventFields
<1>2. /\ IsNew(Scope(s)) /\ IsActive(i)
      /\ Owners(CandidateKeys(c.correlation_key, c.source_event_ids)) = {i}
      /\ source_events' = [source_events EXCEPT ![i] = @ \cup c.source_event_ids]
      /\ Remember(Scope(s), c.source_event_ids, i, incidents[i])
      /\ UNCHANGED incidents
  BY DEF SpannerCorrelate, FindsActive, Scope
<1> HIDE DEF c
<1>3. \A j \in IncidentIds :
        source_events'[j] = IF j = i THEN source_events[i] \cup {s} ELSE source_events[j]
  BY <1>1, <1>2 DEF SpannerInv, Inv, TypeOK
<1>4. incidents[i].correlation_key = c.correlation_key
  <2>1. i \in ActiveMatches(c.correlation_key, {s})
    BY <1>1, <1>2, LookupAgrees
  <2>2. s \notin source_events[i]
    BY DEF Known
  <2>3. QED BY <2>1, <2>2 DEF ActiveMatches
<1>5. /\ DOMAIN idempotency' = DOMAIN idempotency \cup {Scope(s)}
      /\ idempotency'[Scope(s)].id = i
      /\ idempotency'[Scope(s)].status = incidents[i].status
      /\ idempotency'[Scope(s)].revision = incidents[i].revision
      /\ \A y \in DOMAIN idempotency \ {Scope(s)} : idempotency'[y] = idempotency[y]
  <2> DEFINE sources == c.source_event_ids
             x == incidents[i]
  <2>1. Remember(Scope(s), sources, i, x)
    BY <1>2
  <2> HIDE DEF sources, x
  <2>2. /\ DOMAIN idempotency' = DOMAIN idempotency \cup {Scope(s)}
        /\ idempotency'[Scope(s)].id = i
        /\ idempotency'[Scope(s)].status = x.status
        /\ idempotency'[Scope(s)].revision = x.revision
        /\ \A y \in DOMAIN idempotency \ {Scope(s)} : idempotency'[y] = idempotency[y]
    BY <2>1 DEF Remember
  <2>3. QED BY <2>2 DEF x
<1>6. Exists(i)
  BY <1>2 DEF IsActive
<1>7. Keeps
  BY <1>2, <1>3, <1>5 DEF Keeps, IsNew, Exists
<1>8. QED BY <1>2, <1>3, <1>4, <1>5, <1>6, <1>7 DEF c

\* An agent's transition.
LEMMA AgentFacts ==
    ASSUME SpannerInv, NEW i \in IncidentIds, NEW key \in Keys, NEW at \in Times,
           NEW body \in Bodies, NEW target \in Transitions(incidents[i].status),
           AgentTransition(i, target, key, at, body)
    PROVE  /\ Keeps
           /\ \A j \in IncidentIds : Exists(j)' => Exists(j)
           /\ \A j \in IncidentIds : source_events'[j] = source_events[j]
<1> DEFINE x == Successor(incidents[i], target, at, body)
           scope == <<"transition", i, key>>
<1>1. /\ IsNew(scope) /\ Exists(i) /\ incidents[i].revision < MaxRevision
      /\ TransitionAllowed(incidents[i], target, at, body)
      /\ CommitTransition(scope, i, x)
      /\ body.source_event_ids \subseteq
           IF AgentsAppendSources THEN source_events[i] ELSE incidents[i].body.source_event_ids
  BY DEF AgentTransition, SpannerTransition
<1>2. incidents[i] \in Incident
  BY <1>1 DEF Exists, SpannerInv, Inv, TypeOK
<1>3. x \in Incident /\ x.body = body /\ x.correlation_key = incidents[i].correlation_key
  BY <1>1, <1>2, SuccessorType, TransitionsType
<1>4. /\ source_events' = [source_events EXCEPT ![i] = @ \cup body.source_event_ids]
      /\ incidents' = [incidents EXCEPT ![i] = x]
      /\ Remember(scope, {}, i, x)
  BY <1>1, <1>3 DEF CommitTransition
<1>5. incidents[i].body.source_event_ids \subseteq body.source_event_ids
  BY <1>1 DEF TransitionAllowed, AppendOnly
<1>6. body.source_event_ids \subseteq source_events[i]
  BY <1>1 DEF SpannerInv, Inv, AggregateHasProvenance
<1>7. ~AgentsAppendSources => body.source_event_ids = incidents[i].body.source_event_ids
  BY <1>1, <1>5
<1> HIDE DEF x, scope
<1>8. \A j \in IncidentIds :
        /\ incidents'[j] = IF j = i THEN x ELSE incidents[j]
        /\ source_events'[j] = source_events[j]
  BY <1>4, <1>6 DEF SpannerInv, Inv, TypeOK
<1>9. \A j \in IncidentIds : Exists(j)' <=> Exists(j)
  BY <1>1, <1>3, <1>8, IncidentExists DEF Exists
<1>10. /\ DOMAIN idempotency' = DOMAIN idempotency \cup {scope}
       /\ \A y \in DOMAIN idempotency \ {scope} : idempotency'[y] = idempotency[y]
  BY <1>4, RememberFacts
<1>11. Keeps
  BY <1>1, <1>3, <1>7, <1>8, <1>9, <1>10 DEF Keeps, IsNew
<1>12. QED BY <1>8, <1>9, <1>11

-----------------------------------------------------------------------------
\* A row that is not touched keeps its bindings.
LEMMA BoundStays ==
    ASSUME Keeps, ~AgentsAppendSources, NEW t, Bound(t), inbox'[t] = inbox[t],
           outbox \subseteq outbox'
    PROVE  Bound(t)'
<1> SUFFICES ASSUME inbox[t] # NoRow, inbox[t].disposition # "shadow_recorded"
             PROVE  /\ inbox'[t].incident.id \in IncidentIds
                    /\ inbox'[t].incident.correlation_key = EventCandidate[t].correlation_key
                    /\ IdentityHolds(t)'
                    /\ BindingsHold(t)'
  BY DEF Bound
<1> DEFINE original == inbox[t].incident
           i == original.id
<1>1. /\ i \in IncidentIds
      /\ original.correlation_key = EventCandidate[t].correlation_key
      /\ IdentityHolds(t) /\ BindingsHold(t)
  BY DEF Bound
<1>2. /\ Exists(i) /\ incidents[i].correlation_key = original.correlation_key
      /\ incidents[i].body.source_event_ids = original.source_event_ids
  BY <1>1, IdentityFields
<1>3. /\ Exists(i)' /\ incidents'[i].correlation_key = original.correlation_key
      /\ incidents'[i].body.source_event_ids = original.source_event_ids
      /\ source_events[i] \subseteq source_events'[i]
  BY <1>1, <1>2 DEF Keeps
<1>4. IdentityHolds(t)'
  <2>1. /\ inbox'[t].incident = original
        /\ Exists(inbox[t].incident.id)'
        /\ incidents'[inbox'[t].incident.id].correlation_key
             = inbox'[t].incident.correlation_key
        /\ incidents'[inbox'[t].incident.id].body.source_event_ids
             = inbox'[t].incident.source_event_ids
    BY <1>3 DEF Exists
  <2>2. QED BY <2>1 DEF IdentityHolds, IncidentIdentity, Snapshot
<1>5. BindingsHold(t)'
  <2>1. /\ t \in source_events[i] /\ ~IsNew(Scope(t))
        /\ idempotency[Scope(t)].id = i
        /\ idempotency[Scope(t)].status = original.status
        /\ idempotency[Scope(t)].revision = original.revision
        /\ inbox[t].disposition = "created" => [event |-> t, incident |-> original] \in outbox
    BY <1>1 DEF BindingsHold, Scope
  <2>2. ~IsNew(Scope(t))' /\ idempotency'[Scope(t)] = idempotency[Scope(t)]
    BY <2>1 DEF Keeps, IsNew
  <2>3. QED BY <1>3, <2>1, <2>2 DEF BindingsHold, Scope
<1>6. QED BY <1>1, <1>4, <1>5

\* A row just written from incident i in its state x.
LEMMA BoundNew ==
    ASSUME NEW s \in SourceEvents, NEW i \in IncidentIds, NEW x,
           NEW disposition \in {"created", "correlated"},
           inbox'[s] = [disposition |-> disposition, incident |-> Snapshot(i, x)],
           Exists(i)', incidents'[i] = x,
           x.correlation_key = EventCandidate[s].correlation_key,
           s \in source_events'[i],
           Scope(s) \in DOMAIN idempotency', idempotency'[Scope(s)].id = i,
           idempotency'[Scope(s)].status = x.status,
           idempotency'[Scope(s)].revision = x.revision,
           disposition = "created" => [event |-> s, incident |-> Snapshot(i, x)] \in outbox'
    PROVE  Bound(s)'
<1> DEFINE original == Snapshot(i, x)
<1>1. /\ original.id = i /\ original.status = x.status /\ original.revision = x.revision
      /\ original.correlation_key = x.correlation_key
      /\ original.source_event_ids = x.body.source_event_ids
  BY SnapshotFields
<1>2. inbox'[s].incident = original /\ inbox'[s].disposition = disposition
  OBVIOUS
<1> HIDE DEF original
<1>3. IdentityHolds(s)'
  <2>1. /\ Exists(inbox[s].incident.id)'
        /\ incidents'[inbox'[s].incident.id].correlation_key
             = inbox'[s].incident.correlation_key
        /\ incidents'[inbox'[s].incident.id].body.source_event_ids
             = inbox'[s].incident.source_event_ids
    BY <1>1, <1>2 DEF Exists
  <2>2. QED BY <2>1 DEF IdentityHolds, IncidentIdentity, Snapshot
<1>4. BindingsHold(s)'
  BY <1>1, <1>2 DEF BindingsHold, Scope, IsNew, original
<1>5. QED BY <1>1, <1>2, <1>3, <1>4 DEF Bound

-----------------------------------------------------------------------------
\* What the steps that leave the incidents alone, and those of the agents, do to
\* the rows: nothing, or one more row that has no incident.
LEMMA TriggerStays ==
    ASSUME TriggerInv, Keeps, \A j \in IncidentIds : Exists(j)' => Exists(j),
           UNCHANGED outbox, DOMAIN inbox' = SourceEvents,
           \A t \in SourceEvents :
             \/ inbox'[t] = inbox[t]
             \/ inbox[t] = NoRow /\ inbox'[t].disposition # "created"
    PROVE  TriggerInv'
<1>1. \A row \in outbox : inbox'[row.event] = inbox[row.event]
  <2>1. ASSUME NEW row \in outbox PROVE inbox'[row.event] = inbox[row.event]
    <3>1. /\ row.event \in SourceEvents
          /\ inbox[row.event] = [disposition |-> "created", incident |-> row.incident]
      BY DEF TriggerInv, OneTriggerPerIncident
    <3>2. inbox[row.event].disposition = "created" /\ NoRow.disposition = "none"
      BY <3>1 DEF NoRow
    <3>3. QED BY <3>1, <3>2
  <2>2. QED BY <2>1
<1>2. \A row \in outbox :
        row.event \in SourceEvents /\ row.incident.id \in IncidentIds
          /\ Exists(row.incident.id)'
  BY DEF TriggerInv, Keeps
<1>3. OneTriggerPerIncident'
  BY <1>1, <1>2 DEF TriggerInv, OneTriggerPerIncident
<1>4. QED BY <1>2, <1>3 DEF TriggerInv, Exists

\* ingest creates an incident: its trigger is the only one that names it.
LEMMA TriggerCreate ==
    ASSUME SpannerInv, TriggerInv, NEW s \in SourceEvents, NEW at \in Times,
           IngestCreate(s, at)
    PROVE  TriggerInv'
<1> DEFINE i == EventCandidate[s].id
           x == NewIncident(EventCandidate[s], at)
           snapshot == Snapshot(i, x)
           new == [event |-> s, incident |-> snapshot]
<1>1. /\ inbox[s] = NoRow
      /\ inbox' = [inbox EXCEPT ![s] = [disposition |-> "created", incident |-> snapshot]]
      /\ outbox' = outbox \cup {new}
      /\ SpannerCreateUncorrelated(EventCandidate[s], EventKey[s], at)
  BY DEF IngestCreate
<1>2. /\ Keeps /\ i \in IncidentIds /\ ~Exists(i) /\ Exists(i)'
      /\ \A j \in IncidentIds \ {i} : Exists(j)' => Exists(j)
  BY <1>1, CreateFacts
<1>3. snapshot.id = i
  BY SnapshotFields
<1> HIDE DEF i, x, snapshot
<1>4. new.event = s /\ new.incident = snapshot
  OBVIOUS
<1> HIDE DEF new
<1>5. /\ DOMAIN inbox' = SourceEvents
      /\ inbox'[s] = [disposition |-> "created", incident |-> snapshot]
      /\ \A t \in SourceEvents \ {s} : inbox'[t] = inbox[t]
  BY <1>1 DEF TriggerInv
<1>6. \A row \in outbox :
        /\ row.event \in SourceEvents \ {s} /\ row.incident.id \in IncidentIds \ {i}
        /\ Exists(row.incident.id) /\ inbox[row.event].disposition = "created"
        /\ inbox[row.event] = [disposition |-> "created", incident |-> row.incident]
  <2>1. ASSUME NEW row \in outbox
        PROVE  /\ row.event \in SourceEvents \ {s} /\ row.incident.id \in IncidentIds \ {i}
               /\ Exists(row.incident.id) /\ inbox[row.event].disposition = "created"
               /\ inbox[row.event] = [disposition |-> "created", incident |-> row.incident]
    <3>1. /\ row.event \in SourceEvents /\ row.incident.id \in IncidentIds
          /\ Exists(row.incident.id)
          /\ inbox[row.event] = [disposition |-> "created", incident |-> row.incident]
      BY DEF TriggerInv, OneTriggerPerIncident
    <3>2. inbox[row.event].disposition = "created" /\ NoRow.disposition = "none"
      BY <3>1 DEF NoRow
    <3>3. row.event # s
      BY <1>1, <3>2
    <3>4. row.incident.id # i
      BY <1>2, <3>1
    <3>5. QED BY <3>1, <3>2, <3>3, <3>4
  <2>2. QED BY <2>1
<1>7. \A row \in outbox' :
        row.event \in SourceEvents /\ row.incident.id \in IncidentIds
          /\ Exists(row.incident.id)'
  BY <1>1, <1>2, <1>3, <1>4, <1>6 DEF Keeps
<1>8. OneTriggerPerIncident'
  <2>1. ASSUME NEW j \in IncidentIds, Exists(j)'
        PROVE  \E row \in outbox' : row.incident.id = j
    BY <1>1, <1>2, <1>3, <1>4, <2>1 DEF TriggerInv, OneTriggerPerIncident
  <2>2. ASSUME NEW row \in outbox', NEW other \in outbox',
               row.incident.id = other.incident.id
        PROVE  row = other
    <3>1. CASE row \in outbox /\ other \in outbox
      BY <2>2, <3>1 DEF TriggerInv, OneTriggerPerIncident
    <3>2. CASE row = new \/ other = new
      BY <1>1, <1>3, <1>4, <1>6, <2>2, <3>2
    <3>3. QED BY <1>1, <3>1, <3>2
  <2>3. ASSUME NEW row \in outbox'
        PROVE  inbox'[row.event] = [disposition |-> "created", incident |-> row.incident]
    BY <1>1, <1>4, <1>5, <1>6
  <2>4. ASSUME NEW t \in SourceEvents, inbox'[t].disposition = "created"
        PROVE  \E row \in outbox' : row.event = t
    BY <1>1, <1>4, <1>5, <2>4 DEF TriggerInv, OneTriggerPerIncident
  <2>5. QED BY <2>1, <2>2, <2>3, <2>4 DEF OneTriggerPerIncident
<1>9. QED BY <1>5, <1>7, <1>8 DEF TriggerInv, Exists

-----------------------------------------------------------------------------
\* A step that leaves the repository, or one of its tables, alone.
LEMMA QuietKeeps ==
    ASSUME UNCHANGED spannerVars PROVE Keeps /\ \A j \in IncidentIds : Exists(j)' => Exists(j)
BY DEF spannerVars, Keeps, Exists

IngestInv == SpannerInv /\ TriggerInv /\ Known

\* Rows that answer from an incident; needed only for the replay.
BoundInv == \A s \in SourceEvents : Bound(s)

\* A delivery of s reaches a durable result.
Ingest(s) ==
    \/ Replay(s)
    \/ RecordShadow(s)
    \/ \E at \in Times : IngestCreate(s, at)
    \/ \E i \in IncidentIds : IngestCorrelate(s, i)

LEMMA IngestStep ==
    ASSUME IngestInv, NEW s \in SourceEvents, Ingest(s)
    PROVE  IngestInv' /\ (~AgentsAppendSources /\ BoundInv => BoundInv')
<1>0. SpannerInv /\ TriggerInv /\ Known /\ DOMAIN inbox = SourceEvents
      /\ source_events \in [IncidentIds -> SUBSET SourceEvents]
  BY DEF IngestInv, TriggerInv, SpannerInv, Inv, TypeOK
<1>1. CASE Replay(s)
  <2>1. UNCHANGED spannerVars /\ UNCHANGED <<inbox, outbox>>
    BY <1>1 DEF Replay
  <2>2. Keeps /\ \A j \in IncidentIds : Exists(j)' => Exists(j)
    BY <2>1, QuietKeeps
  <2>3. SpannerInv'
    BY <1>0, <2>1, SpannerNextInv
  <2>4. TriggerInv'
    BY <1>0, <2>1, <2>2, TriggerStays
  <2>5. Known'
    BY <1>0, <2>1 DEF Known, spannerVars
  <2>6. ~AgentsAppendSources /\ BoundInv => BoundInv'
    BY <2>1, <2>2, BoundStays DEF BoundInv
  <2>7. QED BY <2>3, <2>4, <2>5, <2>6 DEF IngestInv
<1>2. CASE RecordShadow(s)
  <2> DEFINE row == [disposition |-> "shadow_recorded", incident |-> NoIncident]
  <2>1. /\ inbox[s] = NoRow /\ inbox' = [inbox EXCEPT ![s] = row]
        /\ UNCHANGED spannerVars /\ UNCHANGED outbox
    BY <1>2 DEF RecordShadow
  <2>2. row.disposition = "shadow_recorded" /\ row # NoRow
    BY DEF NoRow
  <2> HIDE DEF row
  <2>3. /\ DOMAIN inbox' = SourceEvents /\ inbox'[s] = row
        /\ \A t \in SourceEvents \ {s} : inbox'[t] = inbox[t]
    BY <1>0, <2>1
  <2>4. Keeps /\ \A j \in IncidentIds : Exists(j)' => Exists(j)
    BY <2>1, QuietKeeps
  <2>5. SpannerInv'
    BY <1>0, <2>1, SpannerNextInv
  <2>6. TriggerInv'
    BY <1>0, <2>1, <2>2, <2>3, <2>4, TriggerStays
  <2>7. Known'
    <3>1. source_events' = source_events
      BY <2>1 DEF spannerVars
    <3>2. QED BY <1>0, <2>2, <2>3, <3>1 DEF Known
  <2>8. ~AgentsAppendSources /\ BoundInv => BoundInv'
    <3>1. Bound(s)'
      BY <2>2, <2>3 DEF Bound
    <3>2. \A t \in SourceEvents \ {s} : ~AgentsAppendSources /\ Bound(t) => Bound(t)'
      BY <2>1, <2>3, <2>4, BoundStays
    <3>3. QED BY <3>1, <3>2 DEF BoundInv
  <2>9. QED BY <2>5, <2>6, <2>7, <2>8 DEF IngestInv
<1>3. ASSUME NEW at \in Times, IngestCreate(s, at)
      PROVE  IngestInv' /\ (~AgentsAppendSources /\ BoundInv => BoundInv')
  <2> DEFINE c == EventCandidate[s]
             i == c.id
             x == NewIncident(c, at)
             row == [disposition |-> "created", incident |-> Snapshot(i, x)]
  <2>1. /\ SpannerCreateUncorrelated(c, EventKey[s], at) /\ inbox[s] = NoRow
        /\ inbox' = [inbox EXCEPT ![s] = row]
        /\ outbox' = outbox \cup {[event |-> s, incident |-> Snapshot(i, x)]}
    BY <1>3 DEF IngestCreate
  <2>2. c \in Candidate /\ EventKey[s] \in Keys
    BY EventFields
  <2>3. SpannerInv'
    <3>1. SpannerNext
      BY <2>1, <2>2 DEF SpannerNext
    <3>2. QED BY <1>0, <3>1, SpannerNextInv
  <2>4. TriggerInv'
    BY <1>0, <1>3, TriggerCreate
  <2>5. /\ Keeps /\ i \in IncidentIds /\ Exists(i)' /\ incidents'[i] = x
        /\ \A j \in IncidentIds : source_events'[j] \subseteq source_events[j] \cup {s}
        /\ s \in source_events'[i]
        /\ Scope(s) \in DOMAIN idempotency' /\ idempotency'[Scope(s)].id = i
        /\ idempotency'[Scope(s)].status = x.status
        /\ idempotency'[Scope(s)].revision = x.revision
    BY <1>0, <2>1, CreateFacts
  <2>6. x.correlation_key = c.correlation_key
    BY <2>2, NewIncidentType
  <2>7. row # NoRow
    <3>1. row.disposition = "created" /\ NoRow.disposition = "none"
      BY DEF NoRow
    <3>2. QED BY <3>1
  <2> HIDE DEF i, x, row
  <2>8. inbox'[s] = row /\ \A t \in SourceEvents \ {s} : inbox'[t] = inbox[t]
    BY <1>0, <2>1
  <2>9. Known'
    BY <1>0, <2>5, <2>7, <2>8 DEF Known
  <2>10. ~AgentsAppendSources /\ BoundInv => BoundInv'
    <3>1. Bound(s)'
      BY <2>1, <2>5, <2>6, <2>8, BoundNew DEF row
    <3>2. \A t \in SourceEvents \ {s} : ~AgentsAppendSources /\ Bound(t) => Bound(t)'
      BY <2>1, <2>5, <2>8, BoundStays
    <3>3. QED BY <3>1, <3>2 DEF BoundInv
  <2>11. QED BY <2>3, <2>4, <2>9, <2>10 DEF IngestInv
<1>4. ASSUME NEW i \in IncidentIds, IngestCorrelate(s, i)
      PROVE  IngestInv' /\ (~AgentsAppendSources /\ BoundInv => BoundInv')
  <2> DEFINE c == EventCandidate[s]
             x == incidents[i]
             row == [disposition |-> "correlated", incident |-> Snapshot(i, x)]
  <2>1. /\ SpannerCorrelate(c, EventKey[s], i) /\ inbox[s] = NoRow
        /\ inbox' = [inbox EXCEPT ![s] = row] /\ UNCHANGED outbox
    BY <1>4 DEF IngestCorrelate
  <2>2. c \in Candidate /\ EventKey[s] \in Keys
    BY EventFields
  <2>3. SpannerInv'
    <3>1. SpannerNext
      BY <2>1, <2>2 DEF SpannerNext
    <3>2. QED BY <1>0, <3>1, SpannerNextInv
  <2>4. /\ Keeps /\ Exists(i) /\ UNCHANGED incidents
        /\ x.correlation_key = c.correlation_key
        /\ \A j \in IncidentIds : source_events'[j] \subseteq source_events[j] \cup {s}
        /\ s \in source_events'[i]
        /\ Scope(s) \in DOMAIN idempotency' /\ idempotency'[Scope(s)].id = i
        /\ idempotency'[Scope(s)].status = x.status
        /\ idempotency'[Scope(s)].revision = x.revision
    BY <1>0, <2>1, CorrelateFacts
  <2>5. incidents'[i] = x /\ \A j \in IncidentIds : Exists(j)' <=> Exists(j)
    BY <2>4 DEF Exists
  <2>6. row # NoRow /\ row.disposition = "correlated"
    <3>1. row.disposition = "correlated" /\ NoRow.disposition = "none"
      BY DEF NoRow
    <3>2. QED BY <3>1
  <2> HIDE DEF x, row
  <2>7. /\ DOMAIN inbox' = SourceEvents /\ inbox'[s] = row
        /\ \A t \in SourceEvents \ {s} : inbox'[t] = inbox[t]
    BY <1>0, <2>1
  <2>8. TriggerInv'
    BY <1>0, <2>1, <2>4, <2>5, <2>6, <2>7, TriggerStays
  <2>9. Known'
    BY <1>0, <2>4, <2>6, <2>7 DEF Known
  <2>10. ~AgentsAppendSources /\ BoundInv => BoundInv'
    <3>1. Bound(s)'
      BY <2>1, <2>4, <2>5, <2>7, BoundNew, ZenonT(60) DEF row
    <3>2. \A t \in SourceEvents \ {s} : ~AgentsAppendSources /\ Bound(t) => Bound(t)'
      BY <2>1, <2>4, <2>7, BoundStays
    <3>3. QED BY <3>1, <3>2 DEF BoundInv
  <2>11. QED BY <2>3, <2>8, <2>9, <2>10 DEF IngestInv
<1>5. QED BY <1>1, <1>2, <1>3, <1>4 DEF Ingest

LEMMA AgentStep ==
    ASSUME IngestInv, NEW i \in IncidentIds, NEW key \in Keys, NEW at \in Times,
           NEW body \in Bodies, NEW target \in Transitions(incidents[i].status),
           AgentTransition(i, target, key, at, body)
    PROVE  IngestInv' /\ (~AgentsAppendSources /\ BoundInv => BoundInv')
<1>0. SpannerInv /\ TriggerInv /\ Known /\ DOMAIN inbox = SourceEvents
  BY DEF IngestInv, TriggerInv
<1>1. UNCHANGED <<inbox, outbox>>
  BY DEF AgentTransition
<1>2. SpannerInv'
  <2>1. SpannerTransition("transition", i, target, incidents[i].revision, key, at, body)
    BY DEF AgentTransition
  <2>2. incidents[i].revision \in 0..MaxRevision
    <3>1. Exists(i)
      BY <2>1 DEF SpannerTransition
    <3>2. QED BY <1>0, <3>1 DEF Exists, SpannerInv, Inv, TypeOK, Incident
  <2>3. SpannerNext
    BY <2>1, <2>2 DEF SpannerNext
  <2>4. QED BY <1>0, <2>3, SpannerNextInv
<1>3. /\ Keeps
      /\ \A j \in IncidentIds : Exists(j)' => Exists(j)
      /\ \A j \in IncidentIds : source_events'[j] = source_events[j]
  BY <1>0, AgentFacts
<1>4. TriggerInv'
  BY <1>0, <1>1, <1>3, TriggerStays
<1>5. Known'
  BY <1>0, <1>1, <1>3 DEF Known
<1>6. ~AgentsAppendSources /\ BoundInv => BoundInv'
  BY <1>1, <1>3, BoundStays DEF BoundInv
<1>7. QED BY <1>2, <1>4, <1>5, <1>6 DEF IngestInv

\* Deliveries that end without a result, and deployments, change no table.
LEMMA QuietStep ==
    ASSUME IngestInv, UNCHANGED spannerVars, UNCHANGED <<inbox, outbox>>
    PROVE  IngestInv' /\ (~AgentsAppendSources /\ BoundInv => BoundInv')
<1>1. SpannerInv'
  BY SpannerNextInv DEF IngestInv
<1>2. Keeps /\ \A j \in IncidentIds : Exists(j)' => Exists(j)
  BY QuietKeeps
<1>3. TriggerInv'
  BY <1>2, TriggerStays DEF IngestInv, TriggerInv
<1>4. Known'
  BY DEF IngestInv, Known, spannerVars
<1>5. ~AgentsAppendSources /\ BoundInv => BoundInv'
  BY <1>2, BoundStays DEF BoundInv
<1>6. QED BY <1>1, <1>3, <1>4, <1>5 DEF IngestInv

LEMMA IngestNextInv ==
    IngestInv /\ [IngestNext]_ingestVars =>
        IngestInv' /\ (~AgentsAppendSources /\ BoundInv => BoundInv')
<1> SUFFICES ASSUME IngestInv, [IngestNext]_ingestVars
             PROVE  IngestInv' /\ (~AgentsAppendSources /\ BoundInv => BoundInv')
  OBVIOUS
<1>1. ASSUME NEW s \in SourceEvents, NEW m, NEW delivered, Accept(s, m, delivered)
      PROVE  Ingest(s)
  BY <1>1 DEF Accept, Ingest
<1>2. ASSUME NEW m \in FaultPipelineMode, SwitchMode(m)
      PROVE  UNCHANGED spannerVars /\ UNCHANGED <<inbox, outbox>>
  BY <1>2 DEF SwitchMode
<1>3. CASE UNCHANGED ingestVars
  BY <1>3, QuietStep DEF ingestVars, spannerVars
<1>4. ASSUME NEW s \in SourceEvents,
             \/ Receive(s)
             \/ \E delivered \in BOOLEAN :
                  \/ \E m \in {"shadow", "canonical"} : Accept(s, m, delivered)
                  \/ AcceptLegacy(s, delivered)
             \/ \E m \in FaultPipelineMode : Refuse(s, m)
      PROVE  IngestInv' /\ (~AgentsAppendSources /\ BoundInv => BoundInv')
  <2>1. CASE Receive(s)
    BY <2>1, QuietStep DEF Receive
  <2>2. ASSUME NEW delivered \in BOOLEAN, AcceptLegacy(s, delivered)
        PROVE  IngestInv' /\ (~AgentsAppendSources /\ BoundInv => BoundInv')
    BY <2>2, QuietStep DEF AcceptLegacy
  <2>3. ASSUME NEW m \in FaultPipelineMode, Refuse(s, m)
        PROVE  IngestInv' /\ (~AgentsAppendSources /\ BoundInv => BoundInv')
    BY <2>3, QuietStep DEF Refuse
  <2>4. ASSUME NEW delivered \in BOOLEAN, NEW m \in {"shadow", "canonical"},
               Accept(s, m, delivered)
        PROVE  IngestInv' /\ (~AgentsAppendSources /\ BoundInv => BoundInv')
    BY <1>1, <2>4, IngestStep
  <2>5. QED BY <1>4, <2>1, <2>2, <2>3, <2>4
<1>5. QED
  BY <1>2, <1>3, <1>4, AgentStep, QuietStep DEF IngestNext

LEMMA IngestInitInv == IngestInit => IngestInv /\ BoundInv
<1> SUFFICES ASSUME IngestInit PROVE IngestInv /\ BoundInv
  OBVIOUS
<1>1. SpannerInv
  BY SpannerInitInv DEF IngestInit
<1>2. \A i \in IncidentIds : ~Exists(i) /\ source_events[i] = {}
  BY DEF IngestInit, SpannerInit, Init, Exists
<1>3. /\ DOMAIN inbox = SourceEvents /\ outbox = {}
      /\ \A s \in SourceEvents : inbox[s] = NoRow /\ inbox[s].disposition = "none"
  BY DEF IngestInit, NoRow
<1>4. TriggerInv
  BY <1>2, <1>3 DEF TriggerInv, OneTriggerPerIncident
<1>5. QED BY <1>1, <1>2, <1>3, <1>4 DEF IngestInv, Known, BoundInv, Bound

-----------------------------------------------------------------------------
\* Every incident triggers the agents exactly once, for the event that created
\* it, whatever pushes are repeated, answered, lost or refused and whatever modes
\* they are handled in (SpannerEventIngestRepository.ingest writes incident,
\* Inbox row and outbox row in one transaction).
THEOREM OneTrigger == IngestSpec => []OneTriggerPerIncident
<1>1. IngestInv => OneTriggerPerIncident
  BY DEF IngestInv, TriggerInv
<1>2. QED BY <1>1, IngestInitInv, IngestNextInv, PTL DEF IngestSpec

\* If agents do not copy associated events into the aggregate, an exact
\* redelivery passes every consistency check of ingest and is acknowledged
\* (_result_matches_mode), whatever happened to its incident since.  Without the
\* hypothesis the run ingest_appended_sources shows a redelivery that is refused.
THEOREM ReplayAcknowledged ==
    ASSUME ~AgentsAppendSources
    PROVE  IngestSpec => []ExactReplayAcknowledged
<1>1. IngestInv /\ BoundInv /\ [IngestNext]_ingestVars => (IngestInv /\ BoundInv)'
  BY IngestNextInv
<1>2. IngestInv /\ BoundInv => ExactReplayAcknowledged
  BY DEF BoundInv, Bound, ExactReplayAcknowledged, ReplayConsistent, ResultMatches
<1>3. QED BY <1>1, <1>2, IngestInitInv, PTL DEF IngestSpec
===============================================================================
