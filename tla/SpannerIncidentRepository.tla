---------------------- MODULE SpannerIncidentRepository ----------------------
(***************************************************************************)
(* SpannerIncidentRepository of telco_cloud.  Where the contract scans     *)
(* every incident for an unsettled match, this repository keeps an index,  *)
(* CanonicalIncidentActiveKeysV2, from correlation keys and source events  *)
(* to the one unsettled incident that holds them, and every transaction    *)
(* has to keep the index in step with the incidents.  The specification is *)
(* shown to implement the contract, Spec of IncidentRepository.            *)
(*                                                                         *)
(* A call is one read-write transaction.  It reads its clock before the    *)
(* transaction starts, so its reading may be older than what it overwrites.*)
(* Mutations are buffered: a read sees the state before the transaction.   *)
(***************************************************************************)
EXTENDS IncidentRepository

CONSTANT NoOwner    \* an active key no incident holds

ASSUME SpannerAssumption == NoOwner \notin IncidentIds

VARIABLE activeKeys    \* CanonicalIncidentActiveKeysV2

spannerVars == <<incidents, source_events, idempotency, history, activeKeys>>

SourceKeys(sources) == { <<"source", s>> : s \in sources }
CorrelationKey(key) == IF key = NoKey THEN {} ELSE {<<"correlation", key>>}
ActiveKey == SourceKeys(SourceEvents) \cup { <<"correlation", k>> : k \in CorrelationKeys }

\* _candidate_active_keys
CandidateKeys(key, sources) == CorrelationKey(key) \cup SourceKeys(sources)

-----------------------------------------------------------------------------
\* The incidents that hold one of the keys.
Owners(keys) == { activeKeys[k] : k \in keys } \ {NoOwner}

\* _find_active_for_keys_tx returns incident i (its owner must be unsettled,
\* otherwise "active-key index is inconsistent") ...
FindsActive(keys, i) == Owners(keys) = {i} /\ IsActive(i)

\* ... or None.
FindsNone(keys) == Owners(keys) = {}

\* _acquire_active_keys_tx: raises ActiveIncidentConflictError if another
\* incident holds one of the keys, else inserts the missing ones.
Acquire(i, keys) ==
    /\ Owners(keys) \subseteq {i}
    /\ activeKeys' = [k \in ActiveKey |-> IF k \in keys THEN i ELSE activeKeys[k]]

\* _release_active_keys_tx
Release(i) ==
    activeKeys' = [k \in ActiveKey |->
        IF activeKeys[k] = i THEN NoOwner ELSE activeKeys[k]]

\* Mutant of MoveKeys: a reactivated incident asks only for its own source
\* events, not for the associations it gained by correlation.
MoveKeysAggregateOnly(i, successor) ==
    LET wasSettled == incidents[i].status \in SettledStatuses
        isSettled == successor.status \in SettledStatuses
        keys == CandidateKeys(successor.correlation_key,
                              successor.body.source_event_ids)
    IN  \/ wasSettled /\ ~isSettled /\ FindsNone(keys) /\ Acquire(i, keys)
        \/ ~wasSettled /\ isSettled /\ Release(i)
        \/ ~wasSettled /\ ~isSettled
             /\ Acquire(i, SourceKeys(successor.body.source_event_ids))
        \/ wasSettled /\ isSettled /\ UNCHANGED activeKeys

\* Mutant of MoveKeys: reactivation forgets the correlation key.
MoveKeysNoCorrelation(i, successor) ==
    LET wasSettled == incidents[i].status \in SettledStatuses
        isSettled == successor.status \in SettledStatuses
        keys == SourceKeys(source_events[i] \cup successor.body.source_event_ids)
    IN  \/ wasSettled /\ ~isSettled /\ FindsNone(keys) /\ Acquire(i, keys)
        \/ ~wasSettled /\ isSettled /\ Release(i)
        \/ ~wasSettled /\ ~isSettled
             /\ Acquire(i, SourceKeys(successor.body.source_event_ids))
        \/ wasSettled /\ isSettled /\ UNCHANGED activeKeys

\* The active-key part of _commit_transition_tx.  A settled incident that is
\* found to hold one of its keys makes the index inconsistent, so reactivation
\* goes on only if no incident at all is found.
MoveKeys(i, successor) ==
    LET wasSettled == incidents[i].status \in SettledStatuses
        isSettled == successor.status \in SettledStatuses
        keys == CandidateKeys(successor.correlation_key,
                              source_events[i] \cup successor.body.source_event_ids)
    IN  \/ wasSettled /\ ~isSettled /\ FindsNone(keys) /\ Acquire(i, keys)
        \/ ~wasSettled /\ isSettled /\ Release(i)
        \/ ~wasSettled /\ ~isSettled
             /\ Acquire(i, SourceKeys(successor.body.source_event_ids))
        \/ wasSettled /\ isSettled /\ UNCHANGED activeKeys

-----------------------------------------------------------------------------
SpannerInit == Init /\ activeKeys = [k \in ActiveKey |-> NoOwner]

\* create
SpannerCreate(c, key, at) ==
    LET scope == <<"create", c.id, key>>
        keys == CandidateKeys(c.correlation_key, c.source_event_ids)
    IN  /\ IsNew(scope)
        /\ ~Exists(c.id)
        /\ FindsNone(keys)
        /\ CanRegister(c.id, c.source_event_ids)
        /\ Acquire(c.id, keys)
        /\ CommitCreate(scope, c.id, NewIncident(c, at), c.source_event_ids)

\* _create_or_correlate_tx, an unsettled incident was found
SpannerCorrelate(c, key, i) ==
    LET scope == <<"create_or_correlate", c.id, key>>
    IN  /\ IsNew(scope)
        /\ FindsActive(CandidateKeys(c.correlation_key, c.source_event_ids), i)
        /\ CanRegister(i, c.source_event_ids)
        /\ Acquire(i, SourceKeys(c.source_event_ids))
        /\ source_events' = [source_events EXCEPT ![i] = @ \cup c.source_event_ids]
        /\ Remember(scope, c.source_event_ids, i, incidents[i])
        /\ UNCHANGED <<incidents, history>>

\* _create_or_correlate_tx, none was found
SpannerCreateUncorrelated(c, key, at) ==
    LET scope == <<"create_or_correlate", c.id, key>>
        keys == CandidateKeys(c.correlation_key, c.source_event_ids)
    IN  /\ IsNew(scope)
        /\ FindsNone(keys)
        /\ ~Exists(c.id)
        /\ CanRegister(c.id, c.source_event_ids)
        /\ Acquire(c.id, keys)
        /\ CommitCreate(scope, c.id, NewIncident(c, at), c.source_event_ids)

\* import_detected_snapshot
SpannerImport(c, associations, key, at) ==
    LET scope == <<"import_detected_snapshot", c.id, key>>
        keys == CandidateKeys(c.correlation_key, associations)
    IN  /\ IsNew(scope)
        /\ c.source_event_ids \subseteq associations
        /\ ~Exists(c.id)
        /\ CanRegister(c.id, associations)
        /\ FindsNone(keys)
        /\ Acquire(c.id, keys)
        /\ CommitCreate(scope, c.id, NewIncident(c, at), associations)

\* transition and save
SpannerTransition(op, i, target, expected, key, at, body) ==
    LET scope == <<op, i, key>>
        successor == Successor(incidents[i], target, at, body)
    IN  /\ IsNew(scope)
        /\ Exists(i)
        /\ incidents[i].revision = expected
        /\ expected < MaxRevision
        /\ TransitionAllowed(incidents[i], target, at, body)
        /\ CanRegister(i, body.source_event_ids)
        /\ MoveKeys(i, successor)
        /\ CommitTransition(scope, i, successor)

SpannerNext ==
    \/ \E c \in Candidate, key \in Keys, at \in Times :
         \/ SpannerCreate(c, key, at)
         \/ SpannerCreateUncorrelated(c, key, at)
         \/ \E associations \in SUBSET SourceEvents :
              SpannerImport(c, associations, key, at)
    \/ \E c \in Candidate, key \in Keys, i \in IncidentIds : SpannerCorrelate(c, key, i)
    \/ \E i \in IncidentIds, key \in Keys, at \in Times, op \in {"transition", "save"} :
         \E target \in Transitions(incidents[i].status), expected \in 0..MaxRevision :
            \E body \in Bodies :
               SpannerTransition(op, i, target, expected, key, at, body)

SpannerSpec == SpannerInit /\ [][SpannerNext]_spannerVars

-----------------------------------------------------------------------------
\* The keys an unsettled incident must hold: its correlation key and every
\* source event associated with it, however it came to be associated.
HeldKeys(i) == CandidateKeys(incidents[i].correlation_key, source_events[i])

\* The index is exact: an unsettled incident holds all of its keys and a
\* settled or missing one holds none, so no lookup ever fails with
\* "active-key index is inconsistent" and no stale row shadows a new incident.
ActiveKeysExact ==
    \A i \in IncidentIds :
        { k \in ActiveKey : activeKeys[k] = i } = IF IsActive(i) THEN HeldKeys(i) ELSE {}

\* The keys of one incident never exceed the limit _release_active_keys_tx
\* reads under, so settling an incident cannot fail with "persisted active-key
\* capacity exceeded".
ReleaseWithinLimit ==
    \A i \in IncidentIds :
        Cardinality({ k \in ActiveKey : activeKeys[k] = i }) <= MaxSourceEvents + 1

\* What is stored never makes a later call fail: settling an incident stays
\* within its limit, no source event has two owners, the audit trail is
\* unbroken, an exact retry finds a result that was committed, and a repeated
\* import passes its consistency checks whatever happened in between.
LaterCallsSucceed ==
    /\ ReleaseWithinLimit /\ SourceEventOwnership /\ AuditTrail
    /\ ReplayIsCommitted /\ ImportReplayConsistent

\* Deciding from the index alone, the Spanner repository commits exactly what
\* the contract allows: every transaction is a step of IncidentRepository.
RepositoryContract == Spec
===============================================================================
