---------------------- MODULE DuckDbIncidentRepository ----------------------
(* The local profile's incident store.  Each call takes the asyncio lock and   *)
(* the process-wide path lock, opens a connection and runs its statements one  *)
(* by one in a DuckDB transaction; an exception rolls back, a crash loses the  *)
(* transaction, and the caller retries with the same idempotency key.  The     *)
(* store may be new, a version 1.0 database that has to be migrated, or a      *)
(* version 1.1 one whose oldest incidents never had association rows.          *)
(*                                                                             *)
(* A status is settled or not, an incident is its correlation key and source   *)
(* events; what statuses and bodies may follow each other is                   *)
(* IncidentStateMachine's, the operations as atomic steps IncidentRepository's.*)
EXTENDS Naturals, FiniteSets

CONSTANTS
    Ids,           \* incident ids
    Sources,       \* source event ids
    Keys,          \* correlation keys
    NoCorrelation, \* correlation_key is None
    Callers,       \* tasks that call the repository
    StoreRequests, \* [op, id, ikey, corr, srcs, expected, settled, safe] callers may send
    Stores,        \* databases the profile may find on disk
    MaxSources,    \* MAX_INCIDENT_SOURCE_EVENTS
    MaxCrashes,    \* bound: process crashes
    MaxRevision,   \* bound: transitions of one incident
    Nobody         \* the lock is free

\* _idempotency_key: a write is named by its operation, its incident and its key.
Scope(q) == <<q.op, q.id, q.ikey>>

\* The tables: incident rows, association rows (complete: with provenance), audit
\* rows and idempotency rows, which keep the request and the revision it was told.
Tables ==
    [version : {"none", "1.0", "1.1"},
     rows : [Ids -> [exists : BOOLEAN, settled : BOOLEAN, rev : Nat,
                     corr : Keys \cup {NoCorrelation}, srcs : SUBSET Sources]],
     assoc : SUBSET [id : Ids, src : Sources, complete : BOOLEAN],
     audit : SUBSET [id : Ids, rev : Nat],
     idem : SUBSET [scope : {Scope(q) : q \in StoreRequests}, request : StoreRequests, id : Ids, rev : Nat],
     telemetry : BOOLEAN]

\* The events an incident owns, whether all of its payload is among them, and whether
\* a create or a transition of it was committed: then it is not, or no longer, older
\* than the association table.
AssociatedIn(t, i) == { a.src : a \in { b \in t.assoc : b.id = i } }
Tracked(t, i) == t.rows[i].srcs \subseteq AssociatedIn(t, i)
Written(t, i) == \E r \in t.idem : r.id = i /\ r.request.op # "create_or_correlate"

\* The four tables tell one story: an incident at revision n has the audit rows
\* 0..n and, once it is written, an association row for each event of its payload;
\* an idempotency row names an incident and a revision that are there.
Agree(t) ==
    /\ \A i \in Ids : IF t.rows[i].exists
                      THEN /\ { a.rev : a \in { b \in t.audit : b.id = i } } = 0..t.rows[i].rev
                           /\ Written(t, i) => Tracked(t, i)
                      ELSE \A a \in t.audit : a.id # i
    /\ \A r \in t.idem : r.scope = Scope(r.request) /\ t.rows[r.id].exists /\ r.rev <= t.rows[r.id].rev
    /\ \A r, s \in t.idem : r.scope = s.scope => r = s

\* Two different unsettled incidents.
Unsettled(t) == { i \in Ids : t.rows[i].exists /\ ~t.rows[i].settled }
Pairs(t) == { p \in Unsettled(t) \X Unsettled(t) : p[1] # p[2] }

\* They share no correlation key, and no event of their payloads.
KeysApart(t) ==
    \A p \in Pairs(t) : t.rows[p[1]].corr = NoCorrelation \/ t.rows[p[1]].corr # t.rows[p[2]].corr
Shared(t, p) == t.rows[p[1]].srcs \cap t.rows[p[2]].srcs
EventsApart(t) == \A p \in Pairs(t) : Shared(t, p) = {}

\* No source event has two owners and no association lacks its provenance.
Migratable(t) == /\ \A a, b \in t.assoc : a.src = b.src => a.id = b.id
                 /\ \A a \in t.assoc : a.complete

\* What the constants must satisfy.
DuckDbAssumption ==
    /\ MaxSources \in Nat /\ MaxCrashes \in Nat /\ MaxRevision \in Nat
    /\ Nobody \notin Callers
    /\ \A q \in StoreRequests : /\ q.op \in {"create", "create_or_correlate", "transition", "get"}
                                /\ q.id \in Ids /\ q.corr \in Keys \cup {NoCorrelation}
                                /\ q.srcs \subseteq Sources /\ q.expected \in Nat
                                /\ q.settled \in BOOLEAN /\ q.safe \in BOOLEAN
    /\ Stores \subseteq Tables
    /\ \A t \in Stores : Agree(t) /\ KeysApart(t) /\ EventsApart(t) /\ (t.version = "1.1" => Migratable(t))

Missing == [exists |-> FALSE, settled |-> FALSE, rev |-> 0, corr |-> NoCorrelation, srcs |-> {}]

VARIABLES
    db,      \* the durable tables: version, rows, assoc, audit, idem, telemetry
    work,    \* the tables as the open transaction sees them
    stage,   \* the statement the open transaction executes next
    target,  \* the incident the transaction decided to write
    lock,    \* the task that holds asyncio lock and path lock
    call,    \* each task's request
    answer,  \* each task's answer: pending, ok with id and revision, or an error
    open,    \* the repository object exists: its schema was ensured
    crashes

vars == <<db, work, stage, target, lock, call, answer, open, crashes>>

Pending == [kind |-> "pending"]
Failed == [kind |-> "error"]
Ok(i, rev) == [kind |-> "ok", id |-> i, rev |-> rev]

Init ==
    /\ db \in Stores /\ work = db /\ stage = "none" /\ target \in Ids
    /\ lock = Nobody /\ open = FALSE /\ crashes = 0
    /\ call \in [Callers -> StoreRequests]
    /\ answer = [c \in Callers |-> Pending]

----------------------------------------------------------------------------
(* Opening the store *)

\* _ensure_repository_schema: unique owner index, NOT NULL provenance, version.
Migrated(t) == [t EXCEPT !.version = "1.1"]

\* DuckDbIncidentRepository(ensure_schema=True), one transaction.
OpenEnsuring ==
    /\ ~open /\ lock = Nobody
    /\ db.version \in {"none", "1.0", "1.1"} /\ Migratable(db)
    /\ db' = Migrated(db) /\ work' = db' /\ open' = TRUE
    /\ UNCHANGED <<stage, target, lock, call, answer, crashes>>

\* ensure_schema=False: read-only validation, the version must be current.
OpenValidating ==
    /\ ~open /\ lock = Nobody
    /\ db.version = "1.1" /\ \A a \in db.assoc : a.complete
    /\ open' = TRUE
    /\ UNCHANGED <<db, work, stage, target, lock, call, answer, crashes>>

\* initialize_database: schema, then the telemetry tables that are missing, in
\* one transaction; a bad row in a CSV rolls all of it back.
InitializeDatabase ==
    /\ ~open /\ lock = Nobody
    /\ Migratable(db)
    /\ db' = [Migrated(db) EXCEPT !.telemetry = TRUE] /\ work' = db'
    /\ UNCHANGED <<stage, target, lock, call, answer, open, crashes>>

\* initialize_database(reset=True): every table is dropped first.
ResetDatabase ==
    /\ ~open /\ lock = Nobody /\ db.rows # [i \in Ids |-> Missing]
    /\ answer = [c \in Callers |-> Pending]
    /\ db' = [version |-> "1.1", rows |-> [i \in Ids |-> Missing], assoc |-> {}, audit |-> {},
              idem |-> {}, telemetry |-> TRUE]
    /\ work' = db'
    /\ UNCHANGED <<stage, target, lock, call, answer, open, crashes>>

----------------------------------------------------------------------------
(* One call *)

\* The tables the open transaction reads, and the associations of an incident.
Rows == work.rows
AssociatedTo(i) == AssociatedIn(work, i)
Owner(s) == { a.id : a \in { b \in work.assoc : b.src = s } }

\* _find_active_locked: by association row, by correlation key, and by the
\* source events of the payload for incidents older than the association table.
ActiveMatches(corr, srcs, except) ==
    { i \in Ids \ except : Rows[i].exists /\ ~Rows[i].settled
        /\ ((corr # NoCorrelation /\ Rows[i].corr = corr) \/ srcs \cap AssociatedTo(i) # {}
            \/ srcs \cap Rows[i].srcs # {}) }

\* Write metadata or a payload that is empty, too long, too deep, too large or
\* against the privacy policy: refused before any lock is taken.
RefuseUnsafe(c) ==
    /\ open /\ answer[c] = Pending /\ ~call[c].safe
    /\ answer' = [answer EXCEPT ![c] = Failed]
    /\ UNCHANGED <<db, work, stage, target, lock, call, open, crashes>>

\* get, list and history read one committed state under the locks; a persisted
\* record is parsed as strictly as a new one.
Get(c) ==
    /\ open /\ lock = Nobody /\ answer[c] = Pending /\ call[c].op = "get" /\ call[c].safe
    /\ answer' = [answer EXCEPT ![c] = IF db.rows[call[c].id].exists
                                       THEN Ok(call[c].id, db.rows[call[c].id].rev) ELSE Failed]
    /\ UNCHANGED <<db, work, stage, target, lock, call, open, crashes>>

\* The locks are taken, the connection opened, BEGIN.
Begin(c) ==
    /\ open /\ lock = Nobody /\ answer[c] = Pending /\ call[c].op # "get" /\ call[c].safe
    /\ lock' = c /\ work' = db /\ stage' = "decide"
    /\ UNCHANGED <<db, target, call, answer, open, crashes>>

\* Leave the transaction: rolled back or committed, locks released.
Finish(c, reply) ==
    /\ answer' = [answer EXCEPT ![c] = reply] /\ lock' = Nobody /\ stage' = "none"

\* _replay: the same scope was committed; same fingerprint or conflict.
Replay(c) ==
    /\ lock = c /\ stage = "decide"
    /\ \E r \in work.idem :
         /\ r.scope = Scope(call[c])
         /\ Finish(c, IF r.request = call[c] THEN Ok(r.id, r.rev) ELSE Failed)
    /\ work' = db /\ UNCHANGED <<db, target, call, open, crashes>>

IsNew(c) == \A r \in work.idem : r.scope # Scope(call[c])

\* create or create_or_correlate without an unsettled match.
DecideCreate(c) ==
    /\ lock = c /\ stage = "decide" /\ IsNew(c) /\ call[c].op # "transition"
    /\ ActiveMatches(call[c].corr, call[c].srcs, {}) = {} /\ ~Rows[call[c].id].exists
    /\ stage' = "incident" /\ target' = call[c].id
    /\ UNCHANGED <<db, work, lock, call, answer, open, crashes>>

\* create_or_correlate with exactly one unsettled match: it only gains events.
DecideCorrelate(c) ==
    /\ lock = c /\ stage = "decide" /\ IsNew(c) /\ call[c].op = "create_or_correlate"
    /\ \E i \in Ids : /\ ActiveMatches(call[c].corr, call[c].srcs, {}) = {i}
                      /\ target' = i
    /\ stage' = "associate"
    /\ UNCHANGED <<db, work, lock, call, answer, open, crashes>>

\* _require_reactivation_keys_locked: a settled incident comes back only if no
\* unsettled one took over its correlation key or its associated events.
MayReactivate(c) ==
    LET i == call[c].id
    IN  (Rows[i].settled /\ ~call[c].settled)
          => ActiveMatches(Rows[i].corr, AssociatedTo(i), {i}) = {}

DecideTransition(c) ==
    /\ lock = c /\ stage = "decide" /\ IsNew(c) /\ call[c].op = "transition"
    /\ Rows[call[c].id].exists /\ Rows[call[c].id].rev = call[c].expected
    /\ call[c].expected < MaxRevision
    /\ MayReactivate(c)
    /\ stage' = "incident" /\ target' = call[c].id
    /\ UNCHANGED <<db, work, lock, call, answer, open, crashes>>

\* Already exists, not found, revision or active conflict, several matches.
DecideRefused(c) ==
    /\ lock = c /\ stage = "decide" /\ IsNew(c)
    /\ LET q == call[c]
           matches == ActiveMatches(q.corr, q.srcs, {})
       IN  CASE q.op = "create" -> Rows[q.id].exists \/ matches # {}
             [] q.op = "create_or_correlate" -> Cardinality(matches) > 1
                                                 \/ (matches = {} /\ Rows[q.id].exists)
             [] q.op = "transition" -> ~Rows[q.id].exists \/ Rows[q.id].rev # q.expected
                                         \/ ~MayReactivate(c)
    /\ Finish(c, Failed) /\ work' = db
    /\ UNCHANGED <<db, target, call, open, crashes>>

\* The row a transition or a create leaves (with_transition, ManagedIncident).
Successor(c) ==
    IF call[c].op = "transition"
    THEN [Rows[target] EXCEPT !.settled = call[c].settled, !.rev = @ + 1, !.srcs = @ \cup call[c].srcs]
    ELSE [exists |-> TRUE, settled |-> FALSE, rev |-> 0, corr |-> call[c].corr, srcs |-> call[c].srcs]

\* _insert_incident_locked and _update_incident_locked.
WriteIncident(c) ==
    /\ lock = c /\ stage = "incident"
    /\ work' = [work EXCEPT !.rows[target] = Successor(c)]
    /\ stage' = "associate"
    /\ UNCHANGED <<db, target, lock, call, answer, open, crashes>>

\* What the transaction associates: the request's events, or all of a
\* successor's (which gives an old incident its missing rows).
Incoming(c) == IF call[c].op = "transition" THEN Rows[target].srcs ELSE call[c].srcs

\* Capacity, and no event owned by another incident.
CanAssociate(c) ==
    /\ Cardinality(AssociatedTo(target) \cup Incoming(c)) <= MaxSources
    /\ \A s \in Incoming(c) : Owner(s) \subseteq {target}

\* _insert_source_event_associations_locked, ON CONFLICT DO NOTHING.
Associate(c) ==
    /\ lock = c /\ stage = "associate" /\ CanAssociate(c)
    /\ work' = [work EXCEPT !.assoc = @ \cup
                  { [id |-> target, src |-> s, complete |-> TRUE] : s \in Incoming(c) \ AssociatedTo(target) }]
    /\ stage' = IF call[c].op = "create_or_correlate" /\ db.rows[target].exists
                THEN "idempotency" ELSE "audit"
    /\ UNCHANGED <<db, target, lock, call, answer, open, crashes>>

\* Mutant of AssociateRefused: the error returns without a rollback.
AssociateRefusedCommits(c) ==
    /\ lock = c /\ stage = "associate" /\ ~CanAssociate(c)
    /\ Finish(c, Failed) /\ db' = work
    /\ UNCHANGED <<work, target, call, open, crashes>>

\* SourceEventOwnershipConflictError or capacity: ROLLBACK.
AssociateRefused(c) ==
    /\ lock = c /\ stage = "associate" /\ ~CanAssociate(c)
    /\ Finish(c, Failed) /\ work' = db
    /\ UNCHANGED <<db, target, call, open, crashes>>

WriteAudit(c) ==
    /\ lock = c /\ stage = "audit"
    /\ work' = [work EXCEPT !.audit = @ \cup {[id |-> target, rev |-> Rows[target].rev]}]
    /\ stage' = "idempotency"
    /\ UNCHANGED <<db, target, lock, call, answer, open, crashes>>

WriteIdempotency(c) ==
    /\ lock = c /\ stage = "idempotency"
    /\ work' = [work EXCEPT !.idem = @ \cup {[scope |-> Scope(call[c]), request |-> call[c],
                                              id |-> target, rev |-> Rows[target].rev]}]
    /\ stage' = "commit"
    /\ UNCHANGED <<db, target, lock, call, answer, open, crashes>>

\* COMMIT; the answer may still be lost to a crash, but not the other way round.
Commit(c) ==
    /\ lock = c /\ stage = "commit"
    /\ db' = work
    /\ Finish(c, Ok(target, Rows[target].rev))
    /\ UNCHANGED <<work, target, call, open, crashes>>

\* A caller sends another request once it was answered.
CallAgain(c) ==
    /\ open /\ answer[c] # Pending
    /\ \E q \in StoreRequests : call' = [call EXCEPT ![c] = q]
    /\ answer' = [answer EXCEPT ![c] = Pending]
    /\ UNCHANGED <<db, work, stage, target, lock, open, crashes>>

\* The process dies; after COMMIT reached the file but before the answer, too.
Crash ==
    /\ open /\ crashes < MaxCrashes
    /\ crashes' = crashes + 1
    /\ db' \in IF stage = "commit" THEN {db, work} ELSE {db}
    /\ work' = db' /\ stage' = "none" /\ lock' = Nobody /\ open' = FALSE
    /\ answer' = [c \in Callers |-> Pending]
    /\ UNCHANGED <<target, call>>

Next ==
    \/ OpenEnsuring \/ OpenValidating \/ InitializeDatabase \/ ResetDatabase \/ Crash
    \/ \E c \in Callers :
         \/ RefuseUnsafe(c) \/ Get(c)
         \/ Begin(c) \/ Replay(c) \/ DecideCreate(c) \/ DecideCorrelate(c) \/ DecideTransition(c)
         \/ DecideRefused(c) \/ WriteIncident(c) \/ Associate(c) \/ AssociateRefused(c)
         \/ WriteAudit(c) \/ WriteIdempotency(c) \/ Commit(c) \/ CallAgain(c)

Spec == Init /\ [][Next]_vars

----------------------------------------------------------------------------
(* Properties of the durable tables *)

\* Whatever failed or crashed in between, the four tables tell one story.
TablesAgree == Agree(db)

\* Once the schema is 1.1 an event has one owner, its provenance is complete, and
\* two unsettled incidents share no correlation key.  They share an event only if a
\* transition added it to one of them while the other, older than the association
\* table and not written since, has it in its payload alone.
EventsHaveOneIncident ==
    db.version = "1.1" =>
        /\ Migratable(db) /\ KeysApart(db)
        /\ \A p \in Pairs(db) : Shared(db, p) # {} =>
             \E i, j \in {p[1], p[2]} : db.rows[i].rev > 0 /\ Tracked(db, i) /\ ~Tracked(db, j)

\* A caller that was told a revision can rely on it: the row is there.
AnswerIsDurable ==
    \A c \in Callers : answer[c].kind = "ok" =>
        /\ db.rows[answer[c].id].exists
        /\ answer[c].rev <= db.rows[answer[c].id].rev

\* The same write, from whichever task and however often, has one answer.
SameRequestSameAnswer ==
    \A c, d \in Callers :
        (call[c] = call[d] /\ call[c].op # "get" /\ answer[c].kind = "ok" /\ answer[d].kind = "ok") => answer[c] = answer[d]

\* Migration never invents provenance: an association that was incomplete
\* stays so, and blocks the upgrade, until an operator resets the store.
MigrationNeverGuesses ==
    (\E a \in db.assoc : ~a.complete) => db'.assoc = db.assoc \/ db'.assoc = {}
=============================================================================
