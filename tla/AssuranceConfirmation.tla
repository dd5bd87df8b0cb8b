----------------------- MODULE AssuranceConfirmation ------------------------
(* The assurance agent's preview and confirmation flow: the executor that     *)
(* drives an A2A task, the service that scans and confirms, and the two       *)
(* DuckDB tables behind them (pending confirmations and tasks).               *)
(*                                                                            *)
(* The service runs on the agent's event loop and has no suspension point     *)
(* between reading the confirmation and finishing it (DuckDB calls are        *)
(* synchronous, the decision lock is uncontended), so while a confirmation is *)
(* in progress (loop # Idle) no other coroutine runs; but the clock moves and *)
(* the process may die between any two of its commits.  Task states are       *)
(* events on the queue of their task, which the A2A library stores later, one *)
(* transaction each, the tasks in any order, and which a crash loses.  A scan *)
(* opens a new task, so a preview names its task too.                         *)
EXTENDS Naturals, FiniteSets, Sequences

CONSTANTS
    Previews,         \* previews a scan may publish, each with its own task
    Candidates,       \* candidate incidents the detector may find
    Keys,             \* idempotency keys clients put on their decisions
    Idle,             \* the event loop is not inside confirm
    Unclaimed,        \* no decision has been claimed yet
    TTL,              \* challenge_ttl_seconds, in ticks
    Retention,        \* PROCESSING_RECOVERY_RETENTION, in ticks
    PendingCapacity,  \* rows of assurance_pending_confirmations
    TaskCapacity,     \* rows of assurance_a2a_tasks
    MaxTime,          \* bound: last instant of the clock
    MaxRequests,      \* bound: requests clients send
    MaxCrashes        \* bound: restarts of the agent

ASSUME ConfirmationAssumption ==
    /\ TTL \in Nat \ {0} /\ Retention \in Nat
    /\ PendingCapacity \in Nat \ {0} /\ TaskCapacity \in Nat \ {0}
    /\ MaxTime \in Nat /\ MaxRequests \in Nat /\ MaxCrashes \in Nat

VARIABLES
    now,       \* the agent's clock
    record,    \* assurance_pending_confirmations, by preview
    task,      \* assurance_a2a_tasks, by preview: [st, updated]
    events,    \* by task: states published and not stored yet, oldest first
    telemetry, \* what a scan of the data returns now: a version number
    durable,   \* canonical_incident_idempotency: <<candidate, key>>
    incident,  \* candidates that are stored incidents
    loop,      \* the confirmation the event loop is executing, or Idle
    writes,    \* history: incident transactions committed, by preview
    requests,  \* bound: requests sent so far
    crashes    \* bound: restarts so far

vars == <<now, record, task, events, telemetry, durable, incident, loop, writes,
          requests, crashes>>

-----------------------------------------------------------------------------
(* Stored rows.                                                               *)

DecidedStates == {"completed", "rejected", "cancelled", "expired"}
TerminalTaskStates == {"completed", "canceled", "failed"}

(* A decision as the client sends it.                                         *)
Decision == [cand : Candidates, key : Keys, decision : {"CONFIRM", "REJECT"}]

(* A confirmation in progress: how far confirm has come, and what it read.    *)
Confirmation == [at : {"claim", "decide", "finish"}, p : Previews, d : Decision,
                 replay : BOOLEAN, allow : BOOLEAN]

ASSUME MarkersAssumption == Unclaimed \notin Decision /\ Idle \notin Confirmation

(* "none": no such row yet; "evicted": deleted to make room.                  *)
NoRecord == [st |-> "none", cands |-> {}, snapshot |-> 0, claim |-> Unclaimed,
             result |-> "none", expires |-> 0, updated |-> 0]
NoTask == [st |-> "none", updated |-> 0]

Stored(st) == st \notin {"none", "evicted"}

StoredPreviews(rows) == {p \in Previews : Stored(rows[p].st)}

(* find_by_idempotency_key(candidate, key, "create_or_correlate")             *)
HasDurableRow(c, k) == <<c, k>> \in durable

ClaimIsDurable(r) == /\ r.claim # Unclaimed
                     /\ r.claim.decision = "CONFIRM"
                     /\ HasDurableRow(r.claim.cand, r.claim.key)

\* Mutant of SweptAt: the durable write does not protect a claim.
SweptAtAnyClaim(r, t) == r.st \in {"pending", "processing"} /\ r.expires <= t

(* Rows a sweep at instant t turns into expired: pending ones past their      *)
(* expiry, processing ones past it that have no durable incident write, and   *)
(* every processing one past the recovery window.                             *)
SweptAt(r, t) ==
    \/ r.st = "pending" /\ r.expires <= t
    \/ r.st = "processing" /\ r.expires <= t /\ ~ClaimIsDurable(r)
    \/ r.st = "processing" /\ r.expires + Retention <= t

ReconcileExpired(rows, t) ==
    [p \in Previews |-> IF SweptAt(rows[p], t)
                        THEN [rows[p] EXCEPT !.st = "expired", !.updated = t]
                        ELSE rows[p]]

(* DELETE ... WHERE p in evictable ORDER BY updated_at LIMIT count - capacity *)
(* + 1: some oldest rows, the choice among equal times is the database's.     *)
Evictions(rows, evictable, capacity) ==
    LET count == Cardinality(StoredPreviews(rows))
        wanted == IF count >= capacity THEN count - capacity + 1 ELSE 0
        number == IF wanted > Cardinality(evictable) THEN Cardinality(evictable) ELSE wanted
    IN {V \in SUBSET evictable :
          /\ Cardinality(V) = number
          /\ \A v \in V, e \in evictable \ V : rows[v].updated <= rows[e].updated}

Evict(rows, V) == [p \in Previews |-> IF p \in V THEN [rows[p] EXCEPT !.st = "evicted"]
                                      ELSE rows[p]]

(* WHERE state IN ('completed','rejected','cancelled','expired')              *)
EvictableRecords(rows) == {q \in Previews : rows[q].st \in DecidedStates}

(* Ended tasks, and tasks whose confirmation has expired.                     *)
EvictableTasks(swept) == {q \in Previews : \/ task[q].st \in TerminalTaskStates
                                           \/ Stored(task[q].st) /\ swept[q].st = "expired"}

HasRoom(rows, capacity) == Cardinality(StoredPreviews(rows)) < capacity

-----------------------------------------------------------------------------
(* The agent.                                                                 *)

Publish(p, states) == events' = [events EXCEPT ![p] = @ \o states]

Init ==
    /\ now = 0 /\ telemetry = 0 /\ requests = 0 /\ crashes = 0
    /\ record = [p \in Previews |-> NoRecord]
    /\ task = [p \in Previews |-> NoTask]
    /\ events = [p \in Previews |-> <<>>] /\ durable = {} /\ incident = {} /\ loop = Idle
    /\ writes = [p \in Previews |-> 0]

Unused(p) == record[p].st = "none" /\ task[p].st = "none" /\ events[p] = <<>>

Request == /\ loop = Idle /\ requests < MaxRequests /\ requests' = requests + 1

(* AssuranceService.scan with candidates on its page, then                    *)
(* DuckDbPendingConfirmationStore.create: sweep, evict finished rows if the   *)
(* table is full, insert.                                                     *)
ScanWithCandidates(p) ==
    /\ Request /\ Unused(p)
    /\ LET swept == ReconcileExpired(record, now)
       IN \E V \in Evictions(swept, EvictableRecords(swept), PendingCapacity),
             C \in (SUBSET Candidates) \ {{}} :
            /\ HasRoom(Evict(swept, V), PendingCapacity)
            /\ record' = [Evict(swept, V) EXCEPT ![p] =
                 [NoRecord EXCEPT !.st = "pending", !.cands = C, !.snapshot = telemetry,
                                  !.expires = now + TTL, !.updated = now]]
    /\ Publish(p, <<"submitted", "working", "input-required">>)
    /\ UNCHANGED <<now, task, telemetry, durable, incident, loop, writes, crashes>>

(* The table is full of live rows: the transaction, sweep included, is rolled *)
(* back and the task fails.                                                   *)
ScanRefused(p) ==
    /\ Request /\ Unused(p)
    /\ LET swept == ReconcileExpired(record, now)
       IN \A V \in Evictions(swept, EvictableRecords(swept), PendingCapacity) :
            ~HasRoom(Evict(swept, V), PendingCapacity)
    /\ Publish(p, <<"submitted", "working", "failed">>)
    /\ UNCHANGED <<now, record, task, telemetry, durable, incident, loop, writes, crashes>>

(* Requests that leave no confirmation: an empty page or an analysis          *)
(* completes its task; an unusable window, a failing detector or analysis, a  *)
(* message that does not parse, or a confirmation without a task fails it.    *)
ExecuteWithoutConfirmation(p) ==
    /\ Request /\ Unused(p)
    /\ \E end \in {"completed", "failed"} : Publish(p, <<"submitted", "working", end>>)
    /\ UNCHANGED <<now, record, task, telemetry, durable, incident, loop, writes, crashes>>

(* A follow-up message on a stored task that ends before the service touches  *)
(* the confirmation: it does not parse, is no confirmation, the task is       *)
(* finished, the preview is unknown or the binding does not match; or the     *)
(* preview was cancelled, which cancels the task.                             *)
ContinueRefused(p) ==
    /\ Request /\ Stored(task[p].st)
    /\ \/ Publish(p, <<"working", "failed">>)
       \/ record[p].st = "cancelled" /\ Publish(p, <<"working", "canceled">>)
    /\ UNCHANGED <<now, record, task, telemetry, durable, incident, loop, writes, crashes>>

(* AssuranceService.confirm up to the claim: read the record, check the       *)
(* binding, and look up the durable write if the claim is past its expiry.    *)
BeginConfirm(p, d) ==
    /\ Request /\ task[p].st \in {"input-required", "working"}
    /\ Stored(record[p].st) /\ record[p].st # "cancelled" /\ d.cand \in record[p].cands
    /\ loop' = [at |-> "claim", p |-> p, d |-> d, replay |-> FALSE,
                allow |-> /\ record[p].st = "processing" /\ record[p].expires <= now
                          /\ d.decision = "CONFIRM" /\ HasDurableRow(d.cand, d.key)]
    /\ Publish(p, <<"working">>)
    /\ UNCHANGED <<now, record, task, telemetry, durable, incident, writes, crashes>>

Leave(states) == Publish(loop.p, states) /\ loop' = Idle

ClaimExpires(r) == /\ r.expires <= now /\ r.st \in {"pending", "processing"}
                   /\ ~(r.st = "processing" /\ loop.allow)

\* Mutant of SameDecision: the idempotency key is not part of the decision.
SameDecisionAnyKey(r) == r.claim # Unclaimed /\ r.claim.decision = loop.d.decision

(* The claim's fingerprint, candidate, key and decision are the request's.    *)
SameDecision(r) == r.claim = loop.d

(* DuckDbPendingConfirmationStore.claim, and what confirm does with each of   *)
(* its results.                                                               *)
ClaimConfirmation ==
    /\ loop # Idle /\ loop.at = "claim"
    /\ LET p == loop.p  r == record[p]
       IN \/ /\ ClaimExpires(r)
             /\ record' = [record EXCEPT ![p].st = "expired", ![p].updated = now]
             /\ Leave(<<"failed">>)
          \/ /\ ~ClaimExpires(r) /\ r.st = "pending"
             /\ record' = [record EXCEPT ![p].st = "processing", ![p].claim = loop.d,
                                         ![p].updated = now]
             /\ loop' = [loop EXCEPT !.at = "decide"] /\ UNCHANGED events
          \/ /\ ~ClaimExpires(r) /\ r.st # "pending"
             /\ ~SameDecision(r) \/ r.st = "expired"
             /\ Leave(<<"failed">>) /\ UNCHANGED record
          \/ /\ ~ClaimExpires(r) /\ r.st = "processing" /\ SameDecision(r)
             /\ loop' = [loop EXCEPT !.at = "decide"] /\ UNCHANGED <<events, record>>
          \/ /\ r.st \in {"completed", "rejected"} /\ SameDecision(r)
             /\ Leave(<<"completed">>) /\ UNCHANGED record
    /\ UNCHANGED <<now, task, telemetry, durable, incident, writes, requests, crashes>>

(* The decision is a rejection: finish(state = "rejected").                   *)
RejectCandidate ==
    /\ loop # Idle /\ loop.at = "decide" /\ loop.d.decision = "REJECT"
    /\ record' = [record EXCEPT ![loop.p].st = "rejected", ![loop.p].result = "rejected",
                                ![loop.p].updated = now]
    /\ Leave(<<"completed">>)
    /\ UNCHANGED <<now, task, telemetry, durable, incident, writes, requests, crashes>>

(* The rescan or the write fails, or the snapshot has changed since the       *)
(* preview: the task fails, the claim stays.                                  *)
ConfirmFails ==
    /\ loop # Idle /\ loop.at = "decide" /\ loop.d.decision = "CONFIRM"
    /\ Leave(<<"failed">>)
    /\ UNCHANGED <<now, record, task, telemetry, durable, incident, writes, requests, crashes>>

(* Rescan, compare the snapshot, then detector.confirm: create_or_correlate   *)
(* commits the incident and its idempotency row, or replays them.             *)
WriteIncident ==
    /\ loop # Idle /\ loop.at = "decide" /\ loop.d.decision = "CONFIRM"
    /\ telemetry = record[loop.p].snapshot
    /\ LET c == loop.d.cand
           replay == HasDurableRow(c, loop.d.key)
       IN /\ durable' = durable \cup {<<c, loop.d.key>>}
          /\ incident' = incident \cup {c}
          /\ writes' = [writes EXCEPT ![loop.p] = IF replay THEN @ ELSE @ + 1]
          /\ loop' = [loop EXCEPT !.at = "finish", !.replay = replay]
    /\ UNCHANGED <<now, record, task, events, telemetry, requests, crashes>>

(* finish(state = "completed") stores the answer with its outcome.            *)
FinishConfirmation ==
    /\ loop # Idle /\ loop.at = "finish"
    /\ record' = [record EXCEPT ![loop.p].st = "completed", ![loop.p].updated = now,
                    ![loop.p].result = IF loop.replay THEN "replayed" ELSE "written"]
    /\ Leave(<<"completed">>)
    /\ UNCHANGED <<now, task, telemetry, durable, incident, writes, requests, crashes>>

\* Mutant of CancelTask: a confirmation being processed is cancelled too.
CancelTaskClaimed(p) ==
    /\ Request /\ Stored(task[p].st) /\ record[p].st \in {"pending", "processing"}
    /\ record' = [record EXCEPT ![p].st = "cancelled", ![p].updated = now]
    /\ Publish(p, <<"canceled">>)
    /\ UNCHANGED <<now, task, telemetry, durable, incident, loop, writes, crashes>>

(* AssuranceAgentExecutor.cancel: only a pending confirmation is cancelled;   *)
(* otherwise the task is not cancelable and nothing changes.                  *)
CancelTask(p) ==
    /\ Request /\ Stored(task[p].st) /\ record[p].st = "pending"
    /\ record' = [record EXCEPT ![p].st = "cancelled", ![p].updated = now]
    /\ Publish(p, <<"canceled">>)
    /\ UNCHANGED <<now, task, telemetry, durable, incident, loop, writes, crashes>>

(* DuckDbTaskStore.save of the oldest state of a task: sweep, evict finished  *)
(* tasks or tasks whose confirmation expired when a new task meets a full     *)
(* table, upsert.  With no room the transaction is rolled back and the rest   *)
(* of the task's events are lost with the request.                            *)
SaveTask(p) ==
    /\ loop = Idle /\ events[p] # <<>>
    /\ LET swept == ReconcileExpired(record, now)
           exists == Stored(task[p].st)
           choices == IF exists THEN {{}}
                      ELSE Evictions(task, EvictableTasks(swept), TaskCapacity)
       IN \E V \in choices :
            IF exists \/ HasRoom(Evict(task, V), TaskCapacity)
            THEN /\ record' = swept
                 /\ task' = [Evict(task, V) EXCEPT ![p] = [st |-> Head(events[p]), updated |-> now]]
                 /\ events' = [events EXCEPT ![p] = Tail(@)]
            ELSE /\ events' = [events EXCEPT ![p] = <<>>]
                 /\ task' = [task EXCEPT ![p].st = "evicted"]
                 /\ UNCHANGED record
    /\ UNCHANGED <<now, telemetry, durable, incident, loop, writes, requests, crashes>>

(* New measurements change what a scan of the same window returns.            *)
ImportTelemetry == /\ telemetry = 0 /\ telemetry' = 1
                   /\ UNCHANGED <<now, record, task, events, durable, incident, loop,
                                  writes, requests, crashes>>

Tick == /\ now < MaxTime /\ now' = now + 1
        /\ UNCHANGED <<record, task, events, telemetry, durable, incident, loop, writes,
                       requests, crashes>>

(* The process dies: what is committed stays, the rest is gone.               *)
Crash == /\ crashes < MaxCrashes /\ crashes' = crashes + 1
         /\ loop' = Idle /\ events' = [p \in Previews |-> <<>>]
         /\ UNCHANGED <<now, record, task, telemetry, durable, incident, writes, requests>>

Next ==
    \/ \E p \in Previews : \/ ScanWithCandidates(p) \/ ScanRefused(p)
                           \/ ExecuteWithoutConfirmation(p) \/ ContinueRefused(p)
                           \/ CancelTask(p) \/ SaveTask(p)
                           \/ \E d \in Decision : BeginConfirm(p, d)
    \/ ClaimConfirmation \/ RejectCandidate \/ ConfirmFails \/ WriteIncident
    \/ FinishConfirmation \/ ImportTelemetry \/ Tick \/ Crash

Spec == Init /\ [][Next]_vars
-----------------------------------------------------------------------------
(* Properties.                                                                *)

(* What has become of a preview, for ConfirmationContract.                    *)
OutcomeOf(r) ==
    CASE r.st = "none" -> "none"
      [] r.st \in {"pending", "processing"} -> IF ClaimIsDurable(r) THEN "written" ELSE "open"
      [] r.st \in {"completed", "rejected", "cancelled", "expired", "evicted"} ->
           CASE r.result = "rejected" -> "rejected"
             [] r.result \in {"written", "replayed"} -> "confirmed"
             [] OTHER -> "closed"

Contract == INSTANCE ConfirmationContract
            WITH outcome <- [p \in Previews |-> OutcomeOf(record[p])], commits <- writes

(* The two tables and the executor, with crashes, expiry, eviction and        *)
(* retries, implement the contract: one decision and at most one incident     *)
(* commit per preview (AssuranceService.confirm, claim, finish).              *)
ImplementsContract == Contract!Spec

(* A confirmation stored as completed has its incident and its idempotency    *)
(* row: finish runs only after create_or_correlate has committed.             *)
CompletedIsDurable ==
    \A p \in Previews : record[p].st = "completed" =>
        /\ ClaimIsDurable(record[p])
        /\ record[p].claim.cand \in incident

(* An incident commit is never lost from sight: until its answer is stored,   *)
(* the preview it was made for is still processing, or was given up after its *)
(* expiry; it is never pending, rejected or cancelled.                        *)
CommitIsTraceable ==
    \A p \in Previews : writes[p] > 0 =>
        \/ record[p].st \in {"processing", "completed", "evicted"}
        \/ record[p].st = "expired" /\ record[p].expires <= now

(* The sweep that every new preview and every stored task runs never gives up *)
(* a claimed confirmation whose incident is durable before the recovery       *)
(* window after its expiry is over (_reconcile_expired_confirmations).        *)
SweepKeepsRecoverable ==
    [][\A p \in Previews :
         (/\ loop = Idle /\ loop' = Idle /\ record[p].st = "processing"
          /\ ClaimIsDurable(record[p]) /\ record'[p].st # "processing")
         => now >= record[p].expires + Retention]_vars

(* Making room removes only what is finished: a pending or processing         *)
(* confirmation is never deleted, nor a task whose confirmation can still be  *)
(* decided unless the task itself has ended (create, DuckDbTaskStore.save).   *)
LiveIsNotEvicted ==
    [][\A p \in Previews :
         /\ record'[p].st = "evicted" /\ record[p].st # "evicted"
              => record[p].st \in DecidedStates \/ SweptAt(record[p], now)
         /\ task'[p].st = "evicted" /\ Stored(task[p].st)
              => task[p].st \in TerminalTaskStates \/ record'[p].st = "expired"]_vars

(* Both tables stay within their capacity whatever requests, crashes and late *)
(* task events come.                                                          *)
WithinCapacity == /\ Cardinality(StoredPreviews(record)) <= PendingCapacity
                  /\ Cardinality(StoredPreviews(task)) <= TaskCapacity

(* Nothing the two tables promised is lost, and neither grows: a completed     *)
(* confirmation is durable, a commit can be traced to its preview, and both    *)
(* tables keep their capacity (finish, claim, create and save of the stores).  *)
CommitsAreAccountedFor == CompletedIsDurable /\ CommitIsTraceable /\ WithinCapacity

(* Neither the expiry sweep nor the making of room gives up a confirmation     *)
(* that can still be decided or recovered (_reconcile_expired_confirmations,   *)
(* DuckDbTaskStore.save).                                                      *)
RecoverableIsKept == SweepKeepsRecoverable /\ LiveIsNotEvicted
=============================================================================
