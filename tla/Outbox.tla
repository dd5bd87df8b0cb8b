-------------------------------- MODULE Outbox --------------------------------
(***************************************************************************)
(* The canonical incident outbox (CanonicalIncidentOutboxV2) and the lease *)
(* protocol SpannerOutboxRepository runs on it.                            *)
(*                                                                         *)
(* Every repository call reads its own clock first (trusted_now) and only  *)
(* then opens the transaction that uses the reading, so a call is two      *)
(* steps: Begin... reads the clock, Commit... runs the whole transaction.  *)
(* Between the two, other workers commit and time passes.                  *)
(*                                                                         *)
(* The delivery worker itself is not part of the repository.  It is        *)
(* modelled as the most permissive caller: it may finish any lease it was  *)
(* ever handed, repeatedly and late, it may forget everything (crash), and *)
(* it may never call back.                                                 *)
(***************************************************************************)
EXTENDS Integers, FiniteSets

CONSTANTS
    Events,          \* outbox event ids; numbers, since claim orders by id
    Workers,         \* lease owners
    NoOwner,         \* lease_owner of a row that is not leased
    ClaimLimit,      \* LIMIT of one claim
    LeaseSeconds,    \* length of a lease
    RetryDelay,      \* delay_seconds of a retry
    MaxAttempts,     \* max_attempts passed to claim
    MaxTime          \* bound on the clock (model checking only)

ASSUME OutboxAssumption ==
    /\ Events \subseteq Nat
    /\ NoOwner \notin Workers
    /\ ClaimLimit \in Nat \ {0}
    /\ LeaseSeconds \in Nat \ {0}
    /\ RetryDelay \in Nat
    /\ MaxAttempts \in Nat \ {0}
    /\ MaxTime \in Nat

VARIABLES
    row,       \* row[e]: the outbox row of event e, or Absent
    held,      \* held[w]: the <<event, attempt>> leases worker w was handed
    call,      \* call[w]: the repository call w has in flight
    now        \* the clock

vars == <<row, held, call, now>>

OutboxStatus == {"PENDING", "LEASED", "DELIVERED", "DEAD"}
Absent == [status |-> "ABSENT"]
NoTime == -1
Idle == [op |-> "idle"]

FinishActions == {"delivered", "retry", "dead"}

\* The columns of a row that the lease protocol reads and writes.
OutboxRow ==
    [status : OutboxStatus, attempts : 0..MaxAttempts,
     available_at : Nat, published_at : Nat \cup {NoTime},
     lease_owner : Workers \cup {NoOwner}, lease_expires_at : Nat \cup {NoTime}]

\* OutboxRecord's validator: exactly the LEASED rows carry an owner and an
\* expiry, exactly the DELIVERED rows a publication time.
Valid(r) ==
    /\ (r.status = "LEASED") <=> (r.lease_owner # NoOwner)
    /\ (r.status = "LEASED") <=> (r.lease_expires_at # NoTime)
    /\ (r.status = "DELIVERED") <=> (r.published_at # NoTime)

OutboxRecord == { r \in OutboxRow : Valid(r) }

Call ==
    {Idle} \cup [op : {"claim"}, at : Nat]
           \cup [op : FinishActions, at : Nat, event : Events, attempt : Nat]

-----------------------------------------------------------------------------
\* Mutant of Eligible: an expired lease is not taken over.
EligiblePendingOnly(t) ==
    { e \in Events : row[e].status = "PENDING" /\ row[e].available_at <= t }

\* Rows a claim with clock reading t may take: the WHERE clause of
\* claim-outbox, re-checked row by row in the callback.
Eligible(t) ==
    { e \in Events :
        \/ row[e].status = "PENDING" /\ row[e].available_at <= t
        \/ row[e].status = "LEASED" /\ row[e].lease_expires_at <= t }

\* ORDER BY available_at, event_id
Before(e, f) ==
    \/ row[e].available_at < row[f].available_at
    \/ row[e].available_at = row[f].available_at /\ e < f

\* LIMIT ClaimLimit
Selected(t) ==
    { e \in Eligible(t) :
        Cardinality({ f \in Eligible(t) : Before(f, e) }) < ClaimLimit }

\* Mutant of Leased: a takeover keeps the attempt number.
LeasedSameAttempt(r, w, t) ==
    [r EXCEPT !.status = "LEASED", !.attempts = IF @ = 0 THEN 1 ELSE @,
              !.lease_owner = w, !.lease_expires_at = t + LeaseSeconds]

Leased(r, w, t) ==
    [r EXCEPT !.status = "LEASED", !.attempts = @ + 1,
              !.lease_owner = w, !.lease_expires_at = t + LeaseSeconds]

Exhausted(r) ==
    [r EXCEPT !.status = "DEAD",
              !.lease_owner = NoOwner, !.lease_expires_at = NoTime]

\* What one claim does to a selected row.
Claimed(r, w, t) ==
    IF r.attempts >= MaxAttempts THEN Exhausted(r) ELSE Leased(r, w, t)

\* The compare-and-set of _finish_lease: status, owner, attempt, and a lease
\* that had not expired at the call's clock reading.
HoldsLease(r, w, c) ==
    /\ r.status = "LEASED"
    /\ r.lease_owner = w
    /\ r.attempts = c.attempt
    /\ r.lease_expires_at > c.at

Finished(r, c) ==
    LET released == [r EXCEPT !.lease_owner = NoOwner,
                              !.lease_expires_at = NoTime]
    IN  CASE c.op = "delivered" ->
                 [released EXCEPT !.status = "DELIVERED", !.published_at = c.at]
          [] c.op = "retry" ->
                 [released EXCEPT !.status = "PENDING",
                                  !.available_at = c.at + RetryDelay]
          [] c.op = "dead" ->
                 [released EXCEPT !.status = "DEAD"]

-----------------------------------------------------------------------------
Init ==
    /\ row = [e \in Events |-> Absent]
    /\ held = [w \in Workers |-> {}]
    /\ call = [w \in Workers |-> Idle]
    /\ now = 0

\* SpannerEventIngestRepository commits a new row together with the incident.
Enqueue(e) ==
    /\ row[e] = Absent
    /\ row' = [row EXCEPT ![e] =
                 [status |-> "PENDING", attempts |-> 0, available_at |-> now,
                  published_at |-> NoTime, lease_owner |-> NoOwner,
                  lease_expires_at |-> NoTime]]
    /\ UNCHANGED <<held, call, now>>

\* claim: read the clock ...
BeginClaim(w) ==
    /\ call[w] = Idle
    /\ call' = [call EXCEPT ![w] = [op |-> "claim", at |-> now]]
    /\ UNCHANGED <<row, held, now>>

\* ... then take up to ClaimLimit rows in one transaction.
CommitClaim(w) ==
    /\ call[w].op = "claim"
    /\ LET t == call[w].at
           taken == { e \in Selected(t) : row[e].attempts < MaxAttempts }
       IN  /\ row' = [e \in Events |->
                        IF e \in Selected(t) THEN Claimed(row[e], w, t) ELSE row[e]]
           /\ held' = [held EXCEPT ![w] =
                         @ \cup { <<e, row'[e].attempts>> : e \in taken }]
    /\ call' = [call EXCEPT ![w] = Idle]
    /\ UNCHANGED now

\* mark_delivered, retry and mark_dead: read the clock ...
BeginFinish(w, lease, action) ==
    /\ call[w] = Idle
    /\ lease \in held[w]
    /\ call' = [call EXCEPT ![w] = [op |-> action, at |-> now,
                                    event |-> lease[1], attempt |-> lease[2]]]
    /\ UNCHANGED <<row, held, now>>

\* ... then finish the lease, or raise OutboxLeaseConflictError.
CommitFinish(w) ==
    /\ call[w].op \in FinishActions
    /\ LET c == call[w]
       IN  row' = IF HoldsLease(row[c.event], w, c)
                  THEN [row EXCEPT ![c.event] = Finished(@, c)]
                  ELSE row
    /\ call' = [call EXCEPT ![w] = Idle]
    /\ UNCHANGED <<held, now>>

\* The worker process dies: its call is abandoned before the transaction and
\* it no longer knows which leases it had.
Crash(w) ==
    /\ held[w] # {} \/ call[w] # Idle
    /\ held' = [held EXCEPT ![w] = {}]
    /\ call' = [call EXCEPT ![w] = Idle]
    /\ UNCHANGED <<row, now>>

Tick ==
    /\ now < MaxTime
    /\ now' = now + 1
    /\ UNCHANGED <<row, held, call>>

Next ==
    \/ \E e \in Events : Enqueue(e)
    \/ \E w \in Workers :
         \/ BeginClaim(w)
         \/ CommitClaim(w)
         \/ \E lease \in held[w], action \in FinishActions :
              BeginFinish(w, lease, action)
         \/ CommitFinish(w)
         \/ Crash(w)
    \/ Tick

Spec == Init /\ [][Next]_vars

\* A row that only the clock can bring on: a lease or a retry delay runs.
AwaitsClock ==
    \E e \in Events : \/ row[e].status = "LEASED" /\ row[e].lease_expires_at > now
                      \/ row[e].status = "PENDING" /\ row[e].available_at > now

-----------------------------------------------------------------------------
\* Every row satisfies OutboxRecord's validator, so no repository call can
\* fail with "persisted outbox row binding mismatch".
TypeOK ==
    /\ row \in [Events -> OutboxRecord \cup {Absent}]
    /\ held \in [Workers -> SUBSET (Events \X (1..MaxAttempts))]
    /\ call \in [Workers -> Call]
    /\ now \in Nat

\* An attempt number is a fencing token: no two workers are ever handed the
\* same attempt of the same event, however stale the clock readings behind
\* their claims were (claim, _finish_lease).
FencingTokenUnique ==
    \A w1, w2 \in Workers : held[w1] \cap held[w2] # {} => w1 = w2

\* Only the worker that was handed the newest attempt can be the owner of a
\* leased row, unless it has crashed and forgotten it.
NewestAttemptOwns ==
    \A e \in Events, w \in Workers :
        row[e].status = "LEASED" /\ <<e, row[e].attempts>> \in held[w]
            => row[e].lease_owner = w

===============================================================================
