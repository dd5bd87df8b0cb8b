----------------------------- MODULE OutboxProofs -----------------------------
(***************************************************************************)
(* Proofs, for every set of events and workers and every lease length,     *)
(* retry delay and attempt limit, that the outbox rows stay well formed    *)
(* and that an attempt number is a fencing token.                          *)
(***************************************************************************)
EXTENDS Outbox, TLAPS

\* A claim only selects rows of its own table that are PENDING or LEASED.
LEMMA SelectedRows ==
    ASSUME NEW t \in Nat, NEW e \in Selected(t)
    PROVE  e \in Events /\ row[e].status \in {"PENDING", "LEASED"}
BY DEF Selected, Eligible

\* What a claim leaves in a selected row is again a valid OutboxRecord.
LEMMA ClaimedRecord ==
    ASSUME NEW r \in OutboxRecord, NEW w \in Workers, NEW t \in Nat,
           r.status \in {"PENDING", "LEASED"}
    PROVE  Claimed(r, w, t) \in OutboxRecord
<1>1. CASE r.attempts >= MaxAttempts
  BY <1>1, OutboxAssumption
     DEF Claimed, Exhausted, OutboxRecord, OutboxRow, Valid, OutboxStatus, NoTime
<1>2. CASE ~(r.attempts >= MaxAttempts)
  <2>1. r.attempts + 1 \in 0..MaxAttempts /\ t + LeaseSeconds \in Nat
    BY <1>2, OutboxAssumption DEF OutboxRecord, OutboxRow
  <2>2. ASSUME NEW a \in 0..MaxAttempts, NEW x \in Nat
        PROVE  [r EXCEPT !.status = "LEASED", !.attempts = a,
                         !.lease_owner = w, !.lease_expires_at = x]
                  \in OutboxRecord
    <3> DEFINE l == [r EXCEPT !.status = "LEASED", !.attempts = a,
                              !.lease_owner = w, !.lease_expires_at = x]
    <3>1. l \in OutboxRow
      BY DEF OutboxRecord, OutboxRow, OutboxStatus
    <3>2. r.published_at = NoTime
      BY DEF OutboxRecord, Valid
    <3>3. /\ l.status = "LEASED" /\ l.lease_owner = w
          /\ l.lease_expires_at = x /\ l.published_at = NoTime
      BY <3>2 DEF OutboxRecord, OutboxRow
    <3>4. x # NoTime /\ w # NoOwner
      BY OutboxAssumption DEF NoTime
    <3>5. Valid(l)
      BY <3>3, <3>4 DEF Valid
    <3>6. QED BY <3>1, <3>5 DEF OutboxRecord
  <2>3. QED BY <1>2, <2>1, <2>2 DEF Claimed, Leased
<1>3. QED BY <1>1, <1>2

\* The token a claim hands out is the attempt number it has just written: one
\* more than the row had before.
LEMMA ClaimStep ==
    ASSUME TypeOK, NEW w \in Workers, CommitClaim(w), NEW e \in Events
    PROVE  LET t == call[w].at
               taken == { f \in Selected(t) : row[f].attempts < MaxAttempts }
           IN  /\ t \in Nat
               /\ e \in Selected(t) =>
                    /\ row[e] \in OutboxRecord
                    /\ row'[e] = Claimed(row[e], w, t)
               /\ e \notin Selected(t) => row'[e] = row[e]
               /\ e \in taken =>
                    /\ row'[e] = Leased(row[e], w, t)
                    /\ row'[e].attempts = row[e].attempts + 1
                    /\ row'[e].status = "LEASED" /\ row'[e].lease_owner = w
<1> DEFINE t == call[w].at
           taken == { f \in Selected(t) : row[f].attempts < MaxAttempts }
<1>1. t \in Nat
  BY DEF CommitClaim, TypeOK, Call, Idle, FinishActions
<1>2. ASSUME e \in Selected(t)
      PROVE  row[e] \in OutboxRecord /\ row'[e] = Claimed(row[e], w, t)
  BY <1>1, <1>2, SelectedRows DEF CommitClaim, TypeOK, Absent
<1>3. e \notin Selected(t) => row'[e] = row[e]
  BY DEF CommitClaim
<1>4. ASSUME e \in taken
      PROVE  /\ row'[e] = Leased(row[e], w, t)
             /\ row'[e].attempts = row[e].attempts + 1
             /\ row'[e].status = "LEASED" /\ row'[e].lease_owner = w
  <2>1. e \in Selected(t) /\ row[e].attempts < MaxAttempts
    BY <1>4
  <2>2. row[e] \in OutboxRecord /\ row'[e] = Claimed(row[e], w, t)
    BY <1>2, <2>1
  <2>3. row[e].attempts \in 0..MaxAttempts
    BY <2>2 DEF OutboxRecord, OutboxRow
  <2>4. row'[e] = Leased(row[e], w, t)
    BY <2>1, <2>2, <2>3, OutboxAssumption DEF Claimed
  <2>5. QED BY <2>2, <2>4 DEF Leased, OutboxRecord, OutboxRow
<1>5. QED BY <1>1, <1>2, <1>3, <1>4

\* Finishing a leased row leaves a valid OutboxRecord.
LEMMA FinishedRecord ==
    ASSUME NEW r \in OutboxRecord, NEW c \in Call, c.op \in FinishActions,
           r.status = "LEASED"
    PROVE  Finished(r, c) \in OutboxRecord
<1>0. c.at \in Nat /\ c.at # NoTime /\ r.published_at = NoTime
  BY DEF Call, FinishActions, Idle, OutboxRecord, Valid, NoTime
<1>1. CASE c.op = "delivered"
  <2> DEFINE f == Finished(r, c)
  <2>1. f = [r EXCEPT !.lease_owner = NoOwner, !.lease_expires_at = NoTime,
                      !.status = "DELIVERED", !.published_at = c.at]
    BY <1>1 DEF Finished
  <2>2. f \in OutboxRow
    BY <1>0, <2>1 DEF OutboxRecord, OutboxRow, OutboxStatus
  <2>3. /\ f.status = "DELIVERED" /\ f.lease_owner = NoOwner
        /\ f.lease_expires_at = NoTime /\ f.published_at = c.at
    BY <1>0, <2>1 DEF OutboxRecord, OutboxRow
  <2>4. QED BY <1>0, <2>2, <2>3 DEF OutboxRecord, Valid
<1>2. CASE c.op = "retry"
  <2> DEFINE f == Finished(r, c)
  <2>1. f = [r EXCEPT !.lease_owner = NoOwner, !.lease_expires_at = NoTime,
                      !.status = "PENDING", !.available_at = c.at + RetryDelay]
    BY <1>2 DEF Finished
  <2>2. f \in OutboxRow
    <3>1. c.at + RetryDelay \in Nat
      BY <1>0, OutboxAssumption
    <3> DEFINE x == c.at + RetryDelay
    <3> HIDE DEF x
    <3>2. f = [r EXCEPT !.lease_owner = NoOwner, !.lease_expires_at = NoTime,
                        !.status = "PENDING", !.available_at = x]
      BY <2>1 DEF x
    <3>3. x \in Nat
      BY <3>1 DEF x
    <3>4. QED BY <3>2, <3>3 DEF OutboxRecord, OutboxRow, OutboxStatus
  <2>3. /\ f.status = "PENDING" /\ f.lease_owner = NoOwner
        /\ f.lease_expires_at = NoTime /\ f.published_at = NoTime
    BY <1>0, <2>1 DEF OutboxRecord, OutboxRow
  <2>4. QED BY <1>0, <2>2, <2>3 DEF OutboxRecord, Valid
<1>3. CASE c.op = "dead"
  <2> DEFINE f == Finished(r, c)
  <2>1. f = [r EXCEPT !.lease_owner = NoOwner, !.lease_expires_at = NoTime,
                      !.status = "DEAD"]
    BY <1>3 DEF Finished
  <2>2. f \in OutboxRow
    BY <1>0, <2>1 DEF OutboxRecord, OutboxRow, OutboxStatus
  <2>3. /\ f.status = "DEAD" /\ f.lease_owner = NoOwner
        /\ f.lease_expires_at = NoTime /\ f.published_at = NoTime
    BY <1>0, <2>1 DEF OutboxRecord, OutboxRow
  <2>4. QED BY <1>0, <2>2, <2>3 DEF OutboxRecord, Valid
<1>4. QED BY <1>1, <1>2, <1>3 DEF FinishActions

\* Every step keeps every row, handed-out lease and pending call well formed.
LEMMA TypeStep ==
    TypeOK /\ [Next]_vars => TypeOK'
<1> SUFFICES ASSUME TypeOK, [Next]_vars PROVE TypeOK'
  OBVIOUS
<1> USE DEF TypeOK
<1>1. ASSUME NEW e \in Events, Enqueue(e) PROVE TypeOK'
  <2>1. [status |-> "PENDING", attempts |-> 0, available_at |-> now,
         published_at |-> NoTime, lease_owner |-> NoOwner,
         lease_expires_at |-> NoTime] \in OutboxRecord
    BY OutboxAssumption DEF OutboxRecord, OutboxRow, Valid, OutboxStatus, NoTime
  <2>2. QED BY <1>1, <2>1 DEF Enqueue
<1>2. ASSUME NEW w \in Workers, BeginClaim(w) PROVE TypeOK'
  BY <1>2 DEF BeginClaim, Call
<1>3. ASSUME NEW w \in Workers, CommitClaim(w) PROVE TypeOK'
  <2> DEFINE t == call[w].at
             taken == { e \in Selected(t) : row[e].attempts < MaxAttempts }
  <2>1. t \in Nat
    BY <1>3 DEF CommitClaim, Call, Idle, FinishActions
  <2>2. \A e \in Selected(t) : row[e] \in OutboxRecord
    BY <2>1, SelectedRows DEF Absent
  <2>3. row' \in [Events -> OutboxRecord \cup {Absent}]
    BY <1>3, <2>1, <2>2, SelectedRows, ClaimedRecord DEF CommitClaim
  <2>4. \A e \in taken : <<e, row'[e].attempts>> \in Events \X (1..MaxAttempts)
    <3> TAKE e \in taken
    <3>1. e \in Events /\ row[e] \in OutboxRecord
      BY <2>1, <2>2, SelectedRows
    <3>2. row'[e].attempts = row[e].attempts + 1
      BY <1>3, <3>1, ClaimStep
    <3>3. row[e].attempts \in 0..MaxAttempts /\ row[e].attempts < MaxAttempts
      BY <3>1 DEF OutboxRecord, OutboxRow
    <3>4. QED BY <3>1, <3>2, <3>3, OutboxAssumption
  <2>5. held' \in [Workers -> SUBSET (Events \X (1..MaxAttempts))]
    <3>1. held' = [held EXCEPT ![w] =
                     @ \cup { <<e, row'[e].attempts>> : e \in taken }]
      BY <1>3 DEF CommitClaim
    <3>2. { <<e, row'[e].attempts>> : e \in taken } \subseteq Events \X (1..MaxAttempts)
      BY <2>4
    <3>3. QED BY <3>1, <3>2
  <2>6. QED BY <1>3, <2>3, <2>5 DEF CommitClaim, Call
<1>4. ASSUME NEW w \in Workers, NEW lease \in held[w],
             NEW action \in FinishActions, BeginFinish(w, lease, action)
      PROVE  TypeOK'
  BY <1>4 DEF BeginFinish, Call
<1>5. ASSUME NEW w \in Workers, CommitFinish(w) PROVE TypeOK'
  <2> DEFINE c == call[w]
  <2>1. c \in Call /\ c.op \in FinishActions /\ c.event \in Events
    BY <1>5 DEF CommitFinish, Call, Idle, FinishActions
  <2>2. CASE HoldsLease(row[c.event], w, c)
    <3>1. row[c.event] \in OutboxRecord /\ row[c.event].status = "LEASED"
      BY <2>1, <2>2 DEF HoldsLease, Absent
    <3>2. Finished(row[c.event], c) \in OutboxRecord
      BY <2>1, <3>1, FinishedRecord
    <3>3. QED BY <1>5, <2>1, <2>2, <3>2 DEF CommitFinish, Call
  <2>3. CASE ~HoldsLease(row[c.event], w, c)
    BY <1>5, <2>1, <2>3 DEF CommitFinish, Call
  <2>4. QED BY <2>2, <2>3
<1>6. ASSUME NEW w \in Workers, Crash(w) PROVE TypeOK'
  BY <1>6 DEF Crash, Call
<1>7. CASE Tick
  BY <1>7 DEF Tick
<1>8. CASE UNCHANGED vars
  BY <1>8 DEF vars
<1>9. QED
  BY <1>1, <1>2, <1>3, <1>4, <1>5, <1>6, <1>7, <1>8 DEF Next

\* The outbox table never holds a row that OutboxRecord's validator refuses,
\* and no worker is handed an attempt beyond max_attempts.
THEOREM TypeCorrect == Spec => []TypeOK
<1>1. Init => TypeOK
  BY DEF Init, TypeOK, Call
<1>2. QED BY <1>1, TypeStep, PTL DEF Spec

-----------------------------------------------------------------------------
\* Every lease a worker remembers was really granted: its attempt number does
\* not exceed the row's.
TokensIssued ==
    \A w \in Workers, e \in Events, a \in 1..MaxAttempts :
        <<e, a>> \in held[w] => row[e] # Absent /\ a <= row[e].attempts

FencingInv == TypeOK /\ TokensIssued /\ NewestAttemptOwns /\ FencingTokenUnique

\* A claim keeps the token invariant: the tokens it hands out are larger than
\* every token of the event handed out before.
LEMMA ClaimFencing ==
    ASSUME FencingInv, TypeOK', NEW w \in Workers, CommitClaim(w)
    PROVE  FencingInv'
<1> DEFINE t == call[w].at
           taken == { f \in Selected(t) : row[f].attempts < MaxAttempts }
<1> USE DEF FencingInv
<1>1. \A e \in Events : row[e] # Absent =>
         /\ row'[e] # Absent
         /\ row[e].attempts \in 0..MaxAttempts
         /\ row'[e].attempts \in 0..MaxAttempts
         /\ row'[e].attempts >= row[e].attempts
         /\ row'[e].status = "LEASED" =>
              \/ row'[e] = row[e]
              \/ e \in taken /\ row'[e].lease_owner = w
                 /\ row'[e].attempts = row[e].attempts + 1
  <2> TAKE e \in Events
  <2> HAVE row[e] # Absent
  <2>1. row[e] \in OutboxRecord /\ row[e].attempts \in 0..MaxAttempts
    BY DEF TypeOK, OutboxRecord, OutboxRow
  <2>2. CASE e \notin Selected(t)
    BY <2>1, <2>2, ClaimStep
  <2>3. CASE e \in taken
    <3>1. /\ row'[e].status = "LEASED" /\ row'[e].lease_owner = w
          /\ row'[e].attempts = row[e].attempts + 1
          /\ row[e].attempts < MaxAttempts
      BY <2>3, ClaimStep
    <3>2. row[e].attempts + 1 \in 0..MaxAttempts
      BY <2>1, <3>1, OutboxAssumption
    <3>3. row'[e] # Absent
      BY <3>1 DEF Absent
    <3>4. QED BY <2>1, <2>3, <3>1, <3>2, <3>3
  <2>4. CASE e \in Selected(t) /\ e \notin taken
    <3>1. row'[e] = Exhausted(row[e])
      BY <2>1, <2>4, ClaimStep, OutboxAssumption DEF Claimed
    <3>2. row'[e].attempts = row[e].attempts /\ row'[e].status = "DEAD"
      BY <2>1, <3>1 DEF Exhausted, OutboxRecord, OutboxRow
    <3>3. QED BY <2>1, <3>2 DEF Absent
  <2>5. QED BY <2>2, <2>3, <2>4
<1>2. \A v \in Workers, e \in Events, a \in 1..MaxAttempts :
        <<e, a>> \in held'[v] =>
          \/ <<e, a>> \in held[v]
          \/ v = w /\ e \in taken /\ a = row'[e].attempts
  BY DEF CommitClaim, TypeOK
<1>3. \A e \in taken : /\ e \in Events /\ row[e] # Absent
                        /\ row'[e].attempts = row[e].attempts + 1
                        /\ row'[e].lease_owner = w
  <2> TAKE e \in taken
  <2>1. e \in Events
    BY DEF Selected, Eligible
  <2>2. row[e] \in OutboxRecord
    BY <2>1, ClaimStep
  <2>3. row[e] # Absent
    BY <2>2 DEF OutboxRecord, OutboxRow, OutboxStatus, Absent
  <2>4. QED BY <2>1, <2>3, ClaimStep
<1>4. TokensIssued'
  BY <1>1, <1>2, <1>3 DEF TokensIssued
<1>5. NewestAttemptOwns'
  <2> SUFFICES ASSUME NEW e \in Events, NEW v \in Workers,
                      row'[e].status = "LEASED", <<e, row'[e].attempts>> \in held'[v]
               PROVE  row'[e].lease_owner = v
    BY DEF NewestAttemptOwns
  <2>1. row[e] # Absent
    BY SMTT(30) DEF CommitClaim, Selected, Eligible, Absent
  <2>2. row'[e].attempts \in 1..MaxAttempts
    BY DEF TypeOK
  <2>3. CASE row'[e] = row[e]
    <3>1. <<e, row[e].attempts>> \in held[v]
      <4>1. CASE <<e, row[e].attempts>> \in held[v]
        BY <4>1
      <4>2. CASE v = w /\ e \in taken
        BY <1>1, <1>3, <2>1, <2>3, <4>2
      <4>3. QED BY <1>2, <2>2, <2>3, <4>1, <4>2
    <3>2. QED BY <2>3, <3>1 DEF NewestAttemptOwns
  <2>4. CASE e \in taken /\ row'[e].lease_owner = w
             /\ row'[e].attempts = row[e].attempts + 1
    <3>1. <<e, row'[e].attempts>> \notin held[v]
      BY <1>1, <2>1, <2>2, <2>4 DEF TokensIssued
    <3>2. QED BY <1>2, <2>2, <2>4, <3>1
  <2>5. QED BY <1>1, <2>1, <2>3, <2>4
<1>6. FencingTokenUnique'
  <2> SUFFICES ASSUME NEW v1 \in Workers, NEW v2 \in Workers,
                      NEW l \in held'[v1], l \in held'[v2]
               PROVE  v1 = v2
    BY DEF FencingTokenUnique
  <2>1. PICK e \in Events, a \in 1..MaxAttempts : l = <<e, a>>
    BY DEF TypeOK
  <2>2. ASSUME NEW v \in Workers, <<e, a>> \in held[v], e \in taken
        PROVE  a # row'[e].attempts
    BY <1>1, <1>3, <2>2 DEF TokensIssued
  <2>3. QED BY <1>2, <2>1, <2>2 DEF FencingTokenUnique
<1>7. QED BY <1>4, <1>5, <1>6

\* Finishing a lease changes neither the attempt number nor who was handed
\* what, and leaves the row unleased.
LEMMA FinishFencing ==
    ASSUME FencingInv, TypeOK', NEW w \in Workers, CommitFinish(w)
    PROVE  FencingInv'
<1> USE DEF FencingInv
<1> DEFINE c == call[w]
<1>1. c.event \in Events /\ c.op \in FinishActions /\ held' = held
  BY DEF CommitFinish, TypeOK, Call, Idle, FinishActions
<1>2. \A e \in Events :
        \/ row'[e] = row[e]
        \/ /\ row[e] # Absent /\ row'[e] # Absent
           /\ row'[e].attempts = row[e].attempts /\ row'[e].status # "LEASED"
  <2>1. CASE HoldsLease(row[c.event], w, c)
    <3>1. row[c.event] \in OutboxRecord
      BY <1>1, <2>1 DEF HoldsLease, TypeOK, Absent
    <3>2. /\ Finished(row[c.event], c).attempts = row[c.event].attempts
          /\ Finished(row[c.event], c).status \in OutboxStatus \ {"LEASED"}
      BY <1>1, <3>1 DEF Finished, FinishActions, OutboxRecord, OutboxRow, OutboxStatus
    <3>3. row[c.event] # Absent
      BY <2>1 DEF HoldsLease, Absent
    <3>4. row' = [row EXCEPT ![c.event] = Finished(@, c)]
      BY <2>1 DEF CommitFinish
    <3>5. QED BY <1>1, <3>2, <3>3, <3>4 DEF TypeOK, Absent, OutboxStatus
  <2>2. CASE ~HoldsLease(row[c.event], w, c)
    BY <2>2 DEF CommitFinish
  <2>3. QED BY <2>1, <2>2
<1>3. TokensIssued'
  BY <1>1, <1>2 DEF TokensIssued
<1>4. NewestAttemptOwns'
  BY <1>1, <1>2 DEF NewestAttemptOwns
<1>5. FencingTokenUnique'
  BY <1>1 DEF FencingTokenUnique
<1>6. QED BY <1>3, <1>4, <1>5

\* FencingInv is inductive.
LEMMA FencingStep ==
    FencingInv /\ [Next]_vars => FencingInv'
<1> SUFFICES ASSUME FencingInv, [Next]_vars PROVE FencingInv'
  OBVIOUS
<1>0. TypeOK'
  BY TypeStep DEF FencingInv
<1> USE DEF FencingInv
<1>1. ASSUME NEW e \in Events, Enqueue(e) PROVE FencingInv'
  <2>1. held' = held /\ row[e] = Absent /\ row'[e].status = "PENDING"
        /\ \A f \in Events : f # e => row'[f] = row[f]
    BY <1>1 DEF Enqueue, TypeOK
  <2>2. \A f \in Events, v \in Workers, a \in 1..MaxAttempts :
          <<f, a>> \in held[v] => f # e
    BY <2>1 DEF TokensIssued
  <2>3. TokensIssued'
    BY <2>1, <2>2 DEF TokensIssued
  <2>4. NewestAttemptOwns'
    BY <2>1 DEF NewestAttemptOwns
  <2>5. QED BY <1>0, <2>1, <2>3, <2>4 DEF FencingTokenUnique
<1>2. ASSUME NEW w \in Workers, BeginClaim(w) PROVE FencingInv'
  BY <1>0, <1>2 DEF BeginClaim, TokensIssued, NewestAttemptOwns, FencingTokenUnique
<1>3. ASSUME NEW w \in Workers, CommitClaim(w) PROVE FencingInv'
  BY <1>0, <1>3, ClaimFencing
<1>4. ASSUME NEW w \in Workers, NEW lease \in held[w],
             NEW action \in FinishActions, BeginFinish(w, lease, action)
      PROVE  FencingInv'
  BY <1>0, <1>4 DEF BeginFinish, TokensIssued, NewestAttemptOwns, FencingTokenUnique
<1>5. ASSUME NEW w \in Workers, CommitFinish(w) PROVE FencingInv'
  BY <1>0, <1>5, FinishFencing
<1>6. ASSUME NEW w \in Workers, Crash(w) PROVE FencingInv'
  <2>1. row' = row /\ \A v \in Workers : held'[v] \subseteq held[v]
    BY <1>6 DEF Crash, TypeOK
  <2>2. QED BY <1>0, <2>1 DEF TokensIssued, NewestAttemptOwns, FencingTokenUnique
<1>7. CASE Tick
  BY <1>0, <1>7 DEF Tick, TokensIssued, NewestAttemptOwns, FencingTokenUnique
<1>8. CASE UNCHANGED vars
  BY <1>0, <1>8 DEF vars, TokensIssued, NewestAttemptOwns, FencingTokenUnique
<1>9. QED
  BY <1>1, <1>2, <1>3, <1>4, <1>5, <1>6, <1>7, <1>8 DEF Next

\* FencingInv holds in every reachable state.
LEMMA FencingAlways == Spec => []FencingInv
<1>1. Init => FencingInv
  <2>1. Init => TypeOK
    BY DEF Init, TypeOK, Call
  <2>2. QED
    BY <2>1 DEF Init, FencingInv, TokensIssued, NewestAttemptOwns, FencingTokenUnique
<1>2. QED BY <1>1, FencingStep, PTL DEF Spec

\* No two workers are ever handed the same attempt of the same event, however
\* their claims, crashes and lease expiries interleave (SpannerOutboxRepository.claim).
THEOREM Fencing == Spec => []FencingTokenUnique
<1>1. FencingInv => FencingTokenUnique
  BY DEF FencingInv
<1>2. QED BY <1>1, FencingAlways, PTL

\* The owner of a leased row is the worker that was handed its newest attempt:
\* the attempt number fences out every earlier holder (_finish_lease).
THEOREM NewestOwns == Spec => []NewestAttemptOwns
<1>1. FencingInv => NewestAttemptOwns
  BY DEF FencingInv
<1>2. QED BY <1>1, FencingAlways, PTL
===============================================================================
