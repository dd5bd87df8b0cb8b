-------------------- MODULE AssuranceConfirmationProofs ---------------------
(***************************************************************************)
(* Proofs, for any previews, candidates, keys, lifetimes and capacities,   *)
(* that the assurance agent loses no committed incident, keeps what can    *)
(* still be recovered, and implements ConfirmationContract.                *)
(***************************************************************************)
EXTENDS AssuranceConfirmation, FiniteSetTheorems, TLAPS

RecordState == {"none", "evicted", "pending", "processing"} \cup DecidedStates

Record == [st : RecordState, cands : SUBSET Candidates, snapshot : Nat,
           claim : Decision \cup {Unclaimed},
           result : {"none", "rejected", "written", "replayed"},
           expires : Nat, updated : Nat]

TaskState == {"submitted", "working", "input-required"} \cup TerminalTaskStates
TaskRow == [st : TaskState \cup {"none", "evicted"}, updated : Nat]

\* The tables and the event loop have their shapes.
TypeInv ==
    /\ now \in Nat /\ telemetry \in Nat
    /\ record \in [Previews -> Record]
    /\ task \in [Previews -> TaskRow] /\ events \in [Previews -> Seq(TaskState)]
    /\ loop \in Confirmation \cup {Idle}
    /\ writes \in [Previews -> Nat]

\* The event loop is alone with the record it works on: from the claim on, the
\* record is the loop's own claim, and once written the claim is durable.
LoopInv ==
    loop # Idle =>
      LET r == record[loop.p]
      IN /\ Stored(r.st) /\ r.st # "cancelled"
         /\ loop.at # "claim" => r.st = "processing" /\ r.claim = loop.d
         /\ loop.at = "finish" => ClaimIsDurable(r)

\* What each state of a confirmation says about its claim and its result.
RecordInv(r) ==
    /\ r.st \in {"none", "pending", "cancelled"} => r.claim = Unclaimed
    /\ r.st \in {"none", "pending", "processing", "cancelled", "expired"} => r.result = "none"
    /\ r.st = "processing" => r.claim # Unclaimed
    /\ r.st = "completed" => ClaimIsDurable(r) /\ r.result \in {"written", "replayed"}
    /\ r.st = "rejected" => r.result = "rejected" /\ r.claim.decision = "REJECT"
    /\ r.st = "expired" => r.expires <= now

\* A preview's commit is the one of its claim, and an idempotency row stands
\* for a stored incident.
CommitInv ==
    /\ \A p \in Previews : writes[p] > 0 => ClaimIsDurable(record[p])
    /\ \A c \in Candidates, k \in Keys : <<c, k>> \in durable => c \in incident

\* Rows are counted, so they have to be finitely many.
CapacityInv ==
    /\ IsFiniteSet(StoredPreviews(record)) /\ IsFiniteSet(StoredPreviews(task))
    /\ WithinCapacity

Inv == /\ TypeInv /\ LoopInv /\ CommitInv /\ CapacityInv
       /\ \A p \in Previews : RecordInv(record[p])

-----------------------------------------------------------------------------
(* The operators on rows.                                                     *)

\* The sweep changes the state of expired rows and nothing else that matters.
LEMMA SweepFacts ==
    ASSUME TypeInv, NEW p \in Previews, RecordInv(record[p])
    PROVE  LET r == ReconcileExpired(record, now)[p]
           IN /\ r \in Record /\ RecordInv(r)
              /\ r.claim = record[p].claim /\ r.result = record[p].result
              /\ r.expires = record[p].expires
              /\ \/ r = record[p] /\ ~SweptAt(record[p], now)
                 \/ /\ SweptAt(record[p], now) /\ r.st = "expired"
                    /\ record[p].st \in {"pending", "processing"}
<1> DEFINE r == ReconcileExpired(record, now)[p]
<1>1. CASE SweptAt(record[p], now)
  <2>1. r = [record[p] EXCEPT !.st = "expired", !.updated = now]
    BY <1>1 DEF ReconcileExpired
  <2>2. record[p].st \in {"pending", "processing"} /\ record[p].expires <= now
    BY <1>1, ConfirmationAssumption DEF SweptAt, TypeInv, Record
  <2> HIDE DEF r
  <2>3. record[p] \in Record /\ now \in Nat
    BY DEF TypeInv
  <2>4. /\ r \in Record /\ r.claim = record[p].claim /\ r.result = record[p].result
        /\ r.expires = record[p].expires /\ r.st = "expired"
    BY <2>1, <2>3 DEF Record, RecordState, DecidedStates
  <2>5. RecordInv(r)
    BY <2>2, <2>4 DEF RecordInv
  <2>6. QED BY <1>1, <2>2, <2>4, <2>5 DEF r
<1>2. CASE ~SweptAt(record[p], now)
  BY <1>2 DEF ReconcileExpired, TypeInv
<1>3. QED BY <1>1, <1>2

\* Eviction touches decided rows only.
LEMMA EvictFacts ==
    ASSUME NEW rows \in [Previews -> Record], NEW p \in Previews,
           NEW V \in SUBSET EvictableRecords(rows)
    PROVE  LET r == Evict(rows, V)[p]
           IN /\ r \in Record
              /\ r.claim = rows[p].claim /\ r.result = rows[p].result
              /\ r.expires = rows[p].expires
              /\ \/ r = rows[p]
                 \/ r.st = "evicted" /\ rows[p].st \in DecidedStates
BY DEF Evict, EvictableRecords, Record, RecordState, DecidedStates

LEMMA EvictionsSubset ==
    ASSUME NEW rows, NEW evictable, NEW capacity,
           NEW V \in Evictions(rows, evictable, capacity)
    PROVE  V \in SUBSET evictable
BY DEF Evictions

\* One more row fits into a table with room.
LEMMA InsertFits ==
    ASSUME NEW S, IsFiniteSet(S), NEW p, NEW capacity \in Nat,
           Cardinality(S) < capacity
    PROVE  IsFiniteSet(S \cup {p}) /\ Cardinality(S \cup {p}) <= capacity
<1>1. /\ IsFiniteSet(S \cup {p}) /\ Cardinality(S) \in Nat
      /\ Cardinality(S \cup {p}) = IF p \in S THEN Cardinality(S) ELSE Cardinality(S) + 1
  BY FS_AddElement, FS_CardinalityType
<1>2. QED BY <1>1

-----------------------------------------------------------------------------
(* Sweeping and making room.                                                  *)

\* What a sweep or an eviction may do to the row of q.
Aged(q) ==
    /\ record'[q].claim = record[q].claim /\ record'[q].result = record[q].result
    /\ record'[q].expires = record[q].expires
    /\ \/ record'[q].st = record[q].st
       \/ record'[q].st = "expired" /\ SweptAt(record[q], now)
       \/ /\ record'[q].st = "evicted"
          /\ record[q].st \in DecidedStates \/ SweptAt(record[q], now)

\* A sweep followed by an eviction ages every row.
LEMMA AgedByEviction ==
    ASSUME Inv, NEW V \in SUBSET EvictableRecords(ReconcileExpired(record, now)),
           NEW q \in Previews
    PROVE  LET r == Evict(ReconcileExpired(record, now), V)[q]
           IN /\ r \in Record
              /\ r.claim = record[q].claim /\ r.result = record[q].result
              /\ r.expires = record[q].expires
              /\ \/ r.st = record[q].st
                 \/ r.st = "expired" /\ SweptAt(record[q], now)
                 \/ /\ r.st = "evicted"
                    /\ record[q].st \in DecidedStates \/ SweptAt(record[q], now)
<1> DEFINE swept == ReconcileExpired(record, now)
           r == Evict(swept, V)[q]
<1>1. swept \in [Previews -> Record]
  <2>1. \A p \in Previews : swept[p] \in Record
    BY SweepFacts DEF Inv
  <2>2. QED BY <2>1 DEF ReconcileExpired
<1>2. /\ swept[q].claim = record[q].claim /\ swept[q].result = record[q].result
      /\ swept[q].expires = record[q].expires
      /\ \/ swept[q] = record[q]
         \/ SweptAt(record[q], now) /\ swept[q].st = "expired"
  BY SweepFacts DEF Inv
<1>0. V \in SUBSET EvictableRecords(swept)
  OBVIOUS
<1> HIDE DEF swept
<1>3. /\ r \in Record /\ r.claim = swept[q].claim /\ r.result = swept[q].result
      /\ r.expires = swept[q].expires
      /\ \/ r = swept[q]
         \/ r.st = "evicted" /\ swept[q].st \in DecidedStates
  BY <1>0, <1>1, EvictFacts
<1>4. QED BY <1>2, <1>3 DEF swept

\* Inserting a preview ages the other rows and keeps the capacity.
LEMMA ScanFacts ==
    ASSUME Inv, NEW p \in Previews, ScanWithCandidates(p)
    PROVE  /\ record' \in [Previews -> Record]
           /\ record[p].st = "none" /\ record'[p].st = "pending"
           /\ record'[p].claim = Unclaimed /\ record'[p].result = "none"
           /\ \A q \in Previews \ {p} : Aged(q)
           /\ IsFiniteSet(StoredPreviews(record'))
           /\ Cardinality(StoredPreviews(record')) <= PendingCapacity
<1> DEFINE swept == ReconcileExpired(record, now)
<1>1. PICK V \in Evictions(swept, EvictableRecords(swept), PendingCapacity),
           C \in (SUBSET Candidates) \ {{}} :
        /\ HasRoom(Evict(swept, V), PendingCapacity)
        /\ record' = [Evict(swept, V) EXCEPT ![p] =
             [NoRecord EXCEPT !.st = "pending", !.cands = C, !.snapshot = telemetry,
                              !.expires = now + TTL, !.updated = now]]
  BY DEF ScanWithCandidates
<1>2. V \in SUBSET EvictableRecords(swept)
  BY EvictionsSubset
<1> DEFINE rows == Evict(swept, V)
           new == [NoRecord EXCEPT !.st = "pending", !.cands = C, !.snapshot = telemetry,
                                   !.expires = now + TTL, !.updated = now]
<1>3. /\ new \in Record /\ new.st = "pending" /\ new.claim = Unclaimed
      /\ new.result = "none"
  <2>1. now \in Nat /\ telemetry \in Nat /\ now + TTL \in Nat
    BY ConfirmationAssumption DEF Inv, TypeInv
  <2>2. QED BY <2>1 DEF NoRecord, Record, RecordState
<1>4. \A q \in Previews :
        /\ rows[q] \in Record
        /\ rows[q].claim = record[q].claim /\ rows[q].result = record[q].result
        /\ rows[q].expires = record[q].expires
        /\ \/ rows[q].st = record[q].st
           \/ rows[q].st = "expired" /\ SweptAt(record[q], now)
           \/ /\ rows[q].st = "evicted"
              /\ record[q].st \in DecidedStates \/ SweptAt(record[q], now)
  BY <1>2, AgedByEviction
<1>5. rows \in [Previews -> Record]
  BY <1>4 DEF Evict
<1> HIDE DEF new
<1>6. record' = [rows EXCEPT ![p] = new]
  BY <1>1 DEF new
<1>7. HasRoom(rows, PendingCapacity)
  BY <1>1
<1> HIDE DEF rows, swept
<1>8. /\ record' \in [Previews -> Record] /\ record'[p] = new
      /\ \A q \in Previews \ {p} : record'[q] = rows[q]
  BY <1>3, <1>5, <1>6
<1>9. record[p].st = "none"
  BY DEF ScanWithCandidates, Unused
<1>10. \A q \in Previews \ {p} : Aged(q)
  BY <1>4, <1>8 DEF Aged
<1>11. StoredPreviews(record') = StoredPreviews(rows) \cup {p}
  BY <1>3, <1>8 DEF StoredPreviews, Stored
<1>12. IsFiniteSet(StoredPreviews(rows))
  <2>1. StoredPreviews(rows) \subseteq StoredPreviews(record)
    BY <1>4 DEF StoredPreviews, Stored, SweptAt, DecidedStates
  <2>2. QED BY <2>1, FS_Subset DEF Inv, CapacityInv
<1>13. /\ IsFiniteSet(StoredPreviews(record'))
       /\ Cardinality(StoredPreviews(record')) <= PendingCapacity
  <2>1. Cardinality(StoredPreviews(rows)) < PendingCapacity
    BY <1>7 DEF HasRoom
  <2>2. PendingCapacity \in Nat
    BY ConfirmationAssumption
  <2>3. /\ IsFiniteSet(StoredPreviews(rows) \cup {p})
        /\ Cardinality(StoredPreviews(rows) \cup {p}) <= PendingCapacity
    BY <1>12, <2>1, <2>2, InsertFits
  <2>4. QED BY <1>11, <2>3
<1>14. QED BY <1>3, <1>8, <1>9, <1>10, <1>13

\* Storing a task state ages the confirmations and keeps the capacity.
LEMMA SaveFacts ==
    ASSUME Inv, NEW p \in Previews, SaveTask(p)
    PROVE  /\ record' \in [Previews -> Record]
           /\ \A q \in Previews : Aged(q) /\ (record'[q].st # "evicted" \/ record'[q] = record[q])
           /\ StoredPreviews(record') = StoredPreviews(record)
           /\ task' \in [Previews -> TaskRow] /\ events' \in [Previews -> Seq(TaskState)]
           /\ IsFiniteSet(StoredPreviews(task'))
           /\ Cardinality(StoredPreviews(task')) <= TaskCapacity
           /\ \A q \in Previews : task'[q].st = "evicted" /\ Stored(task[q].st) =>
                task[q].st \in TerminalTaskStates \/ record'[q].st = "expired"
<1> DEFINE st == Head(events[p])
           swept == ReconcileExpired(record, now)
           exists == Stored(task[p].st)
           choices == IF exists THEN {{}}
                      ELSE Evictions(task, EvictableTasks(swept), TaskCapacity)
<1>1. PICK V \in choices :
        IF exists \/ HasRoom(Evict(task, V), TaskCapacity)
        THEN /\ record' = swept
             /\ task' = [Evict(task, V) EXCEPT ![p] = [st |-> st, updated |-> now]]
             /\ events' = [events EXCEPT ![p] = Tail(@)]
        ELSE /\ events' = [events EXCEPT ![p] = <<>>]
             /\ task' = [task EXCEPT ![p].st = "evicted"]
             /\ UNCHANGED record
  BY DEF SaveTask
<1>2. st \in TaskState /\ Tail(events[p]) \in Seq(TaskState)
  BY DEF SaveTask, Inv, TypeInv
<1> HIDE DEF choices
<1>3. events' \in [Previews -> Seq(TaskState)]
  <2>1. events \in [Previews -> Seq(TaskState)] /\ <<>> \in Seq(TaskState)
    BY DEF Inv, TypeInv
  <2>2. \/ events' = [events EXCEPT ![p] = Tail(@)]
        \/ events' = [events EXCEPT ![p] = <<>>]
    BY <1>1
  <2>3. QED BY <1>2, <2>1, <2>2
<1> USE DEF choices
<1>0. task \in [Previews -> TaskRow] /\ now \in Nat
  BY DEF Inv, TypeInv
<1>4. CASE exists \/ HasRoom(Evict(task, V), TaskCapacity)
  <2> DEFINE rows == Evict(task, V)
  <2>1. /\ record' = swept
        /\ task' = [rows EXCEPT ![p] = [st |-> st, updated |-> now]]
    BY <1>1, <1>4
  <2>2. V \in SUBSET EvictableTasks(swept) /\ (exists => V = {})
    BY <1>1, EvictionsSubset
  <2>3. \A q \in Previews : rows[q] = task[q] \/ (q \in V /\ rows[q].st = "evicted")
    <3> SUFFICES ASSUME NEW q \in Previews, q \in V
                 PROVE  rows[q].st = "evicted"
      BY DEF Evict
    <3>1. Stored(task[q].st)
      BY <2>2 DEF EvictableTasks, Stored, TerminalTaskStates
    <3>2. QED BY <1>0 DEF Evict, TaskRow
  <2>4. rows \in [Previews -> TaskRow]
    BY <1>0 DEF Evict, TaskRow
  <2>5. /\ \A q \in Previews : /\ swept[q] \in Record
                               /\ swept[q].st # "evicted" \/ swept[q] = record[q]
                               /\ swept[q].claim = record[q].claim
                               /\ swept[q].result = record[q].result
                               /\ swept[q].expires = record[q].expires
                               /\ \/ swept[q] = record[q]
                                  \/ /\ SweptAt(record[q], now) /\ swept[q].st = "expired"
                                     /\ record[q].st \in {"pending", "processing"}
        /\ DOMAIN swept = Previews
    BY SweepFacts DEF Inv, ReconcileExpired
  <2> HIDE DEF rows, swept, st, exists
  <2>6. swept \in [Previews -> Record]
    BY <2>5 DEF ReconcileExpired, swept
  <2>7. \A q \in Previews : Aged(q) /\ (record'[q].st # "evicted" \/ record'[q] = record[q])
    BY <2>1, <2>5 DEF Aged
  <2>8. StoredPreviews(record') = StoredPreviews(record)
    BY <2>1, <2>5 DEF StoredPreviews, Stored
  <2>9. /\ task' \in [Previews -> TaskRow] /\ task'[p].st = st
        /\ \A q \in Previews \ {p} : task'[q] = rows[q]
    BY <1>0, <1>2, <2>1, <2>4 DEF TaskRow
  <2>10. \A q \in Previews : task'[q].st = "evicted" /\ Stored(task[q].st) =>
            task[q].st \in TerminalTaskStates \/ record'[q].st = "expired"
    BY <1>2, <2>1, <2>2, <2>3, <2>9
       DEF EvictableTasks, TaskState, TerminalTaskStates, Stored
  <2>11. /\ IsFiniteSet(StoredPreviews(task'))
         /\ Cardinality(StoredPreviews(task')) <= TaskCapacity
    <3>1. CASE exists
      <4>1. StoredPreviews(task') = StoredPreviews(task)
        BY <1>2, <2>2, <2>3, <2>9, <3>1
           DEF StoredPreviews, Stored, TaskState, TerminalTaskStates, exists
      <4>2. QED BY <4>1 DEF Inv, CapacityInv, WithinCapacity
    <3>2. CASE HasRoom(rows, TaskCapacity)
      <4>1. StoredPreviews(task') = StoredPreviews(rows) \cup {p}
        BY <1>2, <2>9 DEF StoredPreviews, Stored, TaskState, TerminalTaskStates
      <4>2. StoredPreviews(rows) \subseteq StoredPreviews(task)
        BY <2>3 DEF StoredPreviews, Stored
      <4>3. IsFiniteSet(StoredPreviews(rows))
        BY <4>2, FS_Subset DEF Inv, CapacityInv
      <4>4. Cardinality(StoredPreviews(rows)) < TaskCapacity
        BY <3>2 DEF HasRoom
      <4>5. TaskCapacity \in Nat
        BY ConfirmationAssumption
      <4>6. /\ IsFiniteSet(StoredPreviews(rows) \cup {p})
            /\ Cardinality(StoredPreviews(rows) \cup {p}) <= TaskCapacity
        BY <4>3, <4>4, <4>5, InsertFits
      <4>7. QED BY <4>1, <4>6
    <3>3. QED BY <1>4, <3>1, <3>2 DEF rows
  <2>12. QED BY <1>3, <2>1, <2>6, <2>7, <2>8, <2>9, <2>10, <2>11
<1>5. CASE ~(exists \/ HasRoom(Evict(task, V), TaskCapacity))
  <2>1. record' = record /\ task' = [task EXCEPT ![p].st = "evicted"]
    BY <1>1, <1>5
  <2>2. /\ task' \in [Previews -> TaskRow] /\ task'[p].st = "evicted"
        /\ \A q \in Previews \ {p} : task'[q] = task[q]
    BY <1>0, <2>1 DEF TaskRow
  <2>3. ~Stored(task[p].st)
    BY <1>5
  <2> HIDE DEF exists, choices, st, swept
  <2>4. ~Stored(task'[p].st)
    BY <2>2 DEF Stored
  <2>5. StoredPreviews(task') = StoredPreviews(task)
    BY <2>2, <2>3, <2>4 DEF StoredPreviews
  <2>6. \A q \in Previews : Aged(q)
    BY <2>1 DEF Aged
  <2>7. \A q \in Previews : ~(task'[q].st = "evicted" /\ Stored(task[q].st))
    BY <2>2, <2>3 DEF Stored
  <2>8. QED
    BY <1>3, <2>1, <2>2, <2>5, <2>6, <2>7 DEF Inv, TypeInv, CapacityInv, WithinCapacity
<1>6. QED BY <1>4, <1>5

\* An aged row still satisfies what its state says.
LEMMA AgedInv ==
    ASSUME Inv, NEW q \in Previews, record'[q] \in Record, Aged(q),
           durable' = durable, now' = now
    PROVE  RecordInv(record[q])' /\ (ClaimIsDurable(record[q])' <=> ClaimIsDurable(record[q]))
<1>1. RecordInv(record[q]) /\ record[q] \in Record /\ now \in Nat
  BY DEF Inv, TypeInv
<1>2. ClaimIsDurable(record[q])' <=> ClaimIsDurable(record[q])
  BY DEF Aged, ClaimIsDurable, HasDurableRow
<1> SUFFICES RecordInv(record[q])'
  BY <1>2
<1>3. SweptAt(record[q], now) =>
        record[q].st \in {"pending", "processing"} /\ record[q].expires <= now
  BY <1>1, ConfirmationAssumption DEF SweptAt, Record
<1>4. CASE record'[q].st = record[q].st
  BY <1>1, <1>4 DEF Aged, RecordInv, ClaimIsDurable, HasDurableRow
<1>5. CASE record'[q].st = "expired" /\ SweptAt(record[q], now)
  <2>1. record[q].result = "none" /\ record[q].expires <= now
    BY <1>1, <1>3, <1>5 DEF RecordInv
  <2>2. record'[q].result = "none" /\ record'[q].expires <= now' /\ record'[q].st = "expired"
    BY <1>5, <2>1 DEF Aged
  <2>3. QED BY <2>2 DEF RecordInv
<1>6. CASE record'[q].st = "evicted"
  BY <1>6 DEF RecordInv
<1>7. QED BY <1>4, <1>5, <1>6 DEF Aged

-----------------------------------------------------------------------------
(* The invariant.                                                             *)

LEMMA PublishType ==
    ASSUME TypeInv, NEW p \in Previews, NEW states \in Seq(TaskState), Publish(p, states)
    PROVE  events' \in [Previews -> Seq(TaskState)]
<1>1. events[p] \o states \in Seq(TaskState)
  BY DEF TypeInv
<1> DEFINE e == events[p] \o states
<1>2. events' = [events EXCEPT ![p] = e]
  BY DEF Publish
<1> HIDE DEF e
<1>3. QED BY <1>1, <1>2 DEF TypeInv, e

\* Steps that touch neither table nor the loop, and no durable row.
LEMMA QuietStep ==
    ASSUME Inv, UNCHANGED <<record, task, durable, incident, writes>>,
           loop' = loop \/ loop' = Idle, now' \in Nat, now <= now', telemetry' \in Nat,
           events' \in [Previews -> Seq(TaskState)]
    PROVE  Inv'
<1> USE DEF Inv
<1>1. TypeInv'
  BY DEF TypeInv
<1>2. LoopInv'
  BY DEF LoopInv, ClaimIsDurable, HasDurableRow
<1>3. CommitInv'
  BY DEF CommitInv, ClaimIsDurable, HasDurableRow
<1>4. CapacityInv'
  BY DEF CapacityInv, WithinCapacity, StoredPreviews
<1>5. ASSUME NEW p \in Previews PROVE RecordInv(record[p])'
  <2>1. RecordInv(record[p]) /\ record[p] \in Record /\ now \in Nat
    BY DEF TypeInv
  <2>2. QED BY <2>1 DEF RecordInv, ClaimIsDurable, HasDurableRow, Record
<1>6. QED BY <1>1, <1>2, <1>3, <1>4, <1>5

LEMMA InitInv == Init => Inv
<1> SUFFICES ASSUME Init PROVE Inv
  OBVIOUS
<1> USE DEF Init
<1>1. NoRecord \in Record /\ NoTask \in TaskRow /\ <<>> \in Seq(TaskState)
  BY DEF NoRecord, Record, RecordState, NoTask, TaskRow
<1>2. TypeInv
  BY <1>1 DEF TypeInv
<1>3. StoredPreviews(record) = {} /\ StoredPreviews(task) = {}
  BY DEF StoredPreviews, Stored, NoRecord, NoTask
<1>4. CapacityInv
  <2>1. IsFiniteSet({}) /\ Cardinality({}) = 0
    BY FS_EmptySet
  <2>2. 0 <= PendingCapacity /\ 0 <= TaskCapacity
    BY ConfirmationAssumption
  <2>3. QED BY <1>3, <2>1, <2>2 DEF CapacityInv, WithinCapacity
<1>5. \A p \in Previews : RecordInv(record[p])
  BY DEF RecordInv, NoRecord
<1>6. QED BY <1>2, <1>4, <1>5 DEF Inv, LoopInv, CommitInv

\* A step of the confirmation in progress that changes the record of its
\* preview to another stored one.
LEMMA LoopRecordStep ==
    ASSUME Inv, loop # Idle, NEW r \in Record, Stored(r.st),
           record' = [record EXCEPT ![loop.p] = r],
           UNCHANGED <<now, task, telemetry, durable, incident, writes>>,
           events' \in [Previews -> Seq(TaskState)],
           loop' \in Confirmation \cup {Idle},
           loop' # Idle => /\ loop'.p = loop.p /\ loop'.at = "decide"
                           /\ r.st = "processing" /\ r.claim = loop'.d,
           RecordInv(r),
           writes[loop.p] > 0 => ClaimIsDurable(r)
    PROVE  Inv'
<1> USE DEF Inv
<1> DEFINE p == loop.p
<1>1. p \in Previews /\ Stored(record[p].st)
  BY DEF LoopInv, TypeInv, Confirmation
<1>2. /\ record' \in [Previews -> Record] /\ record'[p] = r
      /\ \A q \in Previews \ {p} : record'[q] = record[q]
  BY <1>1 DEF TypeInv
<1>3. TypeInv'
  BY <1>2 DEF TypeInv
<1>4. LoopInv'
  BY <1>2 DEF LoopInv, Confirmation
<1>5. CommitInv'
  BY <1>2 DEF CommitInv, ClaimIsDurable, HasDurableRow
<1>6. CapacityInv'
  <2>1. StoredPreviews(record') = StoredPreviews(record)
    BY <1>1, <1>2 DEF StoredPreviews
  <2>2. QED BY <2>1 DEF CapacityInv, WithinCapacity
<1>7. ASSUME NEW q \in Previews PROVE RecordInv(record[q])'
  BY <1>2 DEF RecordInv, ClaimIsDurable, HasDurableRow
<1>8. QED BY <1>3, <1>4, <1>5, <1>6, <1>7

\* The five ends of claim: expiry, a new claim, a refusal, a repeated claim
\* and a repeated answer.
LEMMA ClaimStep ==
    ASSUME Inv, ClaimConfirmation
    PROVE  Inv'
<1> DEFINE p == loop.p
           r == record[p]
<1>1. /\ loop \in Confirmation /\ p \in Previews /\ r \in Record /\ loop # Idle
      /\ Stored(r.st) /\ r.st # "cancelled" /\ RecordInv(r) /\ now \in Nat
      /\ loop.d \in Decision /\ loop.d # Unclaimed
      /\ record \in [Previews -> Record]
  BY MarkersAssumption DEF ClaimConfirmation, Inv, TypeInv, LoopInv, Confirmation
<1>2. UNCHANGED <<now, task, telemetry, durable, incident, writes>>
  BY DEF ClaimConfirmation
<1>3. ASSUME NEW states \in Seq(TaskState), Leave(states)
      PROVE  events' \in [Previews -> Seq(TaskState)] /\ loop' = Idle
  BY <1>1, <1>3, PublishType DEF Leave, Inv
<1>4. writes[p] > 0 => ClaimIsDurable(r)
  BY <1>1 DEF Inv, CommitInv
<1>5. <<"failed">> \in Seq(TaskState) /\ <<"completed">> \in Seq(TaskState)
  BY DEF TaskState, TerminalTaskStates
<1>6. CASE ClaimExpires(r) /\ Leave(<<"failed">>)
           /\ record' = [record EXCEPT ![p].st = "expired", ![p].updated = now]
  <2> DEFINE new == [r EXCEPT !.st = "expired", !.updated = now]
  <2>1. record' = [record EXCEPT ![p] = new]
    BY <1>1, <1>6
  <2>2. r.st \in {"pending", "processing"} /\ r.expires <= now
    BY <1>6 DEF ClaimExpires
  <2>3. /\ new \in Record /\ new.st = "expired" /\ new.result = r.result
        /\ new.expires = r.expires /\ new.claim = r.claim
    BY <1>1 DEF Record, RecordState, DecidedStates
  <2> HIDE DEF new
  <2>4. RecordInv(new) /\ Stored(new.st)
    BY <1>1, <2>2, <2>3 DEF RecordInv, Stored
  <2>5. writes[p] > 0 => ClaimIsDurable(new)
    BY <1>4, <2>3 DEF ClaimIsDurable
  <2>6. QED BY <1>1, <1>2, <1>3, <1>5, <1>6, <2>1, <2>3, <2>4, <2>5, LoopRecordStep
<1>7. CASE /\ r.st = "pending"
           /\ record' = [record EXCEPT ![p].st = "processing", ![p].claim = loop.d,
                                       ![p].updated = now]
           /\ loop' = [loop EXCEPT !.at = "decide"] /\ UNCHANGED events
  <2> DEFINE new == [r EXCEPT !.st = "processing", !.claim = loop.d, !.updated = now]
  <2>1. record' = [record EXCEPT ![p] = new]
    BY <1>1, <1>7
  <2>2. /\ new \in Record /\ new.st = "processing" /\ new.result = r.result
        /\ new.claim = loop.d
    BY <1>1 DEF Record, RecordState
  <2>3. /\ loop' \in Confirmation /\ loop'.p = p /\ loop'.at = "decide"
        /\ loop'.d = loop.d
    BY <1>1, <1>7 DEF Confirmation
  <2> HIDE DEF new
  <2>4. RecordInv(new) /\ Stored(new.st)
    BY <1>1, <1>7, <2>2 DEF RecordInv, Stored
  <2>5. writes[p] > 0 => ClaimIsDurable(new)
    <3>1. ~ClaimIsDurable(r)
      BY <1>1, <1>7 DEF RecordInv, ClaimIsDurable
    <3>2. QED BY <1>4, <3>1
  <2>6. events' \in [Previews -> Seq(TaskState)]
    BY <1>7 DEF Inv, TypeInv
  <2>7. QED BY <1>1, <1>2, <2>1, <2>2, <2>3, <2>4, <2>5, <2>6, LoopRecordStep
<1>8. CASE record' = record /\ (Leave(<<"failed">>) \/ Leave(<<"completed">>))
  <2>1. events' \in [Previews -> Seq(TaskState)] /\ loop' = Idle
    BY <1>3, <1>5, <1>8
  <2>2. now' \in Nat /\ now <= now' /\ telemetry' \in Nat
    BY <1>1, <1>2 DEF Inv, TypeInv
  <2>3. QED BY <1>2, <1>8, <2>1, <2>2, QuietStep
<1>9. CASE /\ r.st = "processing" /\ SameDecision(r)
           /\ loop' = [loop EXCEPT !.at = "decide"] /\ UNCHANGED <<events, record>>
  <2>1. /\ loop' \in Confirmation /\ loop'.p = p /\ loop'.at = "decide"
        /\ loop'.d = loop.d
    BY <1>1, <1>9 DEF Confirmation
  <2>2. record' = [record EXCEPT ![p] = r]
    BY <1>1, <1>9
  <2>3. events' \in [Previews -> Seq(TaskState)]
    BY <1>9 DEF Inv, TypeInv
  <2>4. r.claim = loop'.d
    BY <1>9, <2>1 DEF SameDecision
  <2>5. QED BY <1>1, <1>2, <1>4, <1>9, <2>1, <2>2, <2>3, <2>4, LoopRecordStep
<1>10. QED BY <1>6, <1>7, <1>8, <1>9 DEF ClaimConfirmation

\* A rejection stores its answer.
LEMMA RejectStep ==
    ASSUME Inv, RejectCandidate
    PROVE  Inv'
<1> DEFINE p == loop.p
           r == record[p]
           new == [r EXCEPT !.st = "rejected", !.result = "rejected", !.updated = now]
<1>1. /\ loop \in Confirmation /\ p \in Previews /\ r \in Record /\ loop # Idle
      /\ r.st = "processing" /\ r.claim = loop.d /\ now \in Nat
      /\ loop.d.decision = "REJECT" /\ record \in [Previews -> Record]
  BY DEF RejectCandidate, Inv, TypeInv, LoopInv, Confirmation
<1>2. <<"completed">> \in Seq(TaskState)
  BY DEF TaskState, TerminalTaskStates
<1>3. events' \in [Previews -> Seq(TaskState)] /\ loop' = Idle
  BY <1>1, <1>2, PublishType DEF RejectCandidate, Leave, Inv
<1>4. record' = [record EXCEPT ![p] = new]
  BY <1>1 DEF RejectCandidate
<1>5. ~ClaimIsDurable(r) /\ ~(writes[p] > 0)
  BY <1>1 DEF ClaimIsDurable, Inv, CommitInv
<1>6. /\ new \in Record /\ new.st = "rejected" /\ new.result = "rejected"
      /\ new.claim = r.claim
  BY <1>1 DEF Record, RecordState, DecidedStates
<1> HIDE DEF new
<1>7. RecordInv(new) /\ Stored(new.st)
  BY <1>1, <1>6 DEF RecordInv, Stored
<1>8. QED BY <1>1, <1>3, <1>4, <1>5, <1>6, <1>7, LoopRecordStep DEF RejectCandidate

\* The answer of a confirmed candidate is stored after its incident.
LEMMA FinishStep ==
    ASSUME Inv, FinishConfirmation
    PROVE  Inv'
<1> DEFINE p == loop.p
           r == record[p]
           res == IF loop.replay THEN "replayed" ELSE "written"
           new == [r EXCEPT !.st = "completed", !.updated = now, !.result = res]
<1>1. /\ loop \in Confirmation /\ p \in Previews /\ r \in Record /\ loop # Idle
      /\ r.st = "processing" /\ ClaimIsDurable(r) /\ now \in Nat
      /\ record \in [Previews -> Record]
  BY DEF FinishConfirmation, Inv, TypeInv, LoopInv, Confirmation
<1>2. <<"completed">> \in Seq(TaskState)
  BY DEF TaskState, TerminalTaskStates
<1>3. events' \in [Previews -> Seq(TaskState)] /\ loop' = Idle
  BY <1>1, <1>2, PublishType DEF FinishConfirmation, Leave, Inv
<1>4. record' = [record EXCEPT ![p] = new]
  BY <1>1 DEF FinishConfirmation
<1>5. res \in {"written", "replayed"}
  OBVIOUS
<1> HIDE DEF res
<1>6. /\ new \in Record /\ new.st = "completed" /\ new.result = res
      /\ new.claim = r.claim
  BY <1>1, <1>5 DEF Record, RecordState, DecidedStates
<1> HIDE DEF new
<1>7. RecordInv(new) /\ Stored(new.st) /\ ClaimIsDurable(new)
  BY <1>1, <1>5, <1>6 DEF RecordInv, Stored, ClaimIsDurable
<1>8. QED BY <1>1, <1>3, <1>4, <1>6, <1>7, LoopRecordStep DEF FinishConfirmation

\* The incident and its idempotency row are committed while the record is the
\* loop's claim, so the commit is the claim's.
LEMMA WriteStep ==
    ASSUME Inv, WriteIncident
    PROVE  Inv'
<1> USE DEF Inv
<1> DEFINE p == loop.p
           r == record[p]
           row == <<loop.d.cand, loop.d.key>>
<1>1. /\ loop \in Confirmation /\ p \in Previews /\ loop # Idle
      /\ loop.d \in Decision /\ loop.d # Unclaimed /\ loop.d.decision = "CONFIRM"
      /\ r.st = "processing" /\ r.claim = loop.d
  BY MarkersAssumption DEF WriteIncident, TypeInv, LoopInv, Confirmation
<1>2. /\ UNCHANGED <<now, record, task, events, telemetry>>
      /\ durable' = durable \cup {row} /\ incident' = incident \cup {loop.d.cand}
  BY DEF WriteIncident
<1>3. PICK replay \in BOOLEAN :
        /\ loop' = [loop EXCEPT !.at = "finish", !.replay = replay]
        /\ writes' = [writes EXCEPT ![p] = IF replay THEN @ ELSE @ + 1]
  <2>1. HasDurableRow(loop.d.cand, loop.d.key) \in BOOLEAN
    BY DEF HasDurableRow
  <2>2. QED BY <2>1 DEF WriteIncident
<1>4. /\ loop' \in Confirmation /\ loop'.p = p /\ loop'.at = "finish"
      /\ loop'.d = loop.d
  BY <1>1, <1>3 DEF Confirmation
<1>5. writes' \in [Previews -> Nat] /\ \A q \in Previews \ {p} : writes'[q] = writes[q]
  BY <1>1, <1>3 DEF TypeInv
<1>6. TypeInv'
  BY <1>2, <1>4, <1>5 DEF TypeInv
<1>7. \A q \in Previews : ClaimIsDurable(record[q]) => ClaimIsDurable(record[q])'
  BY <1>2 DEF ClaimIsDurable, HasDurableRow
<1>8. \A q \in Previews : q = p => ClaimIsDurable(record[q])'
  BY <1>1, <1>2 DEF ClaimIsDurable, HasDurableRow
<1>9. LoopInv'
  BY <1>1, <1>2, <1>4 DEF LoopInv, Stored, ClaimIsDurable, HasDurableRow
<1>10. CommitInv'
  <2>1. \A q \in Previews : writes'[q] > 0 => ClaimIsDurable(record[q])'
    <3> SUFFICES ASSUME NEW q \in Previews, writes'[q] > 0
                 PROVE  ClaimIsDurable(record[q])'
      OBVIOUS
    <3>1. CASE q = p
      BY <1>8, <3>1
    <3>2. CASE q # p
      BY <1>5, <1>7, <3>2 DEF CommitInv
    <3>3. QED BY <3>1, <3>2
  <2>2. \A c \in Candidates, k \in Keys : <<c, k>> \in durable' => c \in incident'
    BY <1>2 DEF CommitInv
  <2>3. QED BY <2>1, <2>2 DEF CommitInv
<1>11. CapacityInv'
  BY <1>2 DEF CapacityInv, WithinCapacity, StoredPreviews
<1>12. ASSUME NEW q \in Previews PROVE RecordInv(record[q])'
  <2>1. RecordInv(record[q]) /\ record[q] \in Record
    BY DEF TypeInv
  <2>2. CASE record[q].st = "rejected"
    BY <1>2, <2>1, <2>2 DEF RecordInv
  <2>3. CASE record[q].st # "rejected"
    BY <1>2, <1>7, <2>1, <2>3 DEF RecordInv
  <2>4. QED BY <2>2, <2>3
<1>13. QED BY <1>6, <1>9, <1>10, <1>11, <1>12

\* Inserting a preview.
LEMMA ScanStep ==
    ASSUME Inv, NEW p \in Previews, ScanWithCandidates(p)
    PROVE  Inv'
<1> USE DEF Inv
<1>1. /\ UNCHANGED <<now, task, telemetry, durable, incident, loop, writes>> /\ loop = Idle
      /\ Publish(p, <<"submitted", "working", "input-required">>)
  BY DEF ScanWithCandidates, Request
<1>2. events' \in [Previews -> Seq(TaskState)]
  <2>1. <<"submitted", "working", "input-required">> \in Seq(TaskState)
    BY DEF TaskState
  <2>2. QED BY <1>1, <2>1, PublishType
<1>3. TypeInv'
  BY <1>1, <1>2, ScanFacts DEF TypeInv
<1>4. ASSUME NEW q \in Previews
      PROVE  /\ RecordInv(record[q])'
             /\ ClaimIsDurable(record[q]) => ClaimIsDurable(record[q])'
  <2>1. CASE q = p
    <3>1. record[q].claim = Unclaimed
      BY <2>1, ScanFacts DEF RecordInv
    <3>2. QED BY <2>1, <3>1, ScanFacts DEF RecordInv, ClaimIsDurable
  <2>2. CASE q # p
    <3>1. Aged(q) /\ record'[q] \in Record
      BY <2>2, ScanFacts
    <3>2. QED BY <1>1, <3>1, AgedInv
  <2>3. QED BY <2>1, <2>2
<1>5. CommitInv'
  <2>1. \A q \in Previews : writes'[q] > 0 => ClaimIsDurable(record[q])'
    BY <1>1, <1>4 DEF CommitInv
  <2>2. QED BY <1>1, <2>1 DEF CommitInv
<1>6. LoopInv'
  BY <1>1 DEF LoopInv
<1>7. CapacityInv'
  <2>1. StoredPreviews(task') = StoredPreviews(task)
    BY <1>1
  <2>2. QED BY <2>1, ScanFacts DEF CapacityInv, WithinCapacity
<1>8. QED BY <1>3, <1>4, <1>5, <1>6, <1>7

\* Storing a task state.
LEMMA SaveStep ==
    ASSUME Inv, NEW p \in Previews, SaveTask(p)
    PROVE  Inv'
<1> USE DEF Inv
<1>1. UNCHANGED <<now, telemetry, durable, incident, loop, writes>> /\ loop = Idle
  BY DEF SaveTask
<1>2. TypeInv'
  BY <1>1, SaveFacts DEF TypeInv
<1>3. ASSUME NEW q \in Previews
      PROVE  /\ RecordInv(record[q])'
             /\ ClaimIsDurable(record[q]) => ClaimIsDurable(record[q])'
  <2>1. Aged(q) /\ record'[q] \in Record
    BY SaveFacts
  <2>2. QED BY <1>1, <2>1, AgedInv
<1>4. CommitInv'
  <2>1. \A q \in Previews : writes'[q] > 0 => ClaimIsDurable(record[q])'
    BY <1>1, <1>3 DEF CommitInv
  <2>2. QED BY <1>1, <2>1 DEF CommitInv
<1>5. LoopInv'
  BY <1>1 DEF LoopInv
<1>6. CapacityInv'
  BY SaveFacts DEF CapacityInv, WithinCapacity
<1>7. QED BY <1>2, <1>3, <1>4, <1>5, <1>6

\* A pending confirmation is cancelled while the loop is idle.
LEMMA CancelStep ==
    ASSUME Inv, NEW p \in Previews, CancelTask(p)
    PROVE  Inv'
<1> USE DEF Inv
<1> DEFINE new == [record[p] EXCEPT !.st = "cancelled", !.updated = now]
<1>1. /\ UNCHANGED <<now, task, telemetry, durable, incident, loop, writes>> /\ loop = Idle
      /\ Publish(p, <<"canceled">>) /\ record[p].st = "pending"
      /\ record[p] \in Record /\ now \in Nat /\ RecordInv(record[p])
      /\ record' = [record EXCEPT ![p] = new]
  BY DEF CancelTask, Request, TypeInv
<1>2. events' \in [Previews -> Seq(TaskState)]
  <2>1. <<"canceled">> \in Seq(TaskState)
    BY DEF TaskState, TerminalTaskStates
  <2>2. QED BY <1>1, <2>1, PublishType
<1>3. /\ new \in Record /\ new.st = "cancelled" /\ new.result = "none"
      /\ new.claim = Unclaimed /\ record[p].claim = Unclaimed
  BY <1>1 DEF Record, RecordState, DecidedStates, RecordInv
<1> HIDE DEF new
<1>4. /\ record' \in [Previews -> Record] /\ record'[p] = new
      /\ \A q \in Previews \ {p} : record'[q] = record[q]
  BY <1>1, <1>3 DEF TypeInv
<1>5. TypeInv'
  BY <1>1, <1>2, <1>4 DEF TypeInv
<1>6. ASSUME NEW q \in Previews PROVE RecordInv(record[q])'
  <2>1. CASE q = p
    BY <1>3, <1>4, <2>1 DEF RecordInv
  <2>2. CASE q # p
    BY <1>1, <1>4, <2>2 DEF RecordInv, ClaimIsDurable, HasDurableRow
  <2>3. QED BY <2>1, <2>2
<1>7. CommitInv'
  BY <1>1, <1>3, <1>4 DEF CommitInv, ClaimIsDurable, HasDurableRow
<1>8. LoopInv'
  BY <1>1 DEF LoopInv
<1>9. CapacityInv'
  <2>1. StoredPreviews(record') = StoredPreviews(record)
    BY <1>1, <1>3, <1>4 DEF StoredPreviews, Stored
  <2>2. QED BY <1>1, <2>1 DEF CapacityInv, WithinCapacity, StoredPreviews
<1>10. QED BY <1>5, <1>6, <1>7, <1>8, <1>9

\* A confirmation begins on a stored record.
LEMMA BeginStep ==
    ASSUME Inv, NEW p \in Previews, NEW d \in Decision, BeginConfirm(p, d)
    PROVE  Inv'
<1> USE DEF Inv
<1>1. /\ UNCHANGED <<now, record, task, telemetry, durable, incident, writes>>
      /\ Publish(p, <<"working">>) /\ Stored(record[p].st) /\ record[p].st # "cancelled"
  BY DEF BeginConfirm
<1>2. events' \in [Previews -> Seq(TaskState)]
  <2>1. <<"working">> \in Seq(TaskState)
    BY DEF TaskState
  <2>2. QED BY <1>1, <2>1, PublishType
<1>3. PICK allow \in BOOLEAN :
        loop' = [at |-> "claim", p |-> p, d |-> d, replay |-> FALSE, allow |-> allow]
  BY DEF BeginConfirm, HasDurableRow
<1>4. loop' \in Confirmation
  BY <1>3 DEF Confirmation
<1>5. TypeInv'
  BY <1>1, <1>2, <1>4 DEF TypeInv
<1>6. LoopInv'
  BY <1>1, <1>3 DEF LoopInv
<1>7. CommitInv' /\ CapacityInv' /\ \A q \in Previews : RecordInv(record[q])'
  BY <1>1 DEF CommitInv, CapacityInv, WithinCapacity, StoredPreviews, RecordInv,
              ClaimIsDurable, HasDurableRow
<1>8. QED BY <1>5, <1>6, <1>7

\* Requests that change no row: refused scans, analyses, refused follow-ups
\* and confirmations that fail before their write.
LEMMA RefusedStep ==
    ASSUME Inv, NEW p \in Previews, NEW states \in Seq(TaskState), Publish(p, states),
           loop' = loop \/ loop' = Idle,
           UNCHANGED <<now, record, task, telemetry, durable, incident, writes>>
    PROVE  Inv'
<1>1. events' \in [Previews -> Seq(TaskState)]
  BY PublishType DEF Inv
<1>2. now' \in Nat /\ now <= now' /\ telemetry' \in Nat
  BY DEF Inv, TypeInv
<1>3. QED BY <1>1, <1>2, QuietStep

\* Inv is inductive.
LEMMA NextInv == Inv /\ [Next]_vars => Inv'
<1> SUFFICES ASSUME Inv, [Next]_vars PROVE Inv'
  OBVIOUS
<1>1. ASSUME NEW p \in Previews, ScanWithCandidates(p) PROVE Inv'
  BY <1>1, ScanStep
<1>2. ASSUME NEW p \in Previews,
             ScanRefused(p) \/ ExecuteWithoutConfirmation(p) \/ ContinueRefused(p)
      PROVE  Inv'
  <2>1. PICK states \in Seq(TaskState) : Publish(p, states)
    <3>1. \A end \in {"completed", "failed"} : <<"submitted", "working", end>> \in Seq(TaskState)
      BY DEF TaskState, TerminalTaskStates
    <3>2. \A end \in {"failed", "canceled"} : <<"working", end>> \in Seq(TaskState)
      BY DEF TaskState, TerminalTaskStates
    <3>3. QED
      BY <1>2, <3>1, <3>2 DEF ScanRefused, ExecuteWithoutConfirmation, ContinueRefused
  <2>2. UNCHANGED <<now, record, task, telemetry, durable, incident, loop, writes>>
    BY <1>2 DEF ScanRefused, ExecuteWithoutConfirmation, ContinueRefused
  <2>3. QED BY <2>1, <2>2, RefusedStep
<1>3. ASSUME NEW p \in Previews, CancelTask(p) PROVE Inv'
  BY <1>3, CancelStep
<1>4. ASSUME NEW p \in Previews, SaveTask(p) PROVE Inv'
  BY <1>4, SaveStep
<1>5. ASSUME NEW p \in Previews, NEW d \in Decision, BeginConfirm(p, d) PROVE Inv'
  BY <1>5, BeginStep
<1>6. CASE ClaimConfirmation
  BY <1>6, ClaimStep
<1>7. CASE RejectCandidate
  BY <1>7, RejectStep
<1>8. CASE ConfirmFails
  <2>1. /\ loop.p \in Previews /\ Publish(loop.p, <<"failed">>) /\ loop' = Idle
        /\ UNCHANGED <<now, record, task, telemetry, durable, incident, writes>>
    BY <1>8 DEF ConfirmFails, Leave, Inv, TypeInv, Confirmation
  <2>2. <<"failed">> \in Seq(TaskState)
    BY DEF TaskState, TerminalTaskStates
  <2>3. QED BY <2>1, <2>2, RefusedStep
<1>9. CASE WriteIncident
  BY <1>9, WriteStep
<1>10. CASE FinishConfirmation
  BY <1>10, FinishStep
<1>11. CASE ImportTelemetry \/ Tick \/ Crash \/ UNCHANGED vars
  <2>1. /\ UNCHANGED <<record, task, durable, incident, writes>>
        /\ loop' = loop \/ loop' = Idle
        /\ now' = now \/ now' = now + 1
        /\ telemetry' = telemetry \/ telemetry' = 1
        /\ events' = events \/ events' = [p \in Previews |-> <<>>]
    BY <1>11 DEF ImportTelemetry, Tick, Crash, vars
  <2>2. now' \in Nat /\ now <= now' /\ telemetry' \in Nat
    BY <2>1 DEF Inv, TypeInv
  <2>3. events' \in [Previews -> Seq(TaskState)]
    <3>1. events \in [Previews -> Seq(TaskState)] /\ <<>> \in Seq(TaskState)
      BY DEF Inv, TypeInv
    <3>2. QED BY <2>1, <3>1
  <2>4. QED BY <2>1, <2>2, <2>3, QuietStep
<1>12. QED
  BY <1>1, <1>2, <1>3, <1>4, <1>5, <1>6, <1>7, <1>8, <1>9, <1>10, <1>11 DEF Next

\* Inv holds in every reachable state.
LEMMA InvAlways == Spec => []Inv
BY InitInv, NextInv, PTL DEF Spec

\* Whatever requests, crashes, expiries and late task events come: a completed
\* confirmation has its durable incident, a commit can be traced to its
\* preview, and both tables keep their capacity (create, claim and finish of
\* DuckDbPendingConfirmationStore, DuckDbTaskStore.save).
THEOREM AccountedFor == Spec => []CommitsAreAccountedFor
<1>1. Inv => CommitsAreAccountedFor
  <2> SUFFICES ASSUME Inv PROVE CommitsAreAccountedFor
    OBVIOUS
  <2>1. CompletedIsDurable
    <3> SUFFICES ASSUME NEW p \in Previews, record[p].st = "completed"
                 PROVE  ClaimIsDurable(record[p]) /\ record[p].claim.cand \in incident
      BY DEF CompletedIsDurable
    <3>1. ClaimIsDurable(record[p]) /\ record[p].claim \in Decision \cup {Unclaimed}
      BY DEF Inv, RecordInv, TypeInv, Record
    <3>2. record[p].claim.cand \in Candidates /\ record[p].claim.key \in Keys
      BY <3>1 DEF ClaimIsDurable, Decision
    <3>3. QED BY <3>1, <3>2 DEF ClaimIsDurable, HasDurableRow, Inv, CommitInv
  <2>2. CommitIsTraceable
    <3> SUFFICES ASSUME NEW p \in Previews, writes[p] > 0
                 PROVE  \/ record[p].st \in {"processing", "completed", "evicted"}
                        \/ record[p].st = "expired" /\ record[p].expires <= now
      BY DEF CommitIsTraceable
    <3>1. /\ ClaimIsDurable(record[p]) /\ RecordInv(record[p])
          /\ record[p].st \in RecordState
      BY DEF Inv, CommitInv, TypeInv, Record
    <3>2. QED BY <3>1 DEF RecordInv, ClaimIsDurable, RecordState, DecidedStates
  <2>3. QED BY <2>1, <2>2 DEF CommitsAreAccountedFor, Inv, CapacityInv
<1>2. QED BY <1>1, InvAlways, PTL

-----------------------------------------------------------------------------
(* What sweeps and evictions keep.                                            *)

\* A swept claim whose incident is durable is past its recovery window.
LEMMA AgedKeeps ==
    ASSUME NEW q \in Previews, Aged(q)
    PROVE  /\ record[q].st = "processing" /\ ClaimIsDurable(record[q])
                /\ record'[q].st # "processing"
              => now >= record[q].expires + Retention
           /\ record'[q].st = "evicted" /\ record[q].st # "evicted"
              => record[q].st \in DecidedStates \/ SweptAt(record[q], now)
BY DEF Aged, SweptAt, DecidedStates

\* What every step leaves of a row that is still live.
KeepsRow(q) ==
    /\ (/\ loop = Idle /\ loop' = Idle /\ record[q].st = "processing"
        /\ ClaimIsDurable(record[q]) /\ record'[q].st # "processing")
         => now >= record[q].expires + Retention
    /\ record'[q].st = "evicted" /\ record[q].st # "evicted"
         => record[q].st \in DecidedStates \/ SweptAt(record[q], now)
    /\ task'[q].st = "evicted" /\ Stored(task[q].st)
         => task[q].st \in TerminalTaskStates \/ record'[q].st = "expired"

\* Only sweeps and evictions give a row up; everything else changes one
\* record, and none of the changes is a deletion.
LEMMA KeepStep ==
    ASSUME Inv, [Next]_vars, NEW q \in Previews
    PROVE  KeepsRow(q)
<1>0. record \in [Previews -> Record] /\ (loop # Idle => loop.p \in Previews)
  BY DEF Inv, TypeInv, Confirmation
<1>1. ASSUME NEW p \in Previews, ScanWithCandidates(p) PROVE KeepsRow(q)
  <2>1. task' = task
    BY <1>1 DEF ScanWithCandidates
  <2>2. CASE q = p
    BY <1>1, <2>1, <2>2, ScanFacts DEF KeepsRow, Stored
  <2>3. CASE q # p
    <3>1. Aged(q)
      BY <1>1, <2>3, ScanFacts
    <3>2. QED BY <2>1, <3>1, AgedKeeps DEF KeepsRow, Stored
  <2>4. QED BY <2>2, <2>3
<1>2. ASSUME NEW p \in Previews, SaveTask(p) PROVE KeepsRow(q)
  BY <1>2, SaveFacts, AgedKeeps DEF KeepsRow
<1>3. ASSUME NEW p \in Previews, CancelTask(p) PROVE KeepsRow(q)
  BY <1>0, <1>3 DEF CancelTask, KeepsRow, Stored, Record
<1>4. CASE ClaimConfirmation \/ RejectCandidate \/ FinishConfirmation
  <2>1. /\ loop # Idle /\ task' = task
        /\ record'[q].st = record[q].st \/ record'[q].st # "evicted"
    BY <1>0, <1>4 DEF ClaimConfirmation, RejectCandidate, FinishConfirmation, Record
  <2>2. QED BY <2>1 DEF KeepsRow, Stored
<1>5. CASE UNCHANGED <<record, task>>
  BY <1>5 DEF KeepsRow, Stored
<1>6. ASSUME NEW p \in Previews, NEW d \in Decision, BeginConfirm(p, d)
      PROVE  UNCHANGED <<record, task>>
  BY <1>6 DEF BeginConfirm
<1>7. QED
  BY <1>1, <1>2, <1>3, <1>4, <1>5, <1>6
     DEF Next, vars, ScanRefused, ExecuteWithoutConfirmation, ContinueRefused,
         ConfirmFails, WriteIncident, ImportTelemetry, Tick, Crash

\* No sweep gives up a durable claim inside its recovery window, and making
\* room removes only what is finished (_reconcile_expired_confirmations,
\* create, DuckDbTaskStore.save).
THEOREM Kept == Spec => RecoverableIsKept
<1>1. Inv /\ [Next]_vars =>
        [\A p \in Previews :
           (/\ loop = Idle /\ loop' = Idle /\ record[p].st = "processing"
            /\ ClaimIsDurable(record[p]) /\ record'[p].st # "processing")
           => now >= record[p].expires + Retention]_vars
  BY KeepStep DEF KeepsRow
<1>2. Inv /\ [Next]_vars =>
        [\A p \in Previews :
           /\ record'[p].st = "evicted" /\ record[p].st # "evicted"
                => record[p].st \in DecidedStates \/ SweptAt(record[p], now)
           /\ task'[p].st = "evicted" /\ Stored(task[p].st)
                => task[p].st \in TerminalTaskStates \/ record'[p].st = "expired"]_vars
  BY KeepStep DEF KeepsRow
<1>3. QED
  BY <1>1, <1>2, InvAlways, PTL
     DEF Spec, RecoverableIsKept, SweepKeepsRecoverable, LiveIsNotEvicted

-----------------------------------------------------------------------------
(* The contract.                                                              *)

\* The contract's step, for one preview.
Move(q) ==
    \/ OutcomeOf(record[q])' = OutcomeOf(record[q]) /\ writes'[q] = writes[q]
    \/ /\ OutcomeOf(record[q])' \in Contract!Moves[OutcomeOf(record[q])]
       /\ \/ writes'[q] = writes[q]
          \/ OutcomeOf(record[q])' = "written" /\ writes'[q] = writes[q] + 1

\* What the outcome of a record is, state by state.
OutcomeFacts ==
    \A q \in Previews :
      LET r == record[q]
          o == OutcomeOf(r)
      IN /\ r.st = "none" => o = "none"
         /\ r.st \in {"pending", "processing"} =>
              o = IF ClaimIsDurable(r) THEN "written" ELSE "open"
         /\ r.st = "pending" => ~ClaimIsDurable(r)
         /\ r.st \in DecidedStates \cup {"evicted"} =>
              o = IF r.result = "rejected" THEN "rejected"
                  ELSE IF r.result = "none" THEN "closed" ELSE "confirmed"
         /\ r.st \in {"cancelled", "expired"} => r.result = "none"
         /\ r.st = "completed" => r.result \in {"written", "replayed"}
         /\ r.st = "rejected" => r.result = "rejected"

LEMMA Outcomes == Inv => OutcomeFacts
BY DEF Inv, TypeInv, Record, RecordInv, OutcomeFacts, OutcomeOf, DecidedStates,
       ClaimIsDurable

LEMMA OutcomesPrimed == Inv' => OutcomeFacts'
BY Outcomes, PTL

LEMMA AllowedMoves ==
    /\ "open" \in Contract!Moves["none"]
    /\ {"written", "rejected", "closed"} \subseteq Contract!Moves["open"]
    /\ {"confirmed", "closed"} \subseteq Contract!Moves["written"]
BY DEF Contract!Moves

\* A sweep closes what is open or written; an eviction changes no outcome.
LEMMA AgedMove ==
    ASSUME Inv, Inv', NEW q \in Previews, Aged(q), UNCHANGED <<now, durable, writes>>
    PROVE  Move(q)
<1>1. OutcomeFacts /\ OutcomeFacts' /\ record[q] \in Record /\ RecordInv(record[q])
  BY Outcomes, OutcomesPrimed DEF Inv, TypeInv
<1>2. ClaimIsDurable(record[q])' <=> ClaimIsDurable(record[q])
  BY DEF Aged, ClaimIsDurable, HasDurableRow
<1> DEFINE r == record[q]
           o == OutcomeOf(r)
<1>3. CASE SweptAt(r, now) /\ record'[q].st \in {"expired", "evicted"}
  <2>1. r.st \in {"pending", "processing"} /\ r.result = "none"
    BY <1>1, <1>3 DEF SweptAt, RecordInv
  <2>2. o \in {"open", "written"}
    BY <1>1, <2>1 DEF OutcomeFacts
  <2>3. record'[q].result = "none"
    BY <2>1 DEF Aged
  <2>4. OutcomeOf(record[q])' = "closed"
    BY <1>1, <1>3, <2>3 DEF OutcomeFacts, DecidedStates
  <2>5. QED BY <2>2, <2>4, AllowedMoves DEF Move
<1>4. CASE record'[q].st = r.st
  <2>1. OutcomeOf(record[q])' = o
    BY <1>2, <1>4 DEF Aged, OutcomeOf
  <2>2. QED BY <2>1 DEF Move
<1>5. CASE r.st \in DecidedStates /\ record'[q].st = "evicted"
  <2>1. OutcomeOf(record[q])' = o
    BY <1>1, <1>5 DEF Aged, OutcomeFacts
  <2>2. QED BY <2>1 DEF Move
<1>6. QED BY <1>3, <1>4, <1>5 DEF Aged

\* A step that changes neither the row nor its durable claim.
LEMMA SameMove ==
    ASSUME NEW q \in Previews, record'[q] = record[q], UNCHANGED <<durable, writes>>
    PROVE  Move(q)
<1>1. OutcomeOf(record[q])' = OutcomeOf(record[q])
  BY DEF OutcomeOf, ClaimIsDurable, HasDurableRow
<1>2. QED BY <1>1 DEF Move

\* Every step of the agent moves every preview as the contract allows.
LEMMA StepMoves ==
    ASSUME Inv, Inv', [Next]_vars, NEW q \in Previews
    PROVE  Move(q)
<1>0. /\ OutcomeFacts /\ OutcomeFacts' /\ record \in [Previews -> Record]
      /\ RecordInv(record[q]) /\ writes \in [Previews -> Nat]
      /\ loop # Idle => loop \in Confirmation /\ loop.p \in Previews
  BY Outcomes, OutcomesPrimed DEF Inv, TypeInv, Confirmation
<1>1. ASSUME NEW p \in Previews, ScanWithCandidates(p) PROVE Move(q)
  <2>1. UNCHANGED <<now, durable, writes>>
    BY <1>1 DEF ScanWithCandidates
  <2>2. CASE q = p
    <3>1. record[q].st = "none" /\ record'[q].st = "pending"
      BY <1>1, <2>2, ScanFacts
    <3>2. OutcomeOf(record[q]) = "none" /\ OutcomeOf(record[q])' = "open"
      BY <1>0, <3>1 DEF OutcomeFacts
    <3>3. QED BY <2>1, <3>2, AllowedMoves DEF Move
  <2>3. CASE q # p
    <3>1. Aged(q)
      BY <1>1, <2>3, ScanFacts
    <3>2. QED BY <2>1, <3>1, AgedMove
  <2>4. QED BY <2>2, <2>3
<1>2. ASSUME NEW p \in Previews, SaveTask(p) PROVE Move(q)
  <2>1. UNCHANGED <<now, durable, writes>>
    BY <1>2 DEF SaveTask
  <2>2. Aged(q)
    BY <1>2, SaveFacts
  <2>3. QED BY <2>1, <2>2, AgedMove
<1>3. ASSUME NEW p \in Previews, CancelTask(p) PROVE Move(q)
  <2>1. UNCHANGED <<durable, writes>>
    BY <1>3 DEF CancelTask
  <2>2. CASE q = p
    <3>1. record[q].st = "pending" /\ record'[q].st = "cancelled"
      BY <1>0, <1>3, <2>2 DEF CancelTask, Record
    <3>2. OutcomeOf(record[q]) = "open" /\ OutcomeOf(record[q])' = "closed"
      BY <1>0, <3>1 DEF OutcomeFacts, DecidedStates
    <3>3. QED BY <2>1, <3>2, AllowedMoves DEF Move
  <2>3. CASE q # p
    <3>1. record'[q] = record[q]
      BY <1>0, <1>3, <2>3 DEF CancelTask
    <3>2. QED BY <2>1, <3>1, SameMove
  <2>4. QED BY <2>2, <2>3
<1>4. CASE ClaimConfirmation
  <2>1. UNCHANGED <<durable, writes>> /\ loop # Idle
    BY <1>4 DEF ClaimConfirmation
  <2>2. CASE record'[q] = record[q]
    BY <2>1, <2>2, SameMove
  <2>3. CASE /\ record[q].st \in {"pending", "processing"}
             /\ record'[q].st = "expired"
    <3>1. OutcomeOf(record[q]) \in {"open", "written"} /\ OutcomeOf(record[q])' = "closed"
      BY <1>0, <2>3 DEF OutcomeFacts, DecidedStates
    <3>2. QED BY <2>1, <3>1, AllowedMoves DEF Move
  <2>4. CASE record[q].st = "pending" /\ record'[q].st = "processing"
    <3>1. OutcomeOf(record[q]) = "open" /\ OutcomeOf(record[q])' \in {"open", "written"}
      BY <1>0, <2>4 DEF OutcomeFacts
    <3>2. QED BY <2>1, <3>1, AllowedMoves DEF Move
  <2>5. QED BY <1>0, <1>4, <2>1, <2>2, <2>3, <2>4
             DEF ClaimConfirmation, ClaimExpires, Record
<1>5. CASE RejectCandidate
  <2>1. UNCHANGED <<durable, writes>> /\ loop # Idle
    BY <1>5 DEF RejectCandidate
  <2>2. CASE q = loop.p
    <3>1. /\ record[q].st = "processing" /\ record'[q].st = "rejected"
          /\ record[q].claim = loop.d /\ loop.d.decision = "REJECT"
      BY <1>0, <1>5, <2>2 DEF RejectCandidate, Record, Inv, LoopInv
    <3>2. ~ClaimIsDurable(record[q])
      BY <3>1 DEF ClaimIsDurable
    <3>3. OutcomeOf(record[q]) = "open" /\ OutcomeOf(record[q])' = "rejected"
      BY <1>0, <3>1, <3>2 DEF OutcomeFacts, DecidedStates
    <3>4. QED BY <2>1, <3>3, AllowedMoves DEF Move
  <2>3. CASE q # loop.p
    <3>1. record'[q] = record[q]
      BY <1>0, <1>5, <2>3 DEF RejectCandidate
    <3>2. QED BY <2>1, <3>1, SameMove
  <2>4. QED BY <2>2, <2>3
<1>6. CASE FinishConfirmation
  <2>1. UNCHANGED <<durable, writes>> /\ loop # Idle
    BY <1>6 DEF FinishConfirmation
  <2>2. CASE q = loop.p
    <3>1. /\ record[q].st = "processing" /\ record'[q].st = "completed"
          /\ ClaimIsDurable(record[q])
      BY <1>0, <1>6, <2>2 DEF FinishConfirmation, Record, Inv, LoopInv
    <3>2. OutcomeOf(record[q]) = "written"
      BY <1>0, <3>1 DEF OutcomeFacts
    <3>3. OutcomeOf(record[q])' = "confirmed"
      <4>1. record'[q].result \in {"written", "replayed"}
        BY <1>0, <3>1 DEF OutcomeFacts
      <4>2. QED BY <1>0, <3>1, <4>1 DEF OutcomeFacts, DecidedStates
    <3>4. QED BY <2>1, <3>2, <3>3, AllowedMoves DEF Move
  <2>3. CASE q # loop.p
    <3>1. record'[q] = record[q]
      BY <1>0, <1>6, <2>3 DEF FinishConfirmation
    <3>2. QED BY <2>1, <3>1, SameMove
  <2>4. QED BY <2>2, <2>3
<1>7. CASE WriteIncident
  <2> DEFINE c == loop.d.cand
             k == loop.d.key
  <2>1. /\ record' = record /\ durable' = durable \cup {<<c, k>>} /\ loop # Idle
        /\ loop.at = "decide" /\ loop.d.decision = "CONFIRM"
        /\ writes' = [writes EXCEPT ![loop.p] = IF <<c, k>> \in durable THEN @ ELSE @ + 1]
    BY <1>7 DEF WriteIncident, HasDurableRow
  <2>2. /\ record[loop.p].st = "processing" /\ record[loop.p].claim = loop.d
        /\ loop.d # Unclaimed
    BY <1>0, <2>1, MarkersAssumption DEF Inv, LoopInv, Confirmation
  <2>3. /\ ClaimIsDurable(record[q]) => ClaimIsDurable(record[q])'
        /\ q = loop.p => ClaimIsDurable(record[q])'
        /\ q = loop.p => (ClaimIsDurable(record[q]) <=> <<c, k>> \in durable)
    BY <2>1, <2>2 DEF ClaimIsDurable, HasDurableRow
  <2>4. CASE record[q].st \in {"pending", "processing"}
    <3>1. /\ OutcomeOf(record[q]) = IF ClaimIsDurable(record[q]) THEN "written" ELSE "open"
          /\ OutcomeOf(record[q])' = IF ClaimIsDurable(record[q])' THEN "written" ELSE "open"
      BY <1>0, <2>1, <2>4 DEF OutcomeFacts
    <3>2. CASE q = loop.p /\ <<c, k>> \notin durable
      <4>1. OutcomeOf(record[q]) = "open" /\ OutcomeOf(record[q])' = "written"
        BY <2>3, <3>1, <3>2
      <4>2. writes'[q] = writes[q] + 1
        BY <1>0, <2>1, <3>2
      <4>3. QED BY <4>1, <4>2, AllowedMoves DEF Move
    <3>3. CASE q # loop.p \/ <<c, k>> \in durable
      <4>1. writes'[q] = writes[q]
        BY <1>0, <2>1, <3>3
      <4>2. \/ OutcomeOf(record[q])' = OutcomeOf(record[q])
            \/ OutcomeOf(record[q]) = "open" /\ OutcomeOf(record[q])' = "written"
        BY <2>3, <3>1
      <4>3. QED BY <4>1, <4>2, AllowedMoves DEF Move
    <3>4. QED BY <3>2, <3>3
  <2>5. CASE record[q].st \notin {"pending", "processing"}
    <3>1. OutcomeOf(record[q])' = OutcomeOf(record[q])
      BY <1>0, <2>1, <2>5 DEF OutcomeFacts, Record, RecordState
    <3>2. writes'[q] = writes[q]
      BY <1>0, <2>1, <2>2, <2>5
    <3>3. QED BY <3>1, <3>2 DEF Move
  <2>6. QED BY <2>4, <2>5
<1>8. CASE UNCHANGED <<record, durable, writes>>
  BY <1>8, SameMove
<1>9. ASSUME NEW p \in Previews, NEW d \in Decision, BeginConfirm(p, d)
      PROVE  UNCHANGED <<record, durable, writes>>
  BY <1>9 DEF BeginConfirm
<1>10. QED
  BY <1>1, <1>2, <1>3, <1>4, <1>5, <1>6, <1>7, <1>8, <1>9
     DEF Next, vars, ScanRefused, ExecuteWithoutConfirmation, ContinueRefused,
         ConfirmFails, ImportTelemetry, Tick, Crash

\* The agent's two tables and its executor implement ConfirmationContract: for
\* any interleaving of scans, decisions, cancellations, sweeps, evictions and
\* crashes, a preview is decided at most once and commits at most one incident
\* transaction, by the step that makes it written (AssuranceService.confirm).
THEOREM Implements == Spec => ImplementsContract
<1>1. Init => Contract!Init
  <2> SUFFICES ASSUME Init PROVE Contract!Init
    OBVIOUS
  <2>1. \A p \in Previews : OutcomeOf(record[p]) = "none"
    BY DEF Init, OutcomeOf, NoRecord
  <2>2. QED BY <2>1 DEF Init, Contract!Init
<1>2. Inv /\ Inv' /\ [Next]_vars => [Contract!Next]_Contract!cvars
  <2> SUFFICES ASSUME Inv, Inv', [Next]_vars PROVE Contract!Next
    OBVIOUS
  <2>1. \A q \in Previews : Move(q)
    BY StepMoves
  <2> DEFINE S == {q \in Previews : OutcomeOf(record[q])' # OutcomeOf(record[q])}
  <2>2. S \in SUBSET Previews
    OBVIOUS
  <2>3. \A p \in S : OutcomeOf(record[p])' \in Contract!Moves[OutcomeOf(record[p])]
    BY <2>1 DEF Move
  <2>4. \A p \in Previews \ S : OutcomeOf(record[p])' = OutcomeOf(record[p])
    OBVIOUS
  <2>5. \A p \in Previews :
          \/ writes'[p] = writes[p]
          \/ /\ p \in S /\ OutcomeOf(record[p])' = "written"
             /\ writes'[p] = writes[p] + 1
    <3> SUFFICES ASSUME NEW p \in Previews, writes'[p] # writes[p]
                 PROVE  /\ p \in S /\ OutcomeOf(record[p])' = "written"
                        /\ writes'[p] = writes[p] + 1
      OBVIOUS
    <3>1. /\ OutcomeOf(record[p])' \in Contract!Moves[OutcomeOf(record[p])]
          /\ OutcomeOf(record[p])' = "written" /\ writes'[p] = writes[p] + 1
      BY <2>1 DEF Move
    <3>2. "written" \notin Contract!Moves["written"]
      BY DEF Contract!Moves
    <3>3. QED BY <3>1, <3>2
  <2> HIDE DEF S
  <2>6. QED BY <2>2, <2>3, <2>4, <2>5 DEF Contract!Next
<1>3. QED
  BY <1>1, <1>2, InvAlways, PTL DEF Spec, ImplementsContract, Contract!Spec
=============================================================================
