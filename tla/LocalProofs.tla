----------------------------- MODULE LocalProofs -----------------------------
(* Proofs about the parts of the local deployment that MCLocal runs, for any   *)
(* requests, runners, plan lengths, stores, processes and bounds: the HTTP      *)
(* boundary admits nothing beside an operation whose outcome is unknown, the    *)
(* replay checkpoint is never ahead of the receiver, a paced delivery keeps its *)
(* schedule, the tables of the DuckDB store agree after every crash, and no     *)
(* step loses what was stored.                                                  *)
EXTENDS MCLocal, Integers, Sequences, SequenceTheorems, FiniteSetTheorems, WellFoundedInduction,
        TLAPS

----------------------------------------------------------------------------
(* The HTTP boundary *)

Held == {"reading", "calling", "submit", "starting"}

HttpTypes ==
    /\ pc \in [Http!Requests -> Held \cup {"new", "waiting", "over"}]
    /\ answerHttp \in [Http!Requests -> {"none", "refused", "busy", "timeout", "invalid",
                                         "result", "uncertain", "gone"}]
    /\ opHttp \in [Http!Requests -> {"none", "queued", "running", "done"}]
    /\ lease \in Http!Requests \cup {None}
    /\ inflight \in Http!Requests \cup {None}
    /\ callbacks \subseteq Http!Requests

\* Who is past admission holds the lease, and has submitted nothing before it waits.
LeaseHeld ==
    \A r \in Http!Requests :
        /\ pc[r] \in Held \cup {"waiting"} => lease = r
        /\ pc[r] \in Held \cup {"new"} => opHttp[r] = "none"
        /\ answerHttp[r] # "none" => pc[r] = "over"

\* The slot belongs to the unsettled operation: it is cleared only by the callback
\* of a future that is done.
SlotHeld ==
    /\ \A r \in Http!Requests : Http!Unsettled(r) => inflight = r
    /\ \A r \in callbacks : opHttp[r] = "done"

HttpInv == /\ HttpTypes /\ LeaseHeld /\ SlotHeld
           /\ Http!NothingBesideUnknownOutcome /\ Http!RefusedHasNoEffect

LEMMA HttpInitially == Http!Init => HttpInv
BY HttpConstants DEF Http!Init, HttpInv, HttpTypes, LeaseHeld, SlotHeld, Held, Http!Unsettled,
       Http!NothingBesideUnknownOutcome, Http!RefusedHasNoEffect, Http!BoundaryAssumption, Http!Requests

\* What giving an answer to a request that has not been submitted, or whose answer
\* does not promise that nothing was done, preserves.
LEMMA AnswerKeeps ==
    ASSUME HttpInv, NEW r \in Http!Requests,
           NEW a \in {"refused", "busy", "timeout", "invalid", "result", "uncertain", "gone"},
           a \in {"refused", "busy", "timeout", "invalid"} => opHttp[r] = "none",
           Http!Answer(r, a), UNCHANGED <<inflight, opHttp, callbacks>>
    PROVE  HttpInv'
<1> USE HttpConstants DEF HttpInv, Http!BoundaryAssumption, Http!Answer
<1>0. Http!Requests' = Http!Requests /\ None \notin Http!Requests
  BY DEF Http!Requests
<1>1. HttpTypes'
  BY <1>0 DEF HttpTypes, Held
<1>2. LeaseHeld'
  BY <1>0 DEF HttpTypes, LeaseHeld, Held
<1>3. SlotHeld'
  BY <1>0 DEF HttpTypes, SlotHeld, Http!Unsettled
<1>4. Http!NothingBesideUnknownOutcome'
  BY <1>0 DEF HttpTypes, Http!NothingBesideUnknownOutcome, Http!Unsettled
<1>5. Http!RefusedHasNoEffect'
  BY <1>0 DEF HttpTypes, Http!RefusedHasNoEffect
<1> QED BY <1>1, <1>2, <1>3, <1>4, <1>5

\* Reading on, up to the start of the worker: the request keeps its lease.
LEMMA HeldMoves ==
    ASSUME HttpInv, NEW r \in Http!Requests, NEW p \in Held, pc[r] \in Held,
           pc' = [pc EXCEPT ![r] = p],
           UNCHANGED <<answerHttp, lease, inflight, opHttp, callbacks>>
    PROVE  HttpInv'
<1> USE DEF HttpInv
<1>0. Http!Requests' = Http!Requests
  BY DEF Http!Requests
<1>1. HttpTypes'
  BY <1>0 DEF HttpTypes, Held
<1>2. LeaseHeld'
  BY <1>0 DEF HttpTypes, LeaseHeld, Held
<1>3. SlotHeld'
  BY <1>0 DEF HttpTypes, SlotHeld, Http!Unsettled
<1>4. Http!NothingBesideUnknownOutcome'
  BY <1>0 DEF HttpTypes, Http!NothingBesideUnknownOutcome, Http!Unsettled, Held
<1>5. Http!RefusedHasNoEffect'
  BY <1>0 DEF HttpTypes, Http!RefusedHasNoEffect
<1> QED BY <1>1, <1>2, <1>3, <1>4, <1>5

\* Admission: nobody is unsettled and nobody holds the lease.
LEMMA AdmitKeeps ==
    ASSUME HttpInv, NEW r \in Http!Requests, Http!Admit(r)
    PROVE  HttpInv'
<1> USE HttpConstants DEF HttpInv, Http!Admit, Http!serving, Http!BoundaryAssumption
<1>0. Http!Requests' = Http!Requests /\ None \notin Http!Requests
  BY DEF Http!Requests
<1>a. \A q \in Http!Requests : ~Http!Unsettled(q)
  BY <1>0 DEF SlotHeld, Http!AcceptingWork, Http!Busy
<1>1. HttpTypes'
  BY <1>0 DEF HttpTypes, Held
<1>2. LeaseHeld'
  BY <1>0 DEF HttpTypes, LeaseHeld, Held
<1>3. SlotHeld'
  BY <1>0 DEF HttpTypes, SlotHeld, Http!Unsettled
<1>4. Http!NothingBesideUnknownOutcome'
  BY <1>0, <1>a DEF HttpTypes, Http!NothingBesideUnknownOutcome, Http!Unsettled
<1>5. Http!RefusedHasNoEffect'
  BY <1>0 DEF HttpTypes, Http!RefusedHasNoEffect
<1> QED BY <1>1, <1>2, <1>3, <1>4, <1>5

\* Submission: the lease keeps every other request out while this one's operation
\* takes the slot.
LEMMA SubmitKeeps ==
    ASSUME HttpInv, NEW r \in Http!Requests, Http!Submit(r)
    PROVE  HttpInv'
<1> USE HttpConstants DEF HttpInv, Http!Submit, Http!BoundaryAssumption
<1>0. Http!Requests' = Http!Requests /\ None \notin Http!Requests
  BY DEF Http!Requests
<1>a. \A q \in Http!Requests : ~Http!Unsettled(q)
  BY <1>0 DEF SlotHeld, Http!Busy
<1>b. /\ lease = r /\ opHttp[r] = "none" /\ answerHttp[r] = "none"
      /\ \A q \in Http!Requests : q # r => pc[q] \notin Held
  BY DEF LeaseHeld, Held
<1>1. HttpTypes'
  BY <1>0 DEF HttpTypes, Held
<1>2. LeaseHeld'
  BY <1>0, <1>b DEF HttpTypes, LeaseHeld, Held
<1>3. SlotHeld'
  BY <1>0, <1>a, <1>b DEF HttpTypes, SlotHeld, Http!Unsettled
<1>4. Http!NothingBesideUnknownOutcome'
  BY <1>0, <1>a, <1>b DEF HttpTypes, Http!NothingBesideUnknownOutcome, Http!Unsettled, Held
<1>5. Http!RefusedHasNoEffect'
  BY <1>0, <1>b DEF HttpTypes, Http!RefusedHasNoEffect
<1> QED BY <1>1, <1>2, <1>3, <1>4, <1>5

\* The worker thread: an operation that is unsettled goes on or ends, and the slot is
\* cleared by its own callback only.
LEMMA WorkerKeeps ==
    ASSUME HttpInv, NEW r \in Http!Requests,
           Http!RunOperation(r) \/ Http!FinishOperation(r) \/ Http!ClearInflight(r)
    PROVE  HttpInv'
<1> USE DEF HttpInv, Http!RunOperation, Http!FinishOperation, Http!ClearInflight
<1>0. Http!Requests' = Http!Requests
  BY DEF Http!Requests
<1>1. HttpTypes'
  BY <1>0 DEF HttpTypes
<1>2. LeaseHeld'
  BY <1>0 DEF HttpTypes, LeaseHeld, Held
<1>3. SlotHeld'
  BY <1>0 DEF HttpTypes, SlotHeld, Http!Unsettled
<1>4. Http!NothingBesideUnknownOutcome'
  BY <1>0 DEF HttpTypes, Http!NothingBesideUnknownOutcome, Http!Unsettled
<1>5. Http!RefusedHasNoEffect'
  BY <1>0 DEF HttpTypes, Http!RefusedHasNoEffect
<1> QED BY <1>1, <1>2, <1>3, <1>4, <1>5

\* Steps of the thread, of shutdown and of the readiness probe touch none of it.
LEMMA HttpFrame ==
    ASSUME HttpInv, UNCHANGED <<pc, answerHttp, lease, inflight, opHttp, callbacks>>
    PROVE  HttpInv'
BY DEF HttpInv, HttpTypes, LeaseHeld, SlotHeld, Held, Http!Unsettled, Http!Requests,
       Http!NothingBesideUnknownOutcome, Http!RefusedHasNoEffect

LEMMA LoopStepKeeps ==
    ASSUME HttpInv, NEW r \in Http!Requests, Http!LoopStep(r) \/ Http!ClientGone(r)
    PROVE  HttpInv'
<1> USE DEF Http!serving
<1>0. /\ pc[r] \in Held \cup {"new"} => opHttp[r] = "none"
      /\ Held = {"reading", "calling", "submit", "starting"}
  BY DEF HttpInv, LeaseHeld, Held
<1>1. CASE Http!RefuseHeaders(r)
  BY <1>0, <1>1, AnswerKeeps DEF Http!RefuseHeaders
<1>2. CASE Http!RefuseBusy(r)
  BY <1>0, <1>2, AnswerKeeps DEF Http!RefuseBusy
<1>3. CASE Http!Admit(r)
  BY <1>3, AdmitKeeps
<1>4. CASE Http!ReadBody(r)
  BY <1>0, <1>4, HeldMoves DEF Http!ReadBody
<1>5. CASE Http!RejectBody(r)
  BY <1>0, <1>5, AnswerKeeps DEF Http!RejectBody
<1>6. CASE Http!ReturnCall(r)
  BY <1>0, <1>6, AnswerKeeps DEF Http!ReturnCall
<1>7. CASE Http!EnsureWorker(r)
  <2>1. CASE closed
    BY <1>0, <1>7, <2>1, AnswerKeeps DEF Http!EnsureWorker
  <2>2. CASE ~closed
    BY <1>0, <1>7, <2>2, HeldMoves DEF Http!EnsureWorker
  <2> QED BY <2>1, <2>2
<1>8. CASE Http!WorkerUnavailable(r)
  BY <1>0, <1>8, AnswerKeeps DEF Http!WorkerUnavailable
<1>9. CASE Http!SubmitRefused(r)
  BY <1>0, <1>9, AnswerKeeps DEF Http!SubmitRefused
<1>10. CASE Http!Submit(r)
  BY <1>10, SubmitKeeps
<1>11. CASE Http!DeliverResult(r)
  BY <1>11, AnswerKeeps DEF Http!DeliverResult
<1>12. CASE Http!DeadlinePasses(r)
  BY <1>12, AnswerKeeps DEF Http!DeadlinePasses
<1>13. CASE Http!ClientGone(r)
  BY <1>13, AnswerKeeps DEF Http!ClientGone
<1> QED
  BY <1>1, <1>2, <1>3, <1>4, <1>5, <1>6, <1>7, <1>8, <1>9, <1>10, <1>11, <1>12, <1>13
     DEF Http!LoopStep

LEMMA HttpStep == HttpInv /\ Http!Next => HttpInv'
<1> SUFFICES ASSUME HttpInv, Http!Next PROVE HttpInv'
  OBVIOUS
<1>1. CASE \E r \in Http!Requests : Http!LoopStep(r) \/ Http!ClientGone(r)
  BY <1>1, LoopStepKeeps
<1>2. CASE \E r \in Http!Requests :
             Http!RunOperation(r) \/ Http!FinishOperation(r) \/ Http!ClearInflight(r)
  BY <1>2, WorkerKeeps
<1>3. CASE \/ Http!WorkerReady \/ Http!WorkerStops \/ Http!Close
           \/ Http!ProbeReads \/ Http!ProbeAnswered \/ Http!ReadEnds
  BY <1>3, HttpFrame DEF Http!WorkerReady, Http!WorkerStops, Http!Close, Http!ProbeReads,
     Http!ProbeAnswered, Http!ReadEnds, Http!serving
<1> QED BY <1>1, <1>2, <1>3 DEF Http!Next

\* The HTTP boundary, for any requests and any number of probes: at most one business
\* operation is unsettled, no other request is past admission meanwhile, and who was
\* refused may retry (try_acquire, _submit, _clear_inflight).
THEOREM Boundary == Spec => []NothingBesideUnknownOutcome
<1> DEFINE Inv == part = "http" => HttpInv
<1>1. Init => Inv
  BY HttpInitially DEF Init
<1>2. Inv /\ [Next]_vars => Inv'
  <2> SUFFICES ASSUME Inv, [Next]_vars, part' = "http" PROVE HttpInv'
    OBVIOUS
  <2>1. CASE part = "http" /\ Http!Next
    BY <2>1, HttpStep
  <2>2. CASE UNCHANGED vars
    BY <2>2, HttpFrame DEF vars, httpVars
  <2> QED BY <2>1, <2>2 DEF Next
<1>3. Inv => NothingBesideUnknownOutcome
  BY DEF NothingBesideUnknownOutcome, HttpInv, SlotHeld, Http!SingleFlight
<1> QED BY <1>1, <1>2, <1>3, PTL DEF Spec

----------------------------------------------------------------------------
(* The replay and its receiver *)

Delivery == [from : Runners, run : Nat, seq : Replay!Events, try : Nat]
Active == {"due", "sending", "receipt"}
Run == [pc : Active \cup {"idle", "over", "raised"}, number : Nat, saves : BOOLEAN,
        at : 0..PlanLength, try : Nat, doubt : BOOLEAN,
        answer : {"none", "refused", "accepted"}, uncertain : Nat]

ReplayTypes ==
    /\ file \in 0..PlanLength
    /\ lockReplay \in Runners \cup {NoRunner}
    /\ run \in [Runners -> Run]
    /\ wire \subseteq Delivery
    /\ opReplay \in Delivery \cup {Replay!NoRequest}
    /\ incidents \in [Replay!Events -> 0..1]

\* The events up to n are stored.
Stored(n) == \A e \in Replay!Events : e <= n => incidents[e] > 0

\* Behind every checkpoint the events are stored, and an acceptance on its way to
\* the sender speaks of an event that is stored.
RunStored(r) ==
    /\ Stored(run[r].at)
    /\ run[r].pc \in {"sending", "receipt"} => run[r].at < PlanLength
    /\ run[r].answer = "accepted" => /\ run[r].pc \in {"sending", "receipt"}
                                    /\ incidents[run[r].at + 1] > 0
    /\ run[r].pc = "receipt" => run[r].answer = "accepted"
    /\ run[r].pc = "due" => run[r].answer = "none"

StoredInv ==
    /\ Stored(file)
    /\ \A r \in Runners : RunStored(r)
    /\ committed => opReplay # Replay!NoRequest /\ incidents[opReplay.seq] > 0

\* A request under way, of the run its process is in, is for the current event or an
\* earlier one, and for the current event it is the current attempt or an earlier one.
NotAhead(q) ==
    LET r == run[q.from]
    IN  /\ q.run <= r.number
        /\ q.run = r.number /\ r.pc # "idle" =>
             /\ q.seq <= r.at + 1
             /\ q.seq = r.at + 1 => q.try <= r.try /\ (r.pc = "due" => q.try < r.try)

\* The receiver holds a request that has left the wire, an answered request has
\* left it too, and a later attempt at an event is made in doubt.
Answered(r) ==
    /\ run[r].pc = "sending" /\ run[r].answer # "none" => Replay!Pending(r) \notin wire
    /\ run[r].pc \in Active /\ ~run[r].doubt => run[r].try = 0

WireInv ==
    /\ \A q \in wire : NotAhead(q)
    /\ opReplay # Replay!NoRequest => NotAhead(opReplay) /\ opReplay \notin wire
    /\ \A r \in Runners : Answered(r)

\* A request that may still be stored, and why the end of its run need not have told.
UnderWay(q) == q \in wire \/ q = opReplay

Excused(r, q) ==
    \/ incidents[q.seq] > 0
    \/ q.seq = run[r].uncertain
    \/ q = opReplay /\ q = Replay!Pending(r) /\ run[r].answer = "refused"

Reported(r) ==
    run[r].pc = "over" => \A q \in Delivery :
        UnderWay(q) /\ q.from = r /\ q.run = run[r].number => Excused(r, q)

ReplayInv == /\ ReplayTypes /\ StoredInv /\ WireInv
             /\ Replay!SaverHoldsLock /\ \A r \in Runners : Reported(r)

\* What the constants give.
LEMMA ReplayFacts ==
    /\ PlanLength \in Nat /\ PlanLength > 0 /\ Backoffs \in Nat /\ MaxRuns \in Nat
    /\ NoRunner \notin Runners
    /\ Replay!Events = 1..PlanLength
    /\ Replay!NoRequest \notin Delivery
BY ReplayConstants DEF Replay!ReplayAssumption, Replay!Events, Replay!NoRequest, Delivery

LEMMA FreshRun ==
    /\ Replay!Fresh \in Run
    /\ "due" \in Active /\ "sending" \in Active /\ "receipt" \in Active
BY ReplayFacts DEF Replay!Fresh, Run, Active

LEMMA ReplayInitially == Replay!Init => ReplayInv
<1> SUFFICES ASSUME Replay!Init PROVE ReplayInv
  OBVIOUS
<1> USE ReplayFacts DEF Replay!Init
<1>1. ReplayTypes
  BY FreshRun DEF ReplayTypes
<1> USE DEF Replay!Fresh
<1>2. StoredInv
  BY DEF StoredInv, RunStored, Stored
<1>3. WireInv
  BY DEF WireInv, Answered, Active
<1>4. Replay!SaverHoldsLock /\ \A r \in Runners : Reported(r)
  BY DEF Replay!SaverHoldsLock, Reported
<1> QED BY <1>1, <1>2, <1>3, <1>4 DEF ReplayInv

\* The fields of a run.
LEMMA RunFields ==
    ASSUME ReplayTypes, NEW r \in Runners
    PROVE  /\ run[r] \in Run
           /\ run[r].number \in Nat /\ run[r].at \in 0..PlanLength /\ run[r].try \in Nat
           /\ run[r].uncertain \in Nat /\ run[r].doubt \in BOOLEAN /\ run[r].saves \in BOOLEAN
           /\ run[r].pc \in Active \cup {"idle", "over", "raised"}
           /\ run[r].answer \in {"none", "refused", "accepted"}
           /\ Replay!Current(r) = run[r].at + 1
BY DEF ReplayTypes, Run, Replay!Current

\* A step of one runner that leaves the wire and the receiver alone, by what it makes
\* of the run: enough to be told about the runner's own part of the invariant.
LEMMA OwnStep ==
    ASSUME ReplayInv, NEW r \in Runners, NEW n \in Run, run' = [run EXCEPT ![r] = n],
           file' \in 0..PlanLength, Stored(file'), RunStored(r)', Answered(r)',
           \A q \in Delivery : q.from = r /\ NotAhead(q) => NotAhead(q)',
           lockReplay' \in {lockReplay, NoRunner, r},
           lockReplay' # lockReplay => lockReplay \in {r, NoRunner},
           n.saves /\ n.pc \in Active => lockReplay' = r,
           Reported(r)',
           UNCHANGED <<wire, opReplay, committed, incidents>>
    PROVE  ReplayInv'
<1>0. /\ \A s \in Runners : s # r => run'[s] = run[s]
      /\ run'[r] = n
  BY DEF ReplayInv, ReplayTypes
<1>1. ReplayTypes'
  BY ReplayFacts DEF ReplayInv, ReplayTypes
<1>2. StoredInv'
  <2>1. \A s \in Runners : RunStored(s)'
    BY <1>0 DEF ReplayInv, StoredInv, RunStored, Stored
  <2>2. Stored(file)'
    BY DEF Stored
  <2> QED BY <2>1, <2>2 DEF ReplayInv, StoredInv
<1>3. WireInv'
  <2>1. \A s \in Runners : Answered(s)'
    BY <1>0 DEF ReplayInv, WireInv, Answered, Replay!Pending, Replay!Current
  <2>2. \A q \in Delivery : NotAhead(q) => NotAhead(q)'
    BY <1>0 DEF NotAhead, Delivery
  <2> QED BY <2>1, <2>2, ReplayFacts DEF ReplayInv, WireInv, ReplayTypes
<1>4. Replay!SaverHoldsLock'
  BY <1>0, ReplayFacts DEF ReplayInv, Replay!SaverHoldsLock, Active
<1>5. ASSUME NEW s \in Runners, s # r PROVE Reported(s)'
  <2>1. Replay!Pending(s)' = Replay!Pending(s) /\ run'[s] = run[s]
    BY <1>0, <1>5 DEF Replay!Pending, Replay!Current
  <2> QED BY <2>1 DEF ReplayInv, Reported, Excused, UnderWay
<1> QED BY <1>1, <1>2, <1>3, <1>4, <1>5 DEF ReplayInv

\* A run ends, with the lock given back, and names the event in doubt whenever one of
\* its requests for that event is under way, but for one that was refused.
LEMMA LeaveKeeps ==
    ASSUME ReplayInv, NEW r \in Runners, NEW u \in Nat, NEW a \in {"none", "refused"},
           run[r].pc \in Active,
           \A q \in Delivery :
               UnderWay(q) /\ q.from = r /\ q.run = run[r].number /\ q.seq = Replay!Current(r)
               => u = q.seq \/ (q = opReplay /\ q = Replay!Pending(r) /\ a = "refused"),
           Replay!Leave(r, u, a), UNCHANGED <<file, wire, opReplay, committed, incidents>>
    PROVE  ReplayInv'
<1> DEFINE n == [run[r] EXCEPT !.pc = "over", !.uncertain = u, !.answer = a]
<1>1. run[r] \in Run
  BY RunFields DEF ReplayInv
<1>2. run' = [run EXCEPT ![r] = n] /\ run'[r] = n
  BY DEF ReplayInv, ReplayTypes, Replay!Leave
<1>3. /\ n.pc = "over" /\ n.uncertain = u /\ n.answer = a /\ n.number = run[r].number
      /\ n.at = run[r].at /\ n.try = run[r].try
  BY <1>1 DEF Run
<1>4. n \in Run
  BY <1>1 DEF Run
<1>5. RunStored(r)' /\ Answered(r)'
  BY <1>2, <1>3 DEF RunStored, Stored, Answered, Active, ReplayInv, StoredInv
<1>6. \A q \in Delivery : q.from = r /\ NotAhead(q) => NotAhead(q)'
  BY <1>1, <1>2, <1>3 DEF NotAhead, Active
<1>7. /\ lockReplay' \in {lockReplay, NoRunner, r}
      /\ lockReplay' # lockReplay => lockReplay \in {r, NoRunner}
  BY DEF Replay!Leave
<1>8. file' \in 0..PlanLength /\ Stored(file')
  BY DEF ReplayInv, ReplayTypes, StoredInv
<1> HIDE DEF n
<1>9. Reported(r)'
  <2>1. Replay!Pending(r)' = Replay!Pending(r)
    BY <1>2, <1>3 DEF Replay!Pending, Replay!Current
  <2>2. SUFFICES ASSUME NEW q \in Delivery, UnderWay(q), q.from = r, q.run = run[r].number
                 PROVE  Excused(r, q)'
    BY <1>2, <1>3 DEF Reported, UnderWay
  <2>3. q.seq = Replay!Current(r) \/ (q.seq \in Replay!Events /\ q.seq <= run[r].at)
    BY <1>1, <2>2, RunFields, ReplayFacts
       DEF NotAhead, UnderWay, ReplayInv, WireInv, Active, Delivery
  <2>4. CASE q.seq = Replay!Current(r)
    BY <1>2, <1>3, <2>1, <2>2, <2>4 DEF Excused
  <2>5. CASE q.seq \in Replay!Events /\ q.seq <= run[r].at
    BY <2>5 DEF Excused, ReplayInv, StoredInv, RunStored, Stored
  <2> QED BY <2>3, <2>4, <2>5
<1> QED BY <1>2, <1>3, <1>4, <1>5, <1>6, <1>7, <1>8, <1>9, OwnStep DEF Active

\* A run starts at a stored checkpoint, under a number no request on its way bears.
LEMMA StartKeeps ==
    ASSUME ReplayInv, NEW r \in Runners, NEW n \in Run,
           run' = [run EXCEPT ![r] = n],
           n.pc = "due", n.number = run[r].number + 1, n.try = 0, n.answer = "none", Stored(n.at),
           n.saves => lockReplay = NoRunner /\ lockReplay' = r,
           lockReplay' # lockReplay => lockReplay = NoRunner /\ lockReplay' = r,
           UNCHANGED <<file, wire, opReplay, committed, incidents>>
    PROVE  ReplayInv'
<1>1. run'[r] = n /\ run[r].number \in Nat
  BY RunFields DEF ReplayInv, ReplayTypes
<1>2. RunStored(r)' /\ Answered(r)'
  BY <1>1 DEF RunStored, Stored, Answered, Active
<1>3. \A q \in Delivery : q.from = r /\ NotAhead(q) => NotAhead(q)'
  BY <1>1 DEF NotAhead, Delivery
<1>4. file' \in 0..PlanLength /\ Stored(file')
  BY DEF ReplayInv, ReplayTypes, StoredInv
<1>5. Reported(r)'
  BY <1>1 DEF Reported
<1> QED BY <1>2, <1>3, <1>4, <1>5, OwnStep

LEMMA StartPersistentKeeps ==
    ASSUME ReplayInv, NEW r \in Runners, Replay!StartPersistent(r)
    PROVE  ReplayInv'
<1> DEFINE k == run[r].number + 1
           n == [Replay!Fresh EXCEPT !.pc = "due", !.number = k, !.saves = TRUE, !.at = file]
<1>1. k \in Nat /\ file \in 0..PlanLength /\ Stored(file)
  BY RunFields DEF ReplayInv, ReplayTypes, StoredInv
<1> HIDE DEF k
<1>2. n \in Run
  BY <1>1, FreshRun, ReplayFacts DEF Run
<1>3. /\ n.pc = "due" /\ n.number = k /\ n.try = 0 /\ n.answer = "none"
      /\ n.at = file
  BY DEF Replay!Fresh
<1>4. run' = [run EXCEPT ![r] = n]
  BY DEF Replay!StartPersistent, Replay!ReadCheckpoint, k
<1>5. /\ lockReplay = NoRunner /\ lockReplay' = r
      /\ UNCHANGED <<file, wire, opReplay, committed, incidents>>
  BY DEF Replay!StartPersistent, Replay!LockFree, Replay!receiver
<1> HIDE DEF n
<1> QED BY <1>1, <1>2, <1>3, <1>4, <1>5, StartKeeps DEF k

LEMMA StartInMemoryKeeps ==
    ASSUME ReplayInv, NEW r \in Runners, Replay!StartInMemory(r)
    PROVE  ReplayInv'
<1>1. PICK c \in Replay!ResumesFrom(r) :
        run' = [run EXCEPT ![r] = [Replay!Fresh EXCEPT !.pc = "due",
                                       !.number = run[r].number + 1, !.at = c]]
  BY DEF Replay!StartInMemory
<1> DEFINE k == run[r].number + 1
           n == [Replay!Fresh EXCEPT !.pc = "due", !.number = k, !.at = c]
<1>2. k \in Nat /\ c \in 0..PlanLength /\ Stored(c)
  BY RunFields, ReplayFacts
     DEF ReplayInv, StoredInv, RunStored, Stored, Replay!ResumesFrom
<1> HIDE DEF k
<1>3. n \in Run
  BY <1>2, FreshRun, ReplayFacts DEF Run
<1>4. /\ n.pc = "due" /\ n.number = k /\ n.try = 0 /\ n.answer = "none"
      /\ n.at = c /\ ~n.saves
  BY DEF Replay!Fresh
<1>5. UNCHANGED <<file, lockReplay, wire, opReplay, committed, incidents>>
  BY DEF Replay!StartInMemory, Replay!receiver
<1> HIDE DEF n
<1> QED BY <1>1, <1>2, <1>3, <1>4, <1>5, StartKeeps DEF n, k

\* A run that is not in doubt has no request for its current event under way but the
\* one it is waiting for, and once it is answered the wire has not that one either.
LEMMA Undoubted ==
    ASSUME ReplayInv, NEW r \in Runners, ~run[r].doubt, run[r].pc \in {"due", "sending"},
           NEW q \in Delivery, UnderWay(q), q.from = r, q.run = run[r].number,
           q.seq = Replay!Current(r)
    PROVE  /\ q = Replay!Pending(r) /\ run[r].pc = "sending"
           /\ run[r].answer # "none" => q = opReplay
<1>1. NotAhead(q) /\ run[r].at + 1 = q.seq /\ run[r].try = 0
  BY RunFields, FreshRun, ReplayFacts DEF ReplayInv, WireInv, Answered, UnderWay
<1>2. q.try <= 0 /\ (run[r].pc = "due" => q.try < 0)
  BY <1>1 DEF NotAhead
<1>3. q.try = 0 /\ run[r].pc # "due"
  BY <1>1, <1>2 DEF Delivery
<1>4. q = Replay!Pending(r)
  BY <1>1, <1>3 DEF Replay!Pending, Delivery, Replay!Current
<1> QED BY <1>3, <1>4 DEF ReplayInv, WireInv, Answered, UnderWay

LEMMA CompleteKeeps ==
    ASSUME ReplayInv, NEW r \in Runners, Replay!Complete(r)
    PROVE  ReplayInv'
<1>1. \A q \in Delivery : q.seq # Replay!Current(r)
  BY ReplayFacts DEF Replay!Complete, Replay!Current, ReplayInv, ReplayTypes, Delivery
<1> QED BY <1>1, FreshRun, LeaveKeeps DEF Replay!Complete, Replay!receiver

\* Stopping before an attempt or at a refusal reports the event if an earlier attempt
\* may still act, and needs no report otherwise.
LEMMA RefusalKeeps ==
    ASSUME ReplayInv, NEW r \in Runners,
           Replay!EmitRefused(r) \/ Replay!StopBeforeAttempt(r) \/ Replay!RefusedAnswer(r)
    PROVE  ReplayInv'
<1> USE DEF Replay!EmitRefused, Replay!StopBeforeAttempt, Replay!RefusedAnswer, Replay!receiver
<1>0. Replay!Current(r) \in Nat /\ run[r].pc \in Active
  BY RunFields, FreshRun DEF ReplayInv
<1>1. CASE run[r].doubt
  BY <1>0, <1>1, LeaveKeeps
<1>2. CASE ~run[r].doubt
  <2>1. ASSUME NEW q \in Delivery, UnderWay(q), q.from = r, q.run = run[r].number,
               q.seq = Replay!Current(r)
        PROVE  q = opReplay /\ q = Replay!Pending(r) /\ Replay!RefusedAnswer(r)
    BY <1>2, <2>1, Undoubted
  <2>2. CASE Replay!RefusedAnswer(r)
    BY <1>0, <1>2, <2>1, <2>2, LeaveKeeps
  <2>3. CASE ~Replay!RefusedAnswer(r)
    BY <1>0, <1>2, <2>1, <2>3, LeaveKeeps
  <2> QED BY <2>2, <2>3
<1> QED BY <1>1, <1>2

LEMMA StopInFlightKeeps ==
    ASSUME ReplayInv, NEW r \in Runners, Replay!StopInFlight(r)
    PROVE  ReplayInv'
<1>0. Replay!Current(r) \in Nat /\ run[r].pc \in Active
  BY RunFields, FreshRun DEF ReplayInv, Replay!StopInFlight
<1> QED BY <1>0, LeaveKeeps DEF Replay!StopInFlight, Replay!receiver

\* A retry: one more attempt, in doubt; every request of the event on its way is of an
\* earlier one.
LEMMA TransientKeeps ==
    ASSUME ReplayInv, NEW r \in Runners, Replay!TransientFailure(r)
    PROVE  ReplayInv'
<1>0. Replay!Current(r) \in Nat /\ run[r] \in Run /\ run[r].try \in Nat
  BY RunFields DEF ReplayInv
<1>1. CASE run[r].try < Backoffs
  <2> DEFINE k == run[r].try + 1
             n == [run[r] EXCEPT !.pc = "due", !.try = k, !.doubt = TRUE, !.answer = "none"]
  <2>1. k \in Nat /\ run[r].try < k
    BY <1>0
  <2>2. run' = [run EXCEPT ![r] = n] /\ run'[r] = n
    BY <1>1 DEF ReplayInv, ReplayTypes, Replay!TransientFailure
  <2> HIDE DEF k
  <2>3. /\ n.pc = "due" /\ n.answer = "none" /\ n.number = run[r].number /\ n.at = run[r].at
        /\ n.try = k /\ n.doubt /\ n.saves = run[r].saves
    BY <1>0 DEF Run
  <2>4. n \in Run
    BY <1>0, <2>1, FreshRun DEF Run
  <2> HIDE DEF n
  <2>5. RunStored(r)' /\ Answered(r)'
    BY <2>2, <2>3, FreshRun
       DEF RunStored, Stored, Answered, ReplayInv, StoredInv, Replay!TransientFailure, Replay!receiver
  <2>6. \A q \in Delivery : q.from = r /\ NotAhead(q) => NotAhead(q)'
    BY <1>0, <2>1, <2>2, <2>3 DEF NotAhead, Delivery, Replay!TransientFailure
  <2>7. UNCHANGED <<file, lockReplay, wire, opReplay, committed, incidents>>
    BY <1>1 DEF Replay!TransientFailure, Replay!receiver
  <2>8. file' \in 0..PlanLength /\ Stored(file')
    BY <2>7 DEF ReplayInv, ReplayTypes, StoredInv
  <2>9. n.saves => lockReplay' = r
    BY <2>3, <2>7 DEF ReplayInv, Replay!SaverHoldsLock, Replay!TransientFailure
  <2>10. Reported(r)'
    BY <2>2, <2>3 DEF Reported
  <2> QED BY <2>2, <2>3, <2>4, <2>5, <2>6, <2>7, <2>8, <2>9, <2>10, OwnStep
<1>2. CASE ~(run[r].try < Backoffs)
  BY <1>0, <1>2, FreshRun, LeaveKeeps DEF Replay!TransientFailure, Replay!receiver
<1> QED BY <1>1, <1>2

\* Sending: the request is new to the wire and to the receiver, its attempt has not
\* been made before.
LEMMA EmitKeeps ==
    ASSUME ReplayInv, NEW r \in Runners, Replay!Emit(r)
    PROVE  ReplayInv'
<1> DEFINE n == [run[r] EXCEPT !.pc = "sending"]
<1>p. PICK p \in Delivery : p = Replay!Pending(r)
  <2>1. Replay!Current(r) \in Replay!Events /\ run[r].number \in Nat /\ run[r].try \in Nat
    BY RunFields, ReplayFacts DEF ReplayInv, Replay!Emit
  <2>2. Replay!Pending(r) \in Delivery
    BY <2>1 DEF Replay!Pending, Delivery
  <2> QED BY <2>2
<1>0. /\ run[r] \in Run /\ run[r].pc = "due" /\ run[r].at < PlanLength
      /\ UNCHANGED <<file, lockReplay, opReplay, committed, incidents>>
      /\ wire' = wire \cup {p}
  BY <1>p, RunFields DEF ReplayInv, Replay!Emit, Replay!receiver
<1>1. /\ run' = [run EXCEPT ![r] = n] /\ run'[r] = n
      /\ \A s \in Runners : s # r => run'[s] = run[s]
  BY DEF ReplayInv, ReplayTypes, Replay!Emit
<1>2. /\ n.pc = "sending" /\ n.answer = run[r].answer /\ n.number = run[r].number
      /\ n.at = run[r].at /\ n.try = run[r].try /\ n.doubt = run[r].doubt /\ n.saves = run[r].saves
  BY <1>0 DEF Run
<1>3. n \in Run
  BY <1>0, FreshRun DEF Run
<1>4. /\ p.from = r /\ p.run = run[r].number /\ p.seq = run[r].at + 1 /\ p.try = run[r].try
  BY <1>p DEF Replay!Pending, Replay!Current
<1> HIDE DEF n
<1>5. ReplayTypes'
  BY <1>0, <1>1, <1>3, <1>4 DEF ReplayInv, ReplayTypes
<1>6. StoredInv'
  <2>1. \A s \in Runners : RunStored(s)'
    BY <1>0, <1>1, <1>2 DEF ReplayInv, StoredInv, RunStored, Stored
  <2> QED BY <1>0, <2>1 DEF ReplayInv, StoredInv, Stored
<1>7. WireInv'
  <2>1. \A q \in Delivery : NotAhead(q) => NotAhead(q)'
    BY <1>0, <1>1, <1>2 DEF NotAhead
  <2>2. NotAhead(p)'
    BY <1>0, <1>1, <1>2, <1>4, RunFields DEF NotAhead, ReplayInv
  <2>3. ASSUME NEW s \in Runners, s # r PROVE Answered(s)'
    <3>1. Replay!Pending(s)' = Replay!Pending(s) /\ Replay!Pending(s) # p
      BY <1>1, <1>4, <2>3 DEF Replay!Pending, Replay!Current
    <3> QED BY <1>0, <1>1, <2>3, <3>1 DEF ReplayInv, WireInv, Answered
  <2>4. Answered(r)'
    BY <1>0, <1>1, <1>2, FreshRun DEF ReplayInv, StoredInv, RunStored, WireInv, Answered
  <2>5. opReplay # p
    <3>1. SUFFICES ASSUME opReplay = p PROVE FALSE
      OBVIOUS
    <3>2. NotAhead(p)
      BY <1>4, <3>1, ReplayFacts DEF ReplayInv, WireInv
    <3>3. run[r].try \in Nat /\ p.try < run[r].try
      BY <1>0, <1>4, <3>2, RunFields DEF NotAhead, ReplayInv
    <3> QED BY <1>4, <3>3
  <2>6. \A q \in wire' : NotAhead(q)'
    BY <1>0, <2>1, <2>2 DEF ReplayInv, WireInv, ReplayTypes
  <2>7. opReplay' # Replay!NoRequest => NotAhead(opReplay)' /\ opReplay' \notin wire'
    BY <1>0, <2>1, <2>5 DEF ReplayInv, WireInv, ReplayTypes, Replay!NoRequest
  <2> QED BY <2>3, <2>4, <2>6, <2>7 DEF WireInv, Replay!NoRequest
<1>8. Replay!SaverHoldsLock'
  BY <1>0, <1>1, <1>2 DEF ReplayInv, Replay!SaverHoldsLock
<1>9. ASSUME NEW s \in Runners PROVE Reported(s)'
  <2>1. CASE s = r
    BY <1>1, <1>2, <2>1 DEF Reported
  <2>2. CASE s # r
    <3>1. Replay!Pending(s)' = Replay!Pending(s) /\ run'[s] = run[s]
      BY <1>1, <2>2 DEF Replay!Pending, Replay!Current
    <3> QED BY <1>0, <1>4, <2>2, <3>1 DEF ReplayInv, Reported, Excused, UnderWay
  <2> QED BY <2>1, <2>2
<1> QED BY <1>5, <1>6, <1>7, <1>8, <1>9 DEF ReplayInv

LEMMA ReceiptKeeps ==
    ASSUME ReplayInv, NEW r \in Runners, Replay!Receipt(r)
    PROVE  ReplayInv'
<1> DEFINE n == [run[r] EXCEPT !.pc = "receipt"]
<1>0. /\ run[r] \in Run /\ run[r].pc = "sending" /\ run[r].answer = "accepted"
      /\ UNCHANGED <<file, lockReplay, wire, opReplay, committed, incidents>>
  BY RunFields DEF ReplayInv, Replay!Receipt, Replay!receiver
<1>1. run' = [run EXCEPT ![r] = n] /\ run'[r] = n
  BY DEF ReplayInv, ReplayTypes, Replay!Receipt
<1>2. /\ n.pc = "receipt" /\ n.answer = run[r].answer /\ n.number = run[r].number
      /\ n.at = run[r].at /\ n.try = run[r].try /\ n.doubt = run[r].doubt /\ n.saves = run[r].saves
  BY <1>0 DEF Run
<1>3. n \in Run
  BY <1>0, FreshRun DEF Run
<1> HIDE DEF n
<1>4. RunStored(r)' /\ Answered(r)'
  BY <1>0, <1>1, <1>2, FreshRun
     DEF ReplayInv, StoredInv, RunStored, Stored, WireInv, Answered
<1>5. \A q \in Delivery : q.from = r /\ NotAhead(q) => NotAhead(q)'
  BY <1>0, <1>1, <1>2 DEF NotAhead
<1>6. file' \in 0..PlanLength /\ Stored(file')
  BY <1>0 DEF ReplayInv, ReplayTypes, StoredInv
<1>7. n.saves => lockReplay' = r
  BY <1>0, <1>2 DEF ReplayInv, Replay!SaverHoldsLock
<1>8. Reported(r)'
  BY <1>1, <1>2 DEF Reported
<1> QED BY <1>0, <1>1, <1>2, <1>3, <1>4, <1>5, <1>6, <1>7, <1>8, OwnStep

\* With the receipt in hand the events up to the current one are stored, so the file
\* may name it.
LEMMA ReceiptStored ==
    ASSUME ReplayInv, NEW r \in Runners, run[r].pc = "receipt"
    PROVE  /\ run[r].at + 1 \in 0..PlanLength /\ Stored(run[r].at + 1)
           /\ Replay!SaveLocked(Replay!Current(r)) => file' \in 0..PlanLength /\ Stored(file')
<1>1. /\ run[r].at \in 0..PlanLength /\ run[r].at < PlanLength /\ Stored(run[r].at)
      /\ incidents[run[r].at + 1] > 0
  BY RunFields DEF ReplayInv, StoredInv, RunStored
<1>2. run[r].at + 1 \in 0..PlanLength /\ Stored(run[r].at + 1)
  BY <1>1, ReplayFacts DEF Stored
<1>3. file \in 0..PlanLength /\ Stored(file) /\ Replay!Current(r) = run[r].at + 1
  BY DEF ReplayInv, ReplayTypes, StoredInv, Replay!Current
<1> QED BY <1>2, <1>3 DEF Replay!SaveLocked

LEMMA AdvanceKeeps ==
    ASSUME ReplayInv, NEW r \in Runners, Replay!Advance(r)
    PROVE  ReplayInv'
<1>c. PICK c \in 0..PlanLength : c = run[r].at + 1
  BY ReceiptStored DEF Replay!Advance
<1> DEFINE n == [run[r] EXCEPT !.pc = "due", !.at = c, !.try = 0, !.doubt = FALSE,
                               !.answer = "none"]
<1>0. /\ run[r] \in Run /\ run[r].pc = "receipt" /\ run[r].number \in Nat
      /\ run[r].at \in 0..PlanLength /\ Stored(c)
      /\ UNCHANGED <<lockReplay, wire, opReplay, committed, incidents>>
  BY <1>c, RunFields, ReceiptStored DEF ReplayInv, Replay!Advance, Replay!receiver
<1>1. run' = [run EXCEPT ![r] = n] /\ run'[r] = n
  BY <1>c DEF ReplayInv, ReplayTypes, Replay!Advance, Replay!Current
<1>2. /\ n.pc = "due" /\ n.answer = "none" /\ n.number = run[r].number
      /\ n.at = c /\ n.try = 0 /\ n.saves = run[r].saves
  BY <1>0 DEF Run
<1>3. n \in Run
  BY <1>0, FreshRun DEF Run
<1> HIDE DEF n
<1>4. RunStored(r)' /\ Answered(r)'
  BY <1>0, <1>1, <1>2, FreshRun DEF RunStored, Stored, Answered
<1>5. \A q \in Delivery : q.from = r /\ NotAhead(q) => NotAhead(q)'
  BY <1>c, <1>0, <1>1, <1>2, ReplayFacts DEF NotAhead, Delivery
<1>6. file' \in 0..PlanLength /\ Stored(file')
  BY <1>0, ReceiptStored DEF ReplayInv, ReplayTypes, StoredInv, Replay!Advance
<1>7. n.saves => lockReplay' = r
  BY <1>0, <1>2 DEF ReplayInv, Replay!SaverHoldsLock
<1>8. Reported(r)'
  BY <1>1, <1>2 DEF Reported
<1> QED BY <1>0, <1>1, <1>2, <1>3, <1>4, <1>5, <1>6, <1>7, <1>8, OwnStep

LEMMA SaveFailsKeeps ==
    ASSUME ReplayInv, NEW r \in Runners, Replay!SaveFails(r)
    PROVE  ReplayInv'
<1> DEFINE n == [run[r] EXCEPT !.pc = "raised", !.answer = "none"]
<1>0. /\ run[r] \in Run /\ run[r].pc = "receipt"
      /\ lockReplay' = (IF lockReplay = r THEN NoRunner ELSE lockReplay)
      /\ UNCHANGED <<wire, opReplay, committed, incidents>>
  BY RunFields DEF ReplayInv, Replay!SaveFails, Replay!receiver
<1>1. run' = [run EXCEPT ![r] = n] /\ run'[r] = n
  BY DEF ReplayInv, ReplayTypes, Replay!SaveFails
<1>2. /\ n.pc = "raised" /\ n.answer = "none" /\ n.number = run[r].number
      /\ n.at = run[r].at /\ n.try = run[r].try
  BY <1>0 DEF Run
<1>3. n \in Run
  BY <1>0 DEF Run
<1> HIDE DEF n
<1>4. RunStored(r)' /\ Answered(r)'
  BY <1>0, <1>1, <1>2 DEF ReplayInv, StoredInv, RunStored, Stored, Answered, Active
<1>5. \A q \in Delivery : q.from = r /\ NotAhead(q) => NotAhead(q)'
  BY <1>0, <1>1, <1>2 DEF NotAhead
<1>6. file' \in 0..PlanLength /\ Stored(file')
  BY <1>0, ReceiptStored DEF ReplayInv, ReplayTypes, StoredInv, Replay!SaveFails
<1>7. n.pc \notin Active
  BY <1>2 DEF Active
<1>8. Reported(r)'
  BY <1>1, <1>2 DEF Reported
<1> QED BY <1>0, <1>1, <1>2, <1>3, <1>4, <1>5, <1>6, <1>7, <1>8, OwnStep

\* The process dies; its requests bear the number of the run and are never taken for
\* those of the next one.
LEMMA CrashKeeps ==
    ASSUME ReplayInv, NEW r \in Runners, Replay!Crash(r)
    PROVE  ReplayInv'
<1> DEFINE n == [Replay!Fresh EXCEPT !.number = run[r].number]
<1>0. /\ run[r].number \in Nat
      /\ lockReplay' = (IF lockReplay = r THEN NoRunner ELSE lockReplay)
      /\ UNCHANGED <<file, wire, opReplay, committed, incidents>>
  BY RunFields DEF ReplayInv, Replay!Crash, Replay!receiver
<1>1. run' = [run EXCEPT ![r] = n] /\ run'[r] = n
  BY DEF ReplayInv, ReplayTypes, Replay!Crash
<1>2. n.pc = "idle" /\ n.answer = "none" /\ n.number = run[r].number /\ n.at = 0
  BY DEF Replay!Fresh
<1>3. n \in Run
  BY <1>0, FreshRun DEF Run
<1> HIDE DEF n
<1>4. RunStored(r)' /\ Answered(r)'
  BY <1>0, <1>1, <1>2, ReplayFacts DEF RunStored, Stored, Answered, Active
<1>5. \A q \in Delivery : q.from = r /\ NotAhead(q) => NotAhead(q)'
  BY <1>0, <1>1, <1>2 DEF NotAhead
<1>6. file' \in 0..PlanLength /\ Stored(file')
  BY <1>0 DEF ReplayInv, ReplayTypes, StoredInv
<1>7. n.pc \notin Active
  BY <1>2 DEF Active
<1>8. Reported(r)'
  BY <1>1, <1>2 DEF Reported
<1> QED BY <1>0, <1>1, <1>2, <1>3, <1>4, <1>5, <1>6, <1>7, <1>8, OwnStep

\* Steps that only write the file.
LEMMA FileKeeps ==
    ASSUME ReplayInv, file' \in 0..PlanLength, Stored(file'),
           UNCHANGED <<lockReplay, run, wire, opReplay, committed, incidents>>
    PROVE  ReplayInv'
<1>1. ReplayTypes'
  BY DEF ReplayInv, ReplayTypes
<1>2. StoredInv'
  BY DEF ReplayInv, StoredInv, RunStored, Stored
<1>3. WireInv'
  BY DEF ReplayInv, WireInv, Answered, NotAhead, Replay!Pending, Replay!Current, Replay!NoRequest
<1>4. Replay!SaverHoldsLock' /\ \A r \in Runners : Reported(r)'
  BY DEF ReplayInv, Replay!SaverHoldsLock, Reported, Excused, UnderWay, Replay!Pending,
     Replay!Current
<1> QED BY <1>1, <1>2, <1>3, <1>4 DEF ReplayInv

LEMMA FileStepKeeps ==
    ASSUME ReplayInv,
           (\E r \in Runners : Replay!SaveResult(r)) \/ Replay!ClearCheckpoint
    PROVE  ReplayInv'
<1>1. CASE Replay!ClearCheckpoint
  <2>1. file' \in 0..PlanLength /\ Stored(file')
    BY <1>1, ReplayFacts DEF Replay!ClearCheckpoint, Stored
  <2> QED BY <1>1, <2>1, FileKeeps DEF Replay!ClearCheckpoint, Replay!receiver
<1>2. ASSUME NEW r \in Runners, Replay!SaveResult(r) PROVE ReplayInv'
  <2>1. /\ file \in 0..PlanLength /\ Stored(file)
        /\ run[r].at \in 0..PlanLength /\ Stored(run[r].at)
    BY RunFields DEF ReplayInv, ReplayTypes, StoredInv, RunStored
  <2>2. file' \in 0..PlanLength /\ Stored(file')
    BY <1>2, <2>1 DEF Replay!SaveResult, Replay!SaveLocked
  <2> QED BY <1>2, <2>2, FileKeeps DEF Replay!SaveResult, Replay!receiver
<1> QED BY <1>1, <1>2

\* A step of the network or the receiver that tells no runner anything: requests leave
\* the wire, at most to be taken up, and no stored event is forgotten.
LEMMA ReceiverKeeps ==
    ASSUME ReplayInv, wire' \subseteq wire, opReplay' \in wire \cup {opReplay, Replay!NoRequest},
           opReplay' \notin wire',
           incidents' \in [Replay!Events -> 0..1],
           \A e \in Replay!Events : incidents[e] > 0 => incidents'[e] > 0,
           committed' => opReplay' # Replay!NoRequest /\ incidents'[opReplay'.seq] > 0,
           UNCHANGED <<file, lockReplay, run>>
    PROVE  ReplayInv'
<1>1. ReplayTypes'
  BY DEF ReplayInv, ReplayTypes, Replay!NoRequest
<1>2. StoredInv'
  <2>1. Stored(file)' /\ \A r \in Runners : Stored(run[r].at)'
    BY DEF ReplayInv, StoredInv, RunStored, Stored
  <2>2. ASSUME NEW r \in Runners PROVE RunStored(r)'
    <3>1. run[r].pc \in {"sending", "receipt"} => run[r].at + 1 \in Replay!Events
      BY RunFields, ReplayFacts DEF ReplayInv, StoredInv, RunStored
    <3> QED BY <2>1, <3>1 DEF ReplayInv, StoredInv, RunStored
  <2> QED BY <2>1, <2>2 DEF StoredInv, Replay!NoRequest
<1>3. WireInv'
  BY DEF ReplayInv, WireInv, Answered, NotAhead, Replay!Pending, Replay!Current, Replay!NoRequest
<1>4. Replay!SaverHoldsLock'
  BY DEF ReplayInv, Replay!SaverHoldsLock
<1>5. ASSUME NEW r \in Runners PROVE Reported(r)'
  <2>1. SUFFICES ASSUME NEW q \in Delivery, run[r].pc = "over", UnderWay(q)', q.from = r,
                        q.run = run[r].number
                 PROVE  Excused(r, q)'
    BY DEF Reported
  <2>2. UnderWay(q) /\ q.seq \in Replay!Events /\ q # Replay!NoRequest
    BY <2>1, ReplayFacts DEF UnderWay, Delivery
  <2>3. Excused(r, q) /\ Replay!Pending(r)' = Replay!Pending(r)
    BY <2>1, <2>2 DEF ReplayInv, Reported, Replay!Pending, Replay!Current
  <2>4. q = opReplay => opReplay' = q
    BY <2>1, <2>2 DEF UnderWay, ReplayInv, WireInv
  <2> QED BY <2>2, <2>3, <2>4 DEF Excused
<1> QED BY <1>1, <1>2, <1>3, <1>4, <1>5 DEF ReplayInv

\* An answer reaches the runner that waits for it, if there is one: the request it
\* answers is off the wire, and an acceptance is of a stored event.
LEMMA ReplyKeeps ==
    ASSUME ReplayInv, NEW q \in Delivery, NEW a \in {"refused", "accepted"},
           Replay!Reply(q, a), wire' \subseteq wire, q \notin wire',
           a = "accepted" => incidents[q.seq] > 0,
           opReplay' \in {opReplay, Replay!NoRequest},
           committed' => committed /\ opReplay' = opReplay,
           UNCHANGED <<file, lockReplay, incidents>>
    PROVE  ReplayInv'
<1>1. CASE run' = run
  <2>1. opReplay' \notin wire'
    BY ReplayFacts DEF ReplayInv, ReplayTypes, WireInv
  <2>2. /\ \A e \in Replay!Events : incidents[e] > 0 => incidents'[e] > 0
        /\ incidents' \in [Replay!Events -> 0..1]
    BY DEF ReplayInv, ReplayTypes
  <2>3. committed' => opReplay' # Replay!NoRequest /\ incidents'[opReplay'.seq] > 0
    BY DEF ReplayInv, StoredInv
  <2> QED BY <1>1, <2>1, <2>2, <2>3, ReceiverKeeps
<1>2. CASE run' # run
  <2>0. PICK r \in Runners : r = q.from
    BY DEF Delivery
  <2> DEFINE n == [run[r] EXCEPT !.answer = a]
  <2>1. /\ run[r] \in Run /\ run[r].pc = "sending" /\ Replay!Pending(r) = q
        /\ run' = [run EXCEPT ![r] = n] /\ run'[r] = n
        /\ \A s \in Runners : s # r => run'[s] = run[s]
    BY <1>2, <2>0, RunFields DEF Replay!Reply, ReplayInv, ReplayTypes
  <2>2. /\ n.pc = run[r].pc /\ n.answer = a /\ n.number = run[r].number /\ n.at = run[r].at
        /\ n.try = run[r].try /\ n.doubt = run[r].doubt /\ n.saves = run[r].saves
        /\ q.seq = run[r].at + 1
    BY <2>1 DEF Run, Replay!Pending, Replay!Current
  <2>3. n \in Run
    BY <2>1 DEF Run
  <2> HIDE DEF n
  <2>4. ReplayTypes'
    BY <2>1, <2>3 DEF ReplayInv, ReplayTypes, Replay!NoRequest
  <2>5. StoredInv'
    <3>1. \A s \in Runners : RunStored(s)'
      BY <2>1, <2>2 DEF ReplayInv, StoredInv, RunStored, Stored
    <3> QED BY <3>1 DEF ReplayInv, StoredInv, Stored, Replay!NoRequest
  <2>6. WireInv'
    <3>1. \A s \in Runners : Replay!Pending(s)' = Replay!Pending(s)
      BY <2>1, <2>2 DEF Replay!Pending, Replay!Current
    <3>2. \A s \in Runners : Answered(s)'
      BY <2>1, <2>2, <3>1 DEF ReplayInv, WireInv, Answered
    <3>3. \A p \in Delivery : NotAhead(p) => NotAhead(p)'
      BY <2>1, <2>2 DEF NotAhead
    <3>4. \A p \in wire' : NotAhead(p)'
      BY <3>3 DEF ReplayInv, WireInv, ReplayTypes
    <3>5. opReplay' # Replay!NoRequest => NotAhead(opReplay)' /\ opReplay' \notin wire'
      BY <3>3 DEF ReplayInv, WireInv, ReplayTypes, Replay!NoRequest
    <3> QED BY <3>2, <3>4, <3>5 DEF WireInv, Replay!NoRequest
  <2>7. Replay!SaverHoldsLock'
    BY <2>1, <2>2 DEF ReplayInv, Replay!SaverHoldsLock
  <2>8. ASSUME NEW s \in Runners PROVE Reported(s)'
    <3>1. CASE s = r
      BY <2>1, <2>2, <3>1 DEF Reported
    <3>2. CASE s # r
      <4>1. Replay!Pending(s)' = Replay!Pending(s) /\ run'[s] = run[s]
        BY <2>1, <3>2 DEF Replay!Pending, Replay!Current
      <4>2. \A p \in Delivery : UnderWay(p)' => UnderWay(p) /\ (p = opReplay => opReplay' = p)
        BY ReplayFacts DEF UnderWay, ReplayInv, WireInv
      <4> QED BY <4>1, <4>2 DEF ReplayInv, Reported, Excused
    <3> QED BY <3>1, <3>2
  <2> QED BY <2>4, <2>5, <2>6, <2>7, <2>8 DEF ReplayInv
<1> QED BY <1>1, <1>2

LEMMA NetworkKeeps ==
    ASSUME ReplayInv, NEW q \in wire,
           Replay!LoseRequest(q) \/ Replay!RefuseRequest(q) \/ Replay!AcceptRequest(q)
    PROVE  ReplayInv'
<1>0. /\ q \in Delivery /\ Replay!NoRequest \notin wire
      /\ incidents \in [Replay!Events -> 0..1] /\ opReplay \notin wire
      /\ committed => opReplay # Replay!NoRequest /\ incidents[opReplay.seq] > 0
  BY ReplayFacts DEF ReplayInv, ReplayTypes, WireInv, StoredInv
<1>1. CASE Replay!LoseRequest(q)
  BY <1>0, <1>1, ReceiverKeeps DEF Replay!LoseRequest, Replay!receiver
<1>2. CASE Replay!RefuseRequest(q)
  BY <1>0, <1>2, ReplyKeeps DEF Replay!RefuseRequest, Replay!receiver
<1>3. CASE Replay!AcceptRequest(q)
  BY <1>0, <1>3, ReceiverKeeps DEF Replay!AcceptRequest
<1> QED BY <1>1, <1>2, <1>3

LEMMA ReceiverStepKeeps ==
    ASSUME ReplayInv, Replay!ReceiverStep
    PROVE  ReplayInv'
<1>0. /\ opReplay # Replay!NoRequest /\ opReplay \in Delivery /\ opReplay \notin wire
      /\ incidents \in [Replay!Events -> 0..1] /\ opReplay.seq \in Replay!Events
      /\ committed => incidents[opReplay.seq] > 0
  BY DEF ReplayInv, ReplayTypes, WireInv, StoredInv, Delivery, Replay!ReceiverStep,
         Replay!CreateOrCorrelate, Replay!ConfirmDurable, Replay!IngestFails, Replay!AnswerUncertain
<1>1. CASE Replay!CreateOrCorrelate
  <2>1. /\ incidents' \in [Replay!Events -> 0..1] /\ incidents'[opReplay.seq] > 0
        /\ \A e \in Replay!Events : incidents[e] > 0 => incidents'[e] > 0
    BY <1>0, <1>1 DEF Replay!CreateOrCorrelate, Replay!Candidate
  <2> QED BY <1>0, <1>1, <2>1, ReceiverKeeps DEF Replay!CreateOrCorrelate
<1>2. CASE Replay!ConfirmDurable
  BY <1>0, <1>2, ReplyKeeps DEF Replay!ConfirmDurable
<1>3. CASE Replay!IngestFails
  BY <1>0, <1>3, ReplyKeeps DEF Replay!IngestFails
<1>4. CASE Replay!AnswerUncertain
  BY <1>0, <1>4, ReplyKeeps DEF Replay!AnswerUncertain, Replay!receiver
<1> QED BY <1>1, <1>2, <1>3, <1>4 DEF Replay!ReceiverStep

LEMMA RunnerStepKeeps ==
    ASSUME ReplayInv, NEW r \in Runners, Replay!RunnerStep(r)
    PROVE  ReplayInv'
BY CompleteKeeps, EmitKeeps, RefusalKeeps, StopInFlightKeeps, TransientKeeps, ReceiptKeeps,
   AdvanceKeeps, SaveFailsKeeps DEF Replay!RunnerStep

LEMMA ReplayStep == ReplayInv /\ Replay!Next => ReplayInv'
<1> SUFFICES ASSUME ReplayInv, Replay!Next PROVE ReplayInv'
  OBVIOUS
<1>1. CASE \E r \in Runners : \/ Replay!StartPersistent(r) \/ Replay!StartInMemory(r)
                              \/ Replay!RunnerStep(r) \/ Replay!Crash(r)
  BY <1>1, StartPersistentKeeps, StartInMemoryKeeps, RunnerStepKeeps, CrashKeeps
<1>2. CASE (\E r \in Runners : Replay!SaveResult(r)) \/ Replay!ClearCheckpoint
  BY <1>2, FileStepKeeps
<1>3. CASE \E q \in wire :
             Replay!LoseRequest(q) \/ Replay!RefuseRequest(q) \/ Replay!AcceptRequest(q)
  BY <1>3, NetworkKeeps
<1>4. CASE Replay!ReceiverStep
  BY <1>4, ReceiverStepKeeps
<1> QED BY <1>1, <1>2, <1>3, <1>4 DEF Replay!Next

\* The invariant of the replay holds in every behaviour of the local parts.
LEMMA ReplayInvariant == Spec => [](part = "replay" => ReplayInv)
<1> DEFINE Inv == part = "replay" => ReplayInv
<1>1. Init => Inv
  BY ReplayInitially DEF Init
<1>2. Inv /\ [Next]_vars => Inv'
  <2> SUFFICES ASSUME Inv, [Next]_vars, part' = "replay" PROVE ReplayInv'
    OBVIOUS
  <2>1. CASE part = "replay" /\ Replay!Next
    BY <2>1, ReplayStep
  <2>2. CASE UNCHANGED vars
    <3>1. file' \in 0..PlanLength /\ Stored(file')
      BY <2>2 DEF vars, replayVars, ReplayInv, ReplayTypes, StoredInv
    <3> QED BY <2>2, <3>1, FileKeeps DEF vars, replayVars
  <2> QED BY <2>1, <2>2 DEF Next
<1> QED BY <1>1, <1>2, PTL DEF Spec

\* The replay checkpoint, for any plan, number of processes, runs and retries: neither
\* the file nor a run is ahead of what the receiver stored, and only the holder of the
\* lock saves (checkpoint_store, paced_runner).
THEOREM Checkpoint == Spec => []CheckpointBehindReceiver
<1>1. (part = "replay" => ReplayInv) => CheckpointBehindReceiver
  <2> SUFFICES ASSUME part = "replay", ReplayInv PROVE CheckpointBehindReceiver
    BY DEF CheckpointBehindReceiver
  <2>1. Replay!CheckpointBehindReceiver
    BY ReplayFacts DEF Replay!CheckpointBehindReceiver, ReplayInv, ReplayTypes, StoredInv,
       RunStored, Stored, Run
  <2> QED BY <2>1 DEF CheckpointBehindReceiver, ReplayInv
<1> QED BY <1>1, ReplayInvariant, PTL

\* A request that outlives its run, for any plan, number of processes, runs and retries,
\* is of an event stored already, of the one the run reported as uncertain, or one the
\* receiver refused and has at work (paced_runner.py, event_outcome_uncertain;
\* loopback_sink.py, emit).
THEOREM Leftover == Spec => []LeftoverIsReported
<1>1. (part = "replay" => ReplayInv) => LeftoverIsReported
  <2> SUFFICES ASSUME ReplayInv, NEW r \in Runners, run[r].pc = "over",
                      NEW q \in Replay!MayStillAct(r)
               PROVE  \/ incidents[q.seq] > 0
                      \/ q.seq = run[r].uncertain
                      \/ q = opReplay /\ q = Replay!Pending(r) /\ run[r].answer = "refused"
    BY DEF LeftoverIsReported, Replay!LeftoverIsReported
  <2>1. q \in Delivery /\ UnderWay(q) /\ q.from = r /\ q.run = run[r].number
    BY DEF Replay!MayStillAct, UnderWay, ReplayInv, ReplayTypes
  <2> QED BY <2>1 DEF ReplayInv, Reported, Excused
<1> QED BY <1>1, ReplayInvariant, PTL

----------------------------------------------------------------------------
(* The delivery plan *)

\* Induction over the numbers is the fact that a set of them has a least one.
LEMMA Least == ASSUME NEW T \in SUBSET Nat, T # {} PROVE \E n \in T : \A m \in T : n <= m
<1> DEFINE R == OpToRel(<, Nat)
<1>1. IsWellFoundedOn(R, Nat)
  BY NatLessThanWellFounded
<1>2. \A i, j \in Nat : i < j => <<i, j>> \in R
  BY DEF OpToRel
<1> HIDE DEF R
<1>3. \E x \in T : \A y \in T : <<y, x>> \notin R
  BY <1>1, WFMin
<1>4. PICK x \in T : \A y \in T : <<y, x>> \notin R
  BY <1>3
<1>5. \A y \in T : x <= y
  <2> TAKE y \in T
  <2>1. x \in Nat /\ y \in Nat
    OBVIOUS
  <2>2. ~(y < x)
    BY <1>2, <1>4, <2>1
  <2> QED BY <2>1, <2>2
<1> QED BY <1>5

\* The operators of FiniteSets are those of the plan's module.
LEMMA SameCounting ==
    ASSUME NEW S
    PROVE  Plan!IsFiniteSet(S) = IsFiniteSet(S) /\ Plan!Cardinality(S) = Cardinality(S)
<1>1. Plan!IsFiniteSet(S) = IsFiniteSet(S)
  BY DEF Plan!IsFiniteSet, IsFiniteSet
<1>2. Plan!Cardinality(S) = Cardinality(S)
  BY DEF Plan!Cardinality, Cardinality
<1> QED BY <1>1, <1>2

LEMMA PlanFacts ==
    /\ IsFiniteSet(Observations) /\ Observations \subseteq [id : Nat, at : Nat, resource : Nat]
    /\ \A p \in Policies : /\ p.speed \in Nat \ {0} /\ p.interval \in Nat \ {0} /\ p.maxEvents \in Nat \ {0}
                           /\ p.maxDuration \in Nat \ {0}
    /\ Delays \in Seq(Nat)
BY PlanConstants, SameCounting DEF Plan!PlanAssumption, Plan!ValidPolicy

\* How many observations of a bundle come before one.
Rank(obs, o) == Plan!Cardinality({ x \in obs : Plan!Before(x, o) })

LEMMA BeforeIsStrict ==
    ASSUME NEW a \in Observations, NEW b \in Observations, NEW c \in Observations
    PROVE  /\ ~Plan!Before(a, a)
           /\ a # b => Plan!Before(a, b) \/ Plan!Before(b, a)
           /\ Plan!Before(a, b) /\ Plan!Before(b, c) => Plan!Before(a, c)
<1>1. /\ a.at \in Nat /\ a.resource \in Nat /\ a.id \in Nat /\ b.at \in Nat /\ b.resource \in Nat
      /\ b.id \in Nat /\ c.at \in Nat /\ c.resource \in Nat /\ c.id \in Nat
      /\ a = [id |-> a.id, at |-> a.at, resource |-> a.resource]
      /\ b = [id |-> b.id, at |-> b.at, resource |-> b.resource]
  BY PlanFacts
<1> QED BY <1>1 DEF Plan!Before

\* Different observations have different ranks, so that there is one of each.
LEMMA Ranks ==
    ASSUME NEW obs \in SUBSET Observations
    PROVE  /\ IsFiniteSet(obs) /\ Cardinality(obs) \in Nat
           /\ \A o \in obs : Rank(obs, o) \in 0..(Cardinality(obs) - 1)
           /\ \A a, b \in obs : Rank(obs, a) = Rank(obs, b) => a = b
           /\ \A i \in 1..Cardinality(obs) : \E o \in obs : Rank(obs, o) = i - 1
<1> DEFINE n == Cardinality(obs)
           Earlier(o) == { x \in obs : Plan!Before(x, o) }
           F == [o \in obs |-> Rank(obs, o)]
<1>1. IsFiniteSet(obs) /\ n \in Nat
  BY PlanFacts, FS_Subset, FS_CardinalityType
<1>2. ASSUME NEW o \in obs PROVE IsFiniteSet(Earlier(o)) /\ Rank(obs, o) \in 0..(n - 1)
  <2>1. Earlier(o) \in SUBSET (obs \ {o})
    BY BeforeIsStrict
  <2>2. IsFiniteSet(obs \ {o}) /\ Cardinality(obs \ {o}) = n - 1
    BY <1>1, FS_RemoveElement
  <2>3. IsFiniteSet(Earlier(o)) /\ Cardinality(Earlier(o)) \in Nat /\ Cardinality(Earlier(o)) <= n - 1
    BY <2>1, <2>2, FS_Subset, FS_CardinalityType
  <2> QED BY <1>1, <2>3, SameCounting DEF Rank
<1>3. ASSUME NEW a \in obs, NEW b \in obs, Plan!Before(a, b) PROVE Rank(obs, a) < Rank(obs, b)
  <2>1. Earlier(a) \in SUBSET Earlier(b) /\ a \in Earlier(b) /\ a \notin Earlier(a)
    BY <1>3, BeforeIsStrict
  <2>2. Cardinality(Earlier(a)) <= Cardinality(Earlier(b)) /\ Cardinality(Earlier(a)) # Cardinality(Earlier(b))
    BY <1>2, <2>1, FS_Subset
  <2>3. Cardinality(Earlier(a)) \in Nat /\ Cardinality(Earlier(b)) \in Nat
    BY <1>2, FS_CardinalityType
  <2> QED BY <2>2, <2>3, SameCounting DEF Rank
<1>4. ASSUME NEW a \in obs, NEW b \in obs, Rank(obs, a) = Rank(obs, b) PROVE a = b
  <2>1. Rank(obs, a) \in 0..(n - 1) /\ Rank(obs, b) \in 0..(n - 1)
    BY <1>2
  <2>2. ~(Rank(obs, a) < Rank(obs, b)) /\ ~(Rank(obs, b) < Rank(obs, a))
    BY <1>1, <1>4, <2>1
  <2> QED BY <1>3, <2>2, BeforeIsStrict
<1>5. F \in Injection(obs, 0..(n - 1))
  BY <1>2, <1>4 DEF Injection, IsInjective
<1>6. IsFiniteSet(0..(n - 1)) /\ Cardinality(0..(n - 1)) = n
  BY <1>1, FS_Interval
<1>7. F \in Surjection(obs, 0..(n - 1))
  BY <1>5, <1>6, FS_Injection
<1>8. ASSUME NEW i \in 1..n PROVE \E o \in obs : Rank(obs, o) = i - 1
  <2>1. i - 1 \in 0..(n - 1)
    BY <1>1
  <2> QED BY <1>7, <2>1 DEF Surjection
<1> QED BY <1>1, <1>2, <1>4, <1>8

LEMMA OrderIsBundle ==
    ASSUME NEW obs \in SUBSET Observations
    PROVE  /\ Plan!Ordered(obs) \in Seq(obs) /\ Len(Plan!Ordered(obs)) = Cardinality(obs)
           /\ \A o \in obs : \E i \in 1..Cardinality(obs) : Plan!Ordered(obs)[i] = o
<1> DEFINE n == Cardinality(obs)
           s == Plan!Ordered(obs)
<1>1. s = [i \in 1..n |-> CHOOSE o \in obs : Rank(obs, o) = i - 1]
  <2>1. s = [i \in 1..Plan!Cardinality(obs) |-> CHOOSE o \in obs : Rank(obs, o) = i - 1]
    BY DEF Plan!Ordered, Rank
  <2> QED BY <2>1, SameCounting
<1>2. n \in Nat
  BY Ranks
<1>3. ASSUME NEW i \in 1..n PROVE s[i] \in obs /\ Rank(obs, s[i]) = i - 1
  BY <1>1, Ranks
<1>4. ASSUME NEW o \in obs PROVE \E i \in 1..n : s[i] = o
  <2>1. Rank(obs, o) + 1 \in 1..n /\ (Rank(obs, o) + 1) - 1 = Rank(obs, o)
    BY <1>2, Ranks
  <2>2. s[Rank(obs, o) + 1] \in obs /\ Rank(obs, s[Rank(obs, o) + 1]) = Rank(obs, o)
    BY <1>3, <2>1
  <2> QED BY <2>1, <2>2, Ranks
<1>5. s \in Seq(obs) /\ Len(s) = n
  BY <1>1, <1>2, <1>3
<1> QED BY <1>4, <1>5

\* A schedule of the first n events, whose offsets are S, one interval v apart.
Paced(S, v, f, n) == f = [i \in 1..n |-> IF i = 1 THEN S[1] ELSE Plan!Larger(S[i], f[i - 1] + v)]

LEMMA SomeSchedule ==
    ASSUME NEW S, NEW v
    PROVE  \A n \in Nat : \E f : Paced(S, v, f, n)
<1> DEFINE T == { n \in Nat : ~ \E f : Paced(S, v, f, n) }
<1> SUFFICES ASSUME T # {} PROVE FALSE
  OBVIOUS
<1>1. PICK n \in T : \A m \in T : n <= m
  BY Least
<1>2. n \in Nat /\ (~ \E f : Paced(S, v, f, n)) /\ \A m \in Nat : m < n => \E f : Paced(S, v, f, m)
  BY <1>1
<1>3. n # 0
  <2>1. Paced(S, v, [i \in 1..0 |-> 0], 0)
    BY DEF Paced
  <2> QED BY <1>2, <2>1
<1>4. PICK f : Paced(S, v, f, n - 1)
  BY <1>2, <1>3
<1> DEFINE step(i) == IF i = 1 THEN S[1] ELSE Plan!Larger(S[i], f[i - 1] + v)
           g == [i \in 1..n |-> step(i)]
<1>5. ASSUME NEW i \in 1..(n - 1) PROVE f[i] = step(i)
  BY <1>2, <1>4, <1>5 DEF Paced
<1>6. ASSUME NEW i \in 2..n PROVE g[i - 1] = f[i - 1]
  <2>1. i - 1 \in 1..(n - 1) /\ i - 1 \in 1..n
    BY <1>2
  <2>2. g[i - 1] = step(i - 1)
    BY <2>1
  <2> QED BY <1>5, <2>1, <2>2
<1>7. ASSUME NEW i \in 1..n PROVE step(i) = IF i = 1 THEN S[1] ELSE Plan!Larger(S[i], g[i - 1] + v)
  <2>1. i = 1 \/ i \in 2..n
    BY <1>2
  <2> HIDE DEF g
  <2> QED BY <1>6, <2>1
<1>8. g = [i \in 1..n |-> IF i = 1 THEN S[1] ELSE Plan!Larger(S[i], g[i - 1] + v)]
  <2> DEFINE h == [i \in 1..n |-> IF i = 1 THEN S[1] ELSE Plan!Larger(S[i], g[i - 1] + v)]
  <2>1. \A i \in 1..n : step(i) = IF i = 1 THEN S[1] ELSE Plan!Larger(S[i], g[i - 1] + v)
    BY <1>7
  <2> HIDE DEF g
  <2>2. g = [i \in 1..n |-> step(i)]
    BY DEF g
  <2> HIDE DEF step
  <2> QED BY <2>1, <2>2
<1> HIDE DEF g
<1>9. Paced(S, v, g, n)
  BY <1>8 DEF Paced
<1> QED BY <1>2, <1>9

Offset(order, p, i) == Plan!SourceOffset(order, i) \div p.speed

LEMMA ScheduleRule ==
    ASSUME NEW order, NEW p, Len(order) \in Nat
    PROVE  LET f == Plan!Schedule(order, p)
           IN  f = [i \in 1..Len(order) |-> IF i = 1 THEN Offset(order, p, 1)
                                            ELSE Plan!Larger(Offset(order, p, i), f[i - 1] + p.interval)]
<1> DEFINE n == Len(order)
           S == [i \in 1..n |-> Offset(order, p, i)]
           v == p.interval
           Rule(f) == f = [i \in 1..n |-> IF i = 1 THEN Offset(order, p, 1)
                                          ELSE Plan!Larger(Offset(order, p, i), f[i - 1] + v)]
<1>1. PICK f : Paced(S, v, f, n)
  BY SomeSchedule
<1>2. Rule(f)
  <2>1. \A i \in 1..n : S[i] = Offset(order, p, i) /\ S[1] = Offset(order, p, 1)
    OBVIOUS
  <2> HIDE DEF S
  <2> QED BY <1>1, <2>1 DEF Paced
<1>3. Plan!Schedule(order, p) = CHOOSE sched : Rule(sched)
  BY DEF Plan!Schedule, Offset
<1>4. Rule(CHOOSE sched : Rule(sched))
  BY <1>2
<1> HIDE DEF Rule
<1>5. Rule(Plan!Schedule(order, p))
  BY <1>3, <1>4
<1> QED BY <1>5 DEF Rule

\* What event j in its time, followed by one interval for each event up to the i-th, asks
\* of the i-th; the schedule is the least that grants it.
Demand(order, p, j, i) == Offset(order, p, j) + (i - j) * p.interval
Grants(order, p, i) ==
    LET f == Plan!Schedule(order, p)
    IN  /\ f[i] \in Int
        /\ \E j \in 1..i : f[i] = Demand(order, p, j, i)
        /\ \A j \in 1..i : Demand(order, p, j, i) <= f[i]

LEMMA DemandSteps ==
    ASSUME NEW order \in Seq(Observations), NEW p \in Policies, NEW i \in Nat, NEW j \in Nat,
           j \in 1..Len(order)
    PROVE  /\ Offset(order, p, j) \in Int /\ Demand(order, p, j, i) \in Int
           /\ Demand(order, p, j, j) = Offset(order, p, j)
           /\ Demand(order, p, j, i + 1) = Demand(order, p, j, i) + p.interval
<1>1. order[j] \in Observations /\ order[1] \in Observations
  <2>1. Len(order) \in Nat /\ 1 \in 1..Len(order)
    OBVIOUS
  <2> QED BY <2>1, ElementOfSeq
<1>2. Plan!SourceOffset(order, j) \in Int /\ p.speed \in Nat \ {0} /\ p.interval \in Nat \ {0}
  BY <1>1, PlanFacts DEF Plan!SourceOffset
<1>3. Offset(order, p, j) \in Int
  <2>1. ASSUME NEW a \in Int, NEW b \in Nat \ {0} PROVE a \div b \in Int
    OBVIOUS
  <2> QED BY <1>2, <2>1 DEF Offset
<1>4. /\ (i - j) * p.interval \in Int
      /\ (j - j) * p.interval = 0
      /\ ((i + 1) - j) * p.interval = (i - j) * p.interval + p.interval
  <2>1. ASSUME NEW a \in Int, NEW b \in Int
        PROVE  a * b \in Int /\ 0 * b = 0 /\ (a + 1) * b = a * b + b
    OBVIOUS
  <2>2. i - j \in Int /\ p.interval \in Int /\ j - j = 0 /\ (i + 1) - j = (i - j) + 1
    BY <1>2
  <2> QED BY <2>1, <2>2
<1>5. p.interval \in Int
  BY <1>2
<1> HIDE <1>2
<1> QED BY <1>3, <1>4, <1>5 DEF Demand

LEMMA LeastSchedule ==
    ASSUME NEW order \in Seq(Observations), NEW p \in Policies
    PROVE  \A i \in 1..Len(order) : Grants(order, p, i)
<1> DEFINE n == Len(order)
           f == Plan!Schedule(order, p)
           v == p.interval
           T == { i \in 1..n : ~Grants(order, p, i) }
<1>0. n \in Nat /\ v \in Nat
  BY PlanFacts
<1>1. f = [i \in 1..n |-> IF i = 1 THEN Offset(order, p, 1)
                          ELSE Plan!Larger(Offset(order, p, i), f[i - 1] + v)]
  BY <1>0, ScheduleRule
<1> SUFFICES ASSUME T # {} PROVE FALSE
  OBVIOUS
<1>2. PICK i \in T : \A m \in T : i <= m
  <2>1. T \in SUBSET Nat
    OBVIOUS
  <2> HIDE DEF T
  <2> QED BY <2>1, Least
<1>3. i \in 1..n /\ ~Grants(order, p, i) /\ \A m \in 1..n : m < i => Grants(order, p, m)
  BY <1>0, <1>2
<1> HIDE DEF f, v, T, n
<1>4. CASE i = 1
  <2>1. f[1] = Offset(order, p, 1) /\ Demand(order, p, 1, 1) = Offset(order, p, 1) /\ Offset(order, p, 1) \in Int
    BY <1>1, <1>3, <1>4, DemandSteps DEF n
  <2> QED BY <1>3, <1>4, <2>1 DEF Grants, f
<1>5. CASE i # 1
  <2> DEFINE k == i - 1
  <2>1. k \in 1..n /\ k \in Nat /\ k < i /\ i = k + 1 /\ i \in Nat
    BY <1>0, <1>3, <1>5
  <2> HIDE DEF k
  <2>2. /\ f[k] \in Int /\ (\E j \in 1..k : f[k] = Demand(order, p, j, k))
        /\ \A j \in 1..k : Demand(order, p, j, k) <= f[k]
    BY <1>3, <2>1 DEF Grants, f
  <2>3. f[i] = Plan!Larger(Offset(order, p, i), f[k] + v)
    BY <1>1, <1>3, <1>5 DEF k
  <2>4. Demand(order, p, i, i) = Offset(order, p, i) /\ Offset(order, p, i) \in Int
    BY <1>3, <2>1, DemandSteps DEF n
  <2>5. \A j \in 1..k : /\ Demand(order, p, j, i) = Demand(order, p, j, k) + v
                        /\ Demand(order, p, j, k) \in Int
    <3> TAKE j \in 1..k
    <3>1. j \in Nat /\ j \in 1..n
      BY <1>0, <2>1
    <3> QED BY <2>1, <3>1, DemandSteps DEF n, v
  <2>6. /\ f[i] \in Int /\ f[i] >= Offset(order, p, i) /\ f[i] >= f[k] + v
        /\ f[i] = Offset(order, p, i) \/ f[i] = f[k] + v
    BY <1>0, <2>2, <2>3, <2>4 DEF Plan!Larger
  <2>7. \A j \in 1..i : Demand(order, p, j, i) <= f[i]
    <3> TAKE j \in 1..i
    <3>1. CASE j = i
      BY <2>4, <2>6, <3>1
    <3>2. CASE j \in 1..k
      <4>1. /\ Demand(order, p, j, i) = Demand(order, p, j, k) + v /\ Demand(order, p, j, k) \in Int
            /\ Demand(order, p, j, k) <= f[k]
        BY <2>2, <2>5, <3>2
      <4> QED BY <1>0, <2>2, <2>6, <4>1
    <3> QED BY <2>1, <3>1, <3>2
  <2>8. \E j \in 1..i : f[i] = Demand(order, p, j, i)
    <3>1. CASE f[i] = Offset(order, p, i)
      <4>1. i \in 1..i
        BY <2>1
      <4> QED BY <2>4, <3>1, <4>1
    <3>2. CASE f[i] = f[k] + v
      <4>1. PICK j \in 1..k : f[k] = Demand(order, p, j, k)
        BY <2>2
      <4>2. f[i] = Demand(order, p, j, i) /\ j \in 1..i
        BY <2>1, <2>5, <3>2, <4>1
      <4> QED BY <4>2
    <3> QED BY <2>6, <3>1, <3>2
  <2> QED BY <1>3, <2>6, <2>7, <2>8 DEF Grants, f
<1> QED BY <1>4, <1>5

Entry == [obs : Observations, sched : Int]

\* The numbers known delivered: those before the checkpoint the delivery started from,
\* and those that were attempted.
Known == 1..first \cup { attempts[i][1] : i \in 1..Len(attempts) }

PlanTypes ==
    /\ policy \in Policies /\ bundle \in SUBSET Observations
    /\ plan \in Seq(Entry)
    /\ phase \in {"planned", "paced", "immediate", "over"}
    /\ now \in Nat /\ started \in Nat /\ deadline \in Nat /\ notBefore \in Nat /\ try \in 0..Len(Delays)
    /\ first \in 0..Len(plan) /\ at \in 0..Len(plan)
    /\ attempts \in Seq((1..Len(plan)) \X Nat) /\ selection \in Seq(1..Len(plan))

\* Only a paced delivery has a deadline, only an immediate one a selection, and until
\* one of them starts nothing was attempted.
OneHelper ==
    /\ phase = "planned" => attempts = <<>> /\ selection = <<>> /\ deadline = 0 /\ ahead = {}
    /\ phase = "paced" => deadline > 0 /\ selection = <<>>
    /\ phase = "immediate" => deadline = 0

\* The checkpoint ends the longest known prefix, and what is known beyond it is kept.
PrefixKnown ==
    phase = "immediate" \/ selection # <<>> =>
        /\ 1..at \subseteq Known /\ at + 1 \notin Known
        /\ ahead = { j \in Known : j > at }

Paces == Plan!NoCatchUpBurst /\ Plan!NeverAheadOfSchedule /\ Plan!NoAttemptPastDeadline

PlanInv ==
    /\ PlanTypes /\ OneHelper /\ PrefixKnown
    /\ Plan!ScheduleIsLeast /\ Plan!PlanFitsPolicy /\ Paces

\* What an accepted plan is.
LEMMA AcceptedPlan ==
    ASSUME NEW w, policy \in Policies, bundle \in SUBSET Observations,
           plan = Plan!BuildPlan(w, bundle, policy)
    PROVE  plan \in Seq(Entry) /\ Plan!ScheduleIsLeast /\ Plan!PlanFitsPolicy
<1> DEFINE order == Plan!Ordered(bundle)
           n == Len(order)
           f == Plan!Schedule(order, policy)
<1>1. CASE plan = <<>>
  <2>1. <<>> \in Seq(Entry) /\ Len(<<>>) = 0
    OBVIOUS
  <2> QED BY <1>1, <2>1 DEF Plan!ScheduleIsLeast, Plan!PlanFitsPolicy
<1>2. CASE plan # <<>>
  <2>1. /\ plan = [i \in 1..n |-> [obs |-> order[i], sched |-> f[i]]]
        /\ Plan!WithinBudgets(order, policy)
    BY <1>2 DEF Plan!BuildPlan
  <2>2. /\ order \in Seq(bundle) /\ order \in Seq(Observations) /\ n \in Nat
        /\ \A i \in 1..n : order[i] \in bundle
        /\ \A o \in bundle : \E i \in 1..n : order[i] = o
    BY OrderIsBundle
  <2>3. \A i \in 1..n : Grants(order, policy, i)
    BY <2>2, LeastSchedule
  <2>4. \A i \in 1..n : f[i] \in Int
    BY <2>3 DEF Grants
  <2>5. n <= policy.maxEvents /\ \A i \in 1..n : f[i] <= policy.maxDuration
    BY <2>1 DEF Plan!WithinBudgets
  <2> HIDE DEF order, n, f
  <2>6. ASSUME NEW i \in 1..n PROVE plan[i].obs = order[i] /\ plan[i].sched = f[i] /\ plan[i] \in Entry
    <3>1. plan[i] = [obs |-> order[i], sched |-> f[i]]
      BY <2>1
    <3>2. order[i] \in Observations /\ f[i] \in Int
      BY <2>2, <2>4
    <3> QED BY <3>1, <3>2 DEF Entry
  <2>7. \A i \in 1..n : plan[i] \in Entry
    BY <2>6
  <2>8. plan \in Seq(Entry) /\ Len(plan) = n /\ DOMAIN plan = 1..n
    <3>1. plan = [i \in 1..n |-> plan[i]]
      BY <2>1
    <3>2. DOMAIN plan = 1..n
      BY <2>1
    <3>3. plan \in [1..n -> Entry]
      BY <2>7, <3>1
    <3>4. plan \in Seq(Entry)
      BY <2>2, <3>3, SeqDef
    <3> QED BY <2>2, <3>2, <3>4, LenProperties
  <2>9. [j \in 1..Len(plan) |-> plan[j].obs] = order
    <3> DEFINE r == [j \in 1..n |-> plan[j].obs]
    <3>1. \A j \in 1..n : r[j] = order[j]
      BY <2>6
    <3>2. DOMAIN order = 1..n /\ order = [j \in 1..n |-> order[j]]
      BY <2>2, LenProperties DEF n
    <3>3. r = order
      BY <3>1, <3>2
    <3> QED BY <2>8, <3>3
  <2>10. Plan!ScheduleIsLeast
    <3> SUFFICES ASSUME NEW i \in 1..n
                 PROVE  /\ plan[i].sched \in { Demand(order, policy, j, i) : j \in 1..i }
                        /\ \A b \in { Demand(order, policy, j, i) : j \in 1..i } : b <= plan[i].sched
      BY <2>8, <2>9 DEF Plan!ScheduleIsLeast, Demand, Offset
    <3>1. plan[i].sched = f[i] /\ Grants(order, policy, i)
      BY <2>3, <2>6
    <3> QED BY <3>1 DEF Grants, f
  <2>11. { e.obs : e \in Plan!Range(plan) } = bundle
    <3>1. \A e : e \in Plan!Range(plan) <=> \E i \in 1..n : e = plan[i]
      BY <2>8 DEF Plan!Range
    <3>2. ASSUME NEW o \in bundle PROVE \E e \in Plan!Range(plan) : e.obs = o
      <4>1. PICK i \in 1..n : order[i] = o
        BY <2>2
      <4> QED BY <2>6, <3>1, <4>1
    <3>3. ASSUME NEW e \in Plan!Range(plan) PROVE e.obs \in bundle
      <4>1. PICK i \in 1..n : e = plan[i]
        BY <3>1
      <4> QED BY <2>2, <2>6, <4>1
    <3> QED BY <3>2, <3>3
  <2>12. plan[Len(plan)].sched <= policy.maxDuration
    <3>1. n # 0
      BY <1>2, <2>8, EmptySeq
    <3>2. n \in 1..n
      BY <2>2, <3>1
    <3> QED BY <2>5, <2>6, <2>8, <3>2
  <2> QED BY <2>5, <2>8, <2>10, <2>11, <2>12 DEF Plan!PlanFitsPolicy
<1> QED BY <1>1, <1>2

LEMMA PlanStart == Plan!Init => PlanInv
<1> SUFFICES ASSUME Plan!Init PROVE PlanInv
  OBVIOUS
<1>1. plan \in Seq(Entry) /\ Plan!ScheduleIsLeast /\ Plan!PlanFitsPolicy
  BY AcceptedPlan DEF Plan!Init
<1>2. /\ phase = "planned" /\ now = 0 /\ started = 0 /\ deadline = 0 /\ first = 0 /\ at = 0 /\ try = 0
      /\ notBefore = 0 /\ attempts = <<>> /\ selection = <<>> /\ ahead = {}
      /\ policy \in Policies /\ bundle \in SUBSET Observations
  BY DEF Plan!Init
<1>3. PlanTypes
  <2>1. Len(plan) \in Nat /\ Len(Delays) \in Nat
    BY <1>1, PlanFacts, LenProperties
  <2> QED BY <1>1, <1>2, <2>1 DEF PlanTypes
<1> QED BY <1>1, <1>2, <1>3 DEF PlanInv, OneHelper, PrefixKnown, Paces, Plan!NoCatchUpBurst,
           Plan!NeverAheadOfSchedule, Plan!NoAttemptPastDeadline

\* An attempt is one interval after the last one, on schedule and before the deadline.
LEMMA AttemptKeeps ==
    ASSUME PlanInv, Plan!CanAttempt, Plan!Attempted, UNCHANGED <<policy, plan, started, deadline, first>>
    PROVE  attempts' \in Seq((1..Len(plan)) \X Nat) /\ Paces'
<1> DEFINE n == Len(attempts)
           v == policy.interval
           base == IF first = 0 THEN 0 ELSE plan[first].sched
           e == <<at + 1, now>>
           r == Append(attempts, e)
<1>1. /\ attempts \in Seq((1..Len(plan)) \X Nat) /\ n \in Nat /\ v \in Nat /\ now \in Nat /\ started \in Nat
      /\ at + 1 \in 1..Len(plan) /\ plan[at + 1].sched \in Int /\ base \in Int
      /\ notBefore \in Nat /\ deadline \in Nat
  <2>1. /\ at \in 0..Len(plan) /\ at < Len(plan) /\ first \in 0..Len(plan) /\ Len(plan) \in Nat
    BY DEF PlanInv, PlanTypes, Plan!CanAttempt
  <2>2. at + 1 \in 1..Len(plan) /\ (first # 0 => first \in 1..Len(plan))
    BY <2>1
  <2>3. ASSUME NEW i \in 1..Len(plan) PROVE plan[i].sched \in Int
    <3>1. plan \in Seq(Entry)
      BY DEF PlanInv, PlanTypes
    <3>2. plan[i] \in Entry
      BY <3>1, ElementOfSeq
    <3> QED BY <3>2 DEF Entry
  <2> QED BY <2>2, <2>3, PlanFacts DEF PlanInv, PlanTypes
<1>2. \A i \in 1..n : attempts[i][2] \in Nat
  BY <1>1
<1>3. /\ r \in Seq((1..Len(plan)) \X Nat) /\ Len(r) = n + 1
      /\ \A i \in 1..n : r[i] = attempts[i]
      /\ r[n + 1] = e
  <2>1. e \in (1..Len(plan)) \X Nat
    BY <1>1
  <2> QED BY <1>1, <2>1, AppendProperties
<1>4. e[1] = at + 1 /\ e[2] = now /\ attempts' = r
  BY DEF Plan!Attempted
<1>5. /\ now >= (started - base) + plan[at + 1].sched
      /\ n # 0 => now >= attempts[n][2] + v
      /\ now < deadline
  <2>1. n # 0 => attempts # <<>> /\ attempts[n][2] \in Nat
    BY <1>1, <1>2
  <2>2. n = 0 => attempts = <<>>
    BY <1>1, EmptySeq
  <2>3. Plan!DueAt <= now /\ now < deadline
    BY DEF Plan!CanAttempt
  <2>4. Plan!Origin = started - base
    BY DEF Plan!Origin
  <2>5. Plan!DueAt = Plan!Larger(Plan!Larger((started - base) + plan[at + 1].sched,
                                             IF attempts = <<>> THEN 0 ELSE attempts[n][2] + v), notBefore)
    BY <2>4 DEF Plan!DueAt
  <2> DEFINE s == plan[at + 1].sched
             last == IF attempts = <<>> THEN 0 ELSE attempts[n][2] + v
             origin == (started - base) + s
  <2>6. origin \in Int /\ last \in Int /\ notBefore \in Int /\ now \in Int
    <3>1. attempts = <<>> \/ attempts[n][2] \in Nat
      BY <1>2, <2>1, <2>2
    <3>2. started \in Int /\ base \in Int /\ s \in Int /\ v \in Int /\ notBefore \in Int /\ now \in Int
      BY <1>1
    <3> HIDE DEF base, n, v, s
    <3>3. origin \in Int
      BY <3>2
    <3>4. last \in Int
      BY <3>1, <3>2
    <3> HIDE DEF origin, last
    <3> QED BY <3>2, <3>3, <3>4
  <2>7. Plan!DueAt = Plan!Larger(Plan!Larger(origin, last), notBefore)
    BY <2>5
  <2> HIDE DEF origin, last
  <2>8. now >= origin /\ now >= last
    BY <2>3, <2>6, <2>7 DEF Plan!Larger
  <2>9. now >= (started - base) + plan[at + 1].sched
    BY <2>8 DEF origin
  <2>10. n # 0 => now >= attempts[n][2] + v
    BY <2>1, <2>8 DEF last
  <2> QED BY <2>3, <2>9, <2>10
<1>6. deadline > 0 => \A i, j \in 1..n : i < j => attempts[j][2] - attempts[i][2] >= (j - i) * v
  BY DEF PlanInv, Paces, Plan!NoCatchUpBurst
<1> HIDE DEF r, e, n, v
<1>7. Plan!NoCatchUpBurst'
  <2> SUFFICES ASSUME deadline > 0, NEW i \in 1..(n + 1), NEW j \in 1..(n + 1), i < j
               PROVE  r[j][2] - r[i][2] >= (j - i) * v
    BY <1>3, <1>4 DEF Plan!NoCatchUpBurst, v
  <2>1. i \in 1..n /\ n # 0 /\ n \in 1..n
    BY <1>1
  <2>2. CASE j \in 1..n
    BY <1>3, <1>6, <2>1, <2>2
  <2>3. CASE j = n + 1
    <3>1. now >= attempts[n][2] + v /\ attempts[n][2] \in Nat /\ attempts[i][2] \in Nat
      BY <1>2, <1>5, <2>1
    <3>2. ASSUME NEW a \in Int, NEW b \in Int
          PROVE  a * b \in Int /\ 0 * b = 0 /\ (a + 1) * b = a * b + b
      OBVIOUS
    <3>3. n - i \in Int /\ v \in Int /\ (n + 1) - i = (n - i) + 1
      BY <1>1
    <3>4. (n - i) * v \in Int /\ ((n + 1) - i) * v = (n - i) * v + v /\ (n = i => (n - i) * v = 0)
      BY <3>2, <3>3
    <3>5. attempts[n][2] - attempts[i][2] >= (n - i) * v
      <4>1. CASE i = n
        BY <3>1, <3>4, <4>1
      <4>2. CASE i # n
        <5>1. i < n
          BY <1>1, <2>1, <4>2
        <5> QED BY <1>6, <2>1, <5>1
      <4> QED BY <4>1, <4>2
    <3>6. r[j][2] = now /\ r[i][2] = attempts[i][2]
      BY <1>3, <1>4, <2>1, <2>3
    <3> DEFINE x == (n - i) * v
               y == ((n + 1) - i) * v
               b == attempts[n][2]
               a == attempts[i][2]
    <3>7. x \in Int /\ y = x + v /\ b - a >= x /\ b \in Int /\ a \in Int /\ now >= b + v
      BY <3>1, <3>4, <3>5
    <3>8. now \in Int /\ v \in Int
      BY <1>1, <3>3
    <3> HIDE DEF x, y, a, b
    <3>9. now - a >= y
      BY <3>7, <3>8
    <3> QED BY <2>3, <3>6, <3>9 DEF y, a
  <2> QED BY <1>1, <2>2, <2>3
<1>8. Plan!NeverAheadOfSchedule'
  <2> SUFFICES ASSUME deadline > 0, NEW i \in 1..(n + 1)
               PROVE  r[i][2] - started >= plan[r[i][1]].sched - base
    BY <1>3, <1>4 DEF Plan!NeverAheadOfSchedule
  <2>1. CASE i \in 1..n
    <3>1. attempts[i][2] - started >= plan[attempts[i][1]].sched - base
      BY <2>1 DEF PlanInv, Paces, Plan!NeverAheadOfSchedule, n
    <3> QED BY <1>3, <2>1, <3>1
  <2>2. CASE i = n + 1
    <3>1. r[i][1] = at + 1 /\ r[i][2] = now
      BY <1>3, <1>4, <2>2
    <3> HIDE DEF base
    <3>2. now - started >= plan[at + 1].sched - base
      BY <1>1, <1>5
    <3> QED BY <3>1, <3>2
  <2> QED BY <1>1, <2>1, <2>2
<1>9. Plan!NoAttemptPastDeadline'
  <2> SUFFICES ASSUME deadline > 0, NEW i \in 1..(n + 1) PROVE r[i][2] < deadline
    BY <1>3, <1>4 DEF Plan!NoAttemptPastDeadline
  <2>1. CASE i \in 1..n
    BY <1>3, <2>1 DEF PlanInv, Paces, Plan!NoAttemptPastDeadline, n
  <2>2. CASE i = n + 1
    BY <1>3, <1>4, <1>5, <2>2
  <2> QED BY <1>1, <2>1, <2>2
<1> QED BY <1>3, <1>4, <1>7, <1>8, <1>9 DEF Paces

\* What no step changes: the plan, and with it what depends on nothing else.
LEMMA PlanStays ==
    ASSUME PlanInv, UNCHANGED <<policy, bundle, plan>>
    PROVE  /\ policy' \in Policies /\ bundle' \in SUBSET Observations /\ plan' \in Seq(Entry)
           /\ Plan!ScheduleIsLeast' /\ Plan!PlanFitsPolicy'
<1>1. Plan!ScheduleIsLeast' = Plan!ScheduleIsLeast
  BY DEF Plan!ScheduleIsLeast
<1>2. Plan!PlanFitsPolicy' = Plan!PlanFitsPolicy
  BY DEF Plan!PlanFitsPolicy
<1>3. policy' \in Policies /\ bundle' \in SUBSET Observations /\ plan' \in Seq(Entry)
  BY DEF PlanInv, PlanTypes
<1>4. Plan!ScheduleIsLeast /\ Plan!PlanFitsPolicy
  BY DEF PlanInv
<1> QED BY <1>1, <1>2, <1>3, <1>4

\* Steps that attempt nothing keep what is said of attempts.
LEMMA PacesStay ==
    ASSUME PlanInv, UNCHANGED <<policy, plan, attempts>>,
           deadline' = 0 \/ attempts' = <<>> \/ UNCHANGED <<started, deadline, first>>
    PROVE  Paces'
BY DEF PlanInv, Paces, Plan!NoCatchUpBurst, Plan!NeverAheadOfSchedule, Plan!NoAttemptPastDeadline

\* What is left to show of a step that keeps the plan.
LEMMA PlanInvNext ==
    ASSUME PlanInv, UNCHANGED <<policy, bundle, plan>>,
           phase' \in {"planned", "paced", "immediate", "over"},
           now' \in Nat, started' \in Nat, deadline' \in Nat, notBefore' \in Nat, try' \in 0..Len(Delays),
           first' \in 0..Len(plan), at' \in 0..Len(plan),
           attempts' \in Seq((1..Len(plan)) \X Nat), selection' \in Seq(1..Len(plan)),
           OneHelper', PrefixKnown', Paces'
    PROVE  PlanInv'
<1>1. /\ policy' \in Policies /\ bundle' \in SUBSET Observations /\ plan' \in Seq(Entry)
      /\ Plan!ScheduleIsLeast' /\ Plan!PlanFitsPolicy'
  BY PlanStays
<1>2. PlanTypes'
  BY <1>1 DEF PlanTypes
<1> QED BY <1>1, <1>2 DEF PlanInv

\* The facts every step needs.
LEMMA PlanNow ==
    ASSUME PlanInv
    PROVE  /\ phase \in {"planned", "paced", "immediate", "over"}
           /\ now \in Nat /\ started \in Nat /\ deadline \in Nat /\ notBefore \in Nat /\ try \in 0..Len(Delays)
           /\ Len(plan) \in Nat /\ first \in 0..Len(plan) /\ at \in 0..Len(plan)
           /\ attempts \in Seq((1..Len(plan)) \X Nat) /\ selection \in Seq(1..Len(plan))
           /\ policy.interval \in Nat \ {0} /\ policy.maxEvents \in Nat \ {0} /\ policy.maxDuration \in Nat \ {0}
           /\ Len(Delays) \in Nat /\ \A i \in 1..Len(Delays) : Delays[i] \in Nat
<1>1. /\ plan \in Seq(Entry) /\ policy \in Policies
  BY DEF PlanInv, PlanTypes
<1>2. Len(plan) \in Nat
  BY <1>1, LenProperties
<1>3. Delays \in Seq(Nat)
  BY PlanFacts
<1>4. Len(Delays) \in Nat /\ \A i \in 1..Len(Delays) : Delays[i] \in Nat
  BY <1>3, LenProperties, ElementOfSeq
<1>5. policy.interval \in Nat \ {0} /\ policy.maxEvents \in Nat \ {0} /\ policy.maxDuration \in Nat \ {0}
  BY <1>1, PlanFacts
<1> QED BY <1>2, <1>4, <1>5 DEF PlanInv, PlanTypes

\* A step that leaves the immediate delivery alone keeps its checkpoint.
LEMMA PrefixStays ==
    ASSUME PlanInv, UNCHANGED <<first, at, attempts, selection, ahead>>,
           phase' = "immediate" \/ selection # <<>> => phase = "immediate" \/ selection # <<>>
    PROVE  PrefixKnown'
<1>1. Known' = Known
  BY DEF Known
<1>2. PrefixKnown
  BY DEF PlanInv
<1> QED BY <1>1, <1>2 DEF PrefixKnown

LEMMA PacedStarts ==
    ASSUME PlanInv, Plan!StartPaced PROVE PlanInv'
<1>1. PICK c \in 0..Len(plan), d \in 1..policy.maxDuration :
         first' = c /\ at' = c /\ deadline' = now + d
  BY DEF Plan!StartPaced
<1>2. /\ UNCHANGED <<policy, bundle, plan, now, try, attempts, selection, ahead>>
      /\ phase = "planned" /\ phase' = "paced" /\ started' = now /\ notBefore' = 0
  BY DEF Plan!StartPaced, Plan!fixed
<1>3. attempts = <<>> /\ selection = <<>>
  BY <1>2 DEF PlanInv, OneHelper
<1>4. deadline' \in Nat /\ deadline' > 0
  BY <1>1, PlanNow
<1>5. OneHelper' /\ PrefixKnown'
  BY <1>2, <1>3, <1>4 DEF OneHelper, PrefixKnown
<1>6. Paces'
  BY <1>2, <1>3, PacesStay
<1> QED BY <1>1, <1>2, <1>4, <1>5, <1>6, PlanNow, PlanInvNext

\* The clock moves on, or the paced or the immediate helper returns.
LEMMA PlanMoves ==
    ASSUME PlanInv,
           \/ Plan!Tick \/ Plan!PacedComplete \/ Plan!DeadlineResult
           \/ Plan!ImmediateFailed \/ Plan!ImmediateComplete
    PROVE  PlanInv'
<1>1. /\ UNCHANGED <<policy, bundle, plan, started, deadline, first, at, try, notBefore, attempts, selection, ahead>>
      /\ now' \in Nat
      /\ \/ phase' = phase
         \/ phase' = "over"
  BY PlanNow DEF Plan!Tick, Plan!PacedComplete, Plan!DeadlineResult, Plan!ImmediateFailed,
                 Plan!ImmediateComplete, Plan!Finish, Plan!fixed
<1>2. OneHelper' /\ phase' \in {"planned", "paced", "immediate", "over"}
  BY <1>1, PlanNow DEF PlanInv, OneHelper
<1>3. PrefixKnown'
  BY <1>1, PrefixStays
<1>4. Paces'
  BY <1>1, PacesStay
<1> QED BY <1>1, <1>2, <1>3, <1>4, PlanNow, PlanInvNext

LEMMA Attempts ==
    ASSUME PlanInv, Plan!AttemptDelivered \/ Plan!AttemptTransient \/ Plan!AttemptRefused
    PROVE  PlanInv'
<1>1. /\ Plan!CanAttempt /\ Plan!Attempted /\ phase = "paced" /\ at < Len(plan)
      /\ UNCHANGED <<policy, bundle, plan, now, started, deadline, first, selection, ahead>>
      /\ phase' = "paced" \/ phase' = "over"
  BY DEF Plan!AttemptDelivered, Plan!AttemptTransient, Plan!AttemptRefused, Plan!CanAttempt,
         Plan!Finish, Plan!fixed
<1>2. at' \in 0..Len(plan) /\ try' \in 0..Len(Delays) /\ notBefore' \in Nat
  <2>1. CASE Plan!AttemptDelivered
    BY <1>1, <2>1, PlanNow DEF Plan!AttemptDelivered
  <2>2. CASE Plan!AttemptTransient
    <3>1. CASE try < Len(Delays)
      <4>1. at' = at /\ try' = try + 1 /\ notBefore' = now + Delays[try + 1]
        BY <2>2, <3>1 DEF Plan!AttemptTransient
      <4>2. try + 1 \in 1..Len(Delays)
        BY <3>1, PlanNow
      <4>3. Delays[try + 1] \in Nat
        BY <4>2, PlanNow
      <4> DEFINE delay == Delays[try + 1]
      <4>4. delay \in Nat /\ notBefore' = now + delay
        BY <4>1, <4>3
      <4> HIDE DEF delay
      <4>5. notBefore' \in Nat
        BY <4>4, PlanNow
      <4>6. try' \in 0..Len(Delays)
        BY <4>1, <4>2, PlanNow
      <4> QED BY <4>1, <4>5, <4>6, PlanNow
    <3>2. CASE ~(try < Len(Delays))
      <4>1. at' = at /\ try' = try /\ notBefore' = notBefore
        BY <2>2, <3>2 DEF Plan!AttemptTransient
      <4> QED BY <4>1, PlanNow
    <3> QED BY <3>1, <3>2
  <2>3. CASE Plan!AttemptRefused
    BY <2>3, PlanNow DEF Plan!AttemptRefused
  <2> QED BY <2>1, <2>2, <2>3
<1>3. attempts' \in Seq((1..Len(plan)) \X Nat) /\ Paces'
  BY <1>1, AttemptKeeps
<1>4. selection = <<>> /\ deadline > 0
  BY <1>1 DEF PlanInv, OneHelper
<1>5. OneHelper' /\ PrefixKnown' /\ phase' \in {"planned", "paced", "immediate", "over"}
  BY <1>1, <1>4 DEF OneHelper, PrefixKnown
<1> QED BY <1>1, <1>2, <1>3, <1>5, PlanNow, PlanInvNext

LEMMA ImmediateStarts ==
    ASSUME PlanInv, Plan!StartImmediate PROVE PlanInv'
<1>1. PICK c \in 0..Len(plan), n \in 1..policy.maxEvents : \E sel \in [1..n -> 1..Len(plan)] :
         first' = c /\ at' = c /\ selection' = sel
  BY DEF Plan!StartImmediate
<1>2. /\ UNCHANGED <<policy, bundle, plan, now, started, deadline, try, notBefore, attempts, ahead>>
      /\ phase = "planned" /\ phase' = "immediate"
  BY DEF Plan!StartImmediate, Plan!fixed
<1>3. attempts = <<>> /\ deadline = 0 /\ ahead = {}
  BY <1>2 DEF PlanInv, OneHelper
<1>4. selection' \in Seq(1..Len(plan))
  <2>1. n \in Nat /\ selection' \in [1..n -> 1..Len(plan)]
    BY <1>1, PlanNow
  <2> QED BY <2>1, SeqDef
<1>5. Known' = 1..c
  <2>1. attempts' = <<>> /\ first' = c
    BY <1>1, <1>2, <1>3
  <2>2. Len(attempts') = 0
    BY <2>1
  <2>3. { attempts[i][1] : i \in 1..Len(attempts) }' = {}
    BY <2>2
  <2> QED BY <2>1, <2>3 DEF Known
<1>6. c \in Nat
  BY <1>1, PlanNow
<1>7. OneHelper'
  BY <1>2, <1>3 DEF OneHelper
<1>8. PrefixKnown'
  BY <1>1, <1>2, <1>3, <1>5, <1>6 DEF PrefixKnown
<1>9. Paces'
  BY <1>2, <1>3, PacesStay
<1> QED BY <1>1, <1>2, <1>4, <1>7, <1>8, <1>9, PlanNow, PlanInvNext

\* The loop that moves the checkpoint finds the end of the run of successes.
LEMMA ContiguousEnds ==
    ASSUME NEW c \in 0..Len(plan), NEW done \in SUBSET (1..Len(plan)), Len(plan) \in Nat
    PROVE  LET k == Plan!Contiguous(c, done)
           IN  k \in c..Len(plan) /\ (\A j \in (c + 1)..k : j \in done) /\ k + 1 \notin done
<1> DEFINE L == Len(plan)
           T == { k \in Nat : k >= c /\ k + 1 \notin done }
<1>1. L \in T
  BY DEF T
<1>2. PICK k \in T : \A m \in T : k <= m
  BY <1>1, Least
<1>3. k \in Nat /\ k >= c /\ k + 1 \notin done /\ k <= L
  BY <1>1, <1>2
<1>4. ASSUME NEW j \in (c + 1)..k PROVE j \in done
  <2>1. j - 1 \in Nat /\ j - 1 >= c /\ (j - 1) + 1 = j /\ ~(k <= j - 1)
    BY <1>3
  <2>2. j - 1 \notin T
    BY <1>2, <2>1
  <2> QED BY <2>1, <2>2
<1>5. k \in c..Len(plan)
  BY <1>3
<1> HIDE DEF T
<1>6. \E x \in c..Len(plan) : (\A j \in (c + 1)..x : j \in done) /\ x + 1 \notin done
  BY <1>3, <1>4, <1>5
<1> QED BY <1>6 DEF Plan!Contiguous

LEMMA ImmediateDelivers ==
    ASSUME PlanInv, Plan!ImmediateDelivered PROVE PlanInv'
<1> DEFINE L == Len(plan)
           sent == Head(selection)
           done == IF sent > at THEN ahead \cup {sent} ELSE ahead
           next == Plan!Contiguous(at, done)
           e == <<sent, now>>
<1>1. /\ UNCHANGED <<policy, bundle, plan, phase, now, started, deadline, first, try, notBefore>>
      /\ phase = "immediate" /\ selection # <<>> /\ selection' = Tail(selection)
      /\ at' = next /\ ahead' = { j \in done : j > next } /\ attempts' = Append(attempts, e)
  BY DEF Plan!ImmediateDelivered, Plan!fixed
<1>2. sent \in 1..L /\ selection' \in Seq(1..L)
  <2>1. selection \in Seq(1..L)
    BY PlanNow
  <2> QED BY <1>1, <2>1, HeadTailProperties
<1>3. /\ attempts' \in Seq((1..L) \X Nat) /\ Len(attempts') = Len(attempts) + 1
      /\ \A i \in 1..Len(attempts) : attempts'[i] = attempts[i]
      /\ attempts'[Len(attempts) + 1] = e /\ Len(attempts) \in Nat
  <2>1. attempts \in Seq((1..L) \X Nat) /\ e \in (1..L) \X Nat
    BY <1>2, PlanNow
  <2> QED BY <1>1, <2>1, AppendProperties, LenProperties
<1>4. Known' = Known \cup {sent}
  <2>1. { attempts[i][1] : i \in 1..Len(attempts) }' = { attempts[i][1] : i \in 1..Len(attempts) } \cup {sent}
    <3>1. e[1] = sent
      OBVIOUS
    <3>2. 1..Len(attempts') = 1..Len(attempts) \cup {Len(attempts) + 1}
      BY <1>3
    <3>3. \A i \in 1..Len(attempts) : attempts'[i][1] = attempts[i][1]
      BY <1>3
    <3>4. attempts'[Len(attempts) + 1][1] = sent
      BY <1>3, <3>1
    <3> HIDE DEF sent, e
    <3> QED BY <3>2, <3>3, <3>4
  <2> QED BY <1>1, <2>1 DEF Known
<1>5. Known \in SUBSET (1..L)
  <2>1. ASSUME NEW i \in 1..Len(attempts) PROVE attempts[i][1] \in 1..L
    <3>1. attempts[i] \in (1..L) \X Nat
      BY PlanNow, ElementOfSeq
    <3> QED BY <3>1
  <2>2. 1..first \in SUBSET (1..L)
    BY PlanNow
  <2> QED BY <2>1, <2>2 DEF Known
<1>6. 1..at \subseteq Known /\ ahead = { j \in Known : j > at }
  BY <1>1 DEF PlanInv, PrefixKnown
<1> HIDE DEF sent, L
<1>7. \A j : j \in done <=> j \in Known' /\ j > at
  <2>1. CASE sent > at
    BY <1>4, <1>6, <2>1
  <2>2. CASE ~(sent > at)
    BY <1>4, <1>6, <2>2
  <2> QED BY <2>1, <2>2
<1>8. L \in Nat /\ at \in 0..L /\ done \in SUBSET (1..L)
  BY <1>2, <1>4, <1>5, <1>7, PlanNow DEF L
<1> HIDE DEF done
<1>9. next \in at..L /\ (\A j \in (at + 1)..next : j \in done) /\ next + 1 \notin done
  BY <1>8, ContiguousEnds DEF L
<1> HIDE DEF next
<1>10. next \in 0..L /\ next >= at
  BY <1>8, <1>9
<1>11. 1..next \subseteq Known'
  <2> SUFFICES ASSUME NEW j \in 1..next PROVE j \in Known'
    OBVIOUS
  <2>1. CASE j \in 1..at
    BY <1>4, <1>6, <2>1
  <2>2. CASE j \in (at + 1)..next
    BY <1>7, <1>9, <2>2
  <2> QED BY <1>8, <1>10, <2>1, <2>2
<1>12. next + 1 \notin Known'
  <2>1. next + 1 > at
    BY <1>8, <1>10
  <2> QED BY <1>7, <1>9, <2>1
<1>13. ahead' = { j \in Known' : j > next }
  <2>1. ASSUME NEW j, j \in Known', j > next PROVE j > at
    <3>1. j \in Int
      BY <1>2, <1>4, <1>5, <2>1 DEF L
    <3> QED BY <1>8, <1>10, <2>1, <3>1
  <2> QED BY <1>1, <1>7, <2>1
<1>14. PrefixKnown'
  BY <1>1, <1>11, <1>12, <1>13 DEF PrefixKnown
<1>15. deadline = 0
  BY <1>1 DEF PlanInv, OneHelper
<1>16. OneHelper'
  BY <1>1, <1>15 DEF OneHelper
<1>17. Paces'
  BY <1>1, <1>15 DEF Paces, Plan!NoCatchUpBurst, Plan!NeverAheadOfSchedule, Plan!NoAttemptPastDeadline
<1>18. at' \in 0..Len(plan) /\ selection' \in Seq(1..Len(plan)) /\ attempts' \in Seq((1..Len(plan)) \X Nat)
  BY <1>1, <1>2, <1>3, <1>10 DEF L
<1> QED BY <1>1, <1>14, <1>16, <1>17, <1>18, PlanNow, PlanInvNext

LEMMA PlanKept == ASSUME PlanInv, Plan!Next \/ UNCHANGED planVars PROVE PlanInv'
<1>1. CASE UNCHANGED planVars
  <2>1. UNCHANGED <<policy, bundle, plan, phase, now, started, deadline, first, at, try, notBefore,
                    attempts, selection, ahead>>
    BY <1>1 DEF planVars
  <2>2. OneHelper'
    BY <2>1 DEF PlanInv, OneHelper
  <2>3. PrefixKnown' /\ Paces'
    BY <2>1, PrefixStays, PacesStay
  <2> QED BY <2>1, <2>2, <2>3, PlanNow, PlanInvNext
<1>2. CASE Plan!Next
  BY <1>2, PacedStarts, PlanMoves, Attempts, ImmediateStarts, ImmediateDelivers DEF Plan!Next
<1> QED BY <1>1, <1>2

LEMMA PlanPaces ==
    ASSUME PlanInv
    PROVE  /\ Plan!ScheduleIsLeast /\ Plan!PlanFitsPolicy /\ Plan!NoCatchUpBurst
           /\ Plan!NeverAheadOfSchedule /\ Plan!NoAttemptPastDeadline
           /\ Plan!CheckpointIsContiguous
BY DEF PlanInv, PrefixKnown, Known, Paces, Plan!CheckpointIsContiguous

\* Pacing, for any observations, policies, backoffs and clock: an accepted plan fits its
\* budgets and delivers each event at the least time that source and rate allow; no
\* retry causes a burst, no attempt is early or past the deadline, and the checkpoint
\* ends the longest delivered prefix (build_replay_plan, run_paced_replay,
\* deliver_replay_plan).
THEOREM Pacing == Spec => []PacingKeepsSchedule
<1> DEFINE Inv == part = "plan" => PlanInv
<1>1. Init => Inv
  BY PlanStart DEF Init
<1>2. Inv /\ [Next]_vars => Inv'
  <2> SUFFICES ASSUME Inv, [Next]_vars, part' = "plan" PROVE PlanInv'
    OBVIOUS
  <2>1. CASE part = "plan" /\ Plan!Next
    BY <2>1, PlanKept
  <2>2. CASE UNCHANGED vars
    <3>1. UNCHANGED planVars /\ part = "plan"
      BY <2>2 DEF vars
    <3> QED BY <3>1, PlanKept
  <2> QED BY <2>1, <2>2 DEF Next
<1>3. Inv => PacingKeepsSchedule
  BY PlanPaces DEF PacingKeepsSchedule
<1> QED BY <1>1, <1>2, <1>3, PTL DEF Spec

----------------------------------------------------------------------------
(* The workspace *)

\* Processes and files, as far as their fields matter here: each process has a record
\* of its own, and contents are a writer's, corrupt or absent.
Contents == Values \cup {Corrupt, None}
Shas == {Workspace!Digest(v) : v \in Contents} \cup {None}
Files == [id : Nat, v : Contents]
Directories == [id : Nat, db : Contents, sha : Shas, owner : Procs \cup {None}]
Backups == {"copy", "manifest", "publish"}
Restores == {"checkpoint", "copy_in", "replace"}
Outcomes == {"none", "initialized", "workspace_not_owned", "runtime_failed", "reset", "refused",
             "backed_up", "backup_failed", "unchanged", "restored", "restore_failed", "killed"}
Process == [pc : Backups \cup Restores \cup {"idle", "init", "reset", "lock", "confirm"},
            dest : Dests \cup {None}, sha : Shas, dirId : Nat, stateId : Nat, dbId : Nat,
            tempId : Nat, stageId : Nat, dbChild : Contents, out : Outcomes]

WorkspaceTypes ==
    /\ seq \in Nat /\ state \in 0..seq /\ outside \in Nat
    /\ database \in Files /\ temp \in Files /\ wal \in Contents
    /\ dirs \in [Dests -> Directories]
    /\ staging \in [Procs -> Directories]
    /\ proc \in [Procs -> Process]
    /\ \A p \in Procs : proc[p].pc \in Backups \cup Restores \cup {"lock"} => proc[p].dest \in Dests

\* A state directory that is not there holds no database, and without a database there
\* is no log; an empty root without a marker has no state directory.
NothingOutside ==
    /\ state = 0 => database = Workspace!NoFile
    /\ database = Workspace!NoFile => wal = None
    /\ ~marker /\ ~root => state = 0

\* Between the two halves of an init the workspace is not owned, its state directory is
\* the one that init made, without a database, and no other init is at work.
InitAlone ==
    \A p \in Procs : proc[p].pc = "init" =>
        /\ ~marker /\ root /\ state = proc[p].stateId /\ state # 0
        /\ database = Workspace!NoFile
        /\ \A q \in Procs : proc[q].pc = "init" => q = p

\* A restore knows a state directory that was made before, never that of an init.
LockedBefore ==
    \A p \in Procs : proc[p].pc \in Restores =>
        /\ proc[p].stateId \in 1..seq
        /\ \A q \in Procs : proc[q].pc = "init" => proc[p].stateId # state

\* Where the writers are stopped during a command, the log stays folded in until the
\* database is replaced.
LogFolded ==
    WritersStopped => \A p \in Procs : proc[p].pc \in {"copy_in", "replace"} => wal = None

WorkspaceInv == WorkspaceTypes /\ NothingOutside /\ InitAlone /\ LockedBefore /\ LogFolded

LEMMA WorkspaceFacts ==
    /\ Corrupt \notin Values /\ None \notin Values /\ None # Corrupt /\ None \notin Procs
    /\ WritersStopped \in BOOLEAN /\ MaxIdentity \in Nat
    /\ Values \subseteq Contents /\ None \in Contents /\ Corrupt \in Contents
    /\ \A v \in Contents : Workspace!Digest(v) \in Shas
    /\ None \in Shas
BY WorkspaceConstants DEF Workspace!WorkspaceAssumption, Contents, Shas

\* A file that exists has an identity.
LEMMA FreshFile ==
    ASSUME NEW i \in Nat, NEW v \in Contents
    PROVE  /\ Workspace!File(i, v) \in Files
           /\ Workspace!File(i, v).id = i /\ Workspace!File(i, v).v = v
           /\ i # 0 => Workspace!File(i, v) # Workspace!NoFile
           /\ Workspace!NoFile \in Files /\ Workspace!Absent \in Directories
BY WorkspaceFacts DEF Workspace!File, Files, Workspace!NoFile, Workspace!Absent, Directories

LEMMA IdleProcess ==
    /\ Workspace!Idle \in Process /\ Workspace!Idle.pc = "idle"
    /\ \A o \in Outcomes : /\ [Workspace!Idle EXCEPT !.out = o] \in Process
                           /\ [Workspace!Idle EXCEPT !.out = o].pc = "idle"
BY WorkspaceFacts DEF Workspace!Idle, Process, Outcomes

LEMMA WorkspaceInitially == Workspace!Init => WorkspaceInv
<1> SUFFICES ASSUME Workspace!Init PROVE WorkspaceInv
  OBVIOUS
<1> USE WorkspaceFacts, FreshFile, IdleProcess DEF Workspace!Init
<1>1. WorkspaceTypes
  <2>1. proc \in [Procs -> Process] /\ dirs \in [Dests -> Directories] /\ staging \in [Procs -> Directories]
    OBVIOUS
  <2>2. database \in Files /\ temp \in Files /\ wal \in Contents
    BY FreshFile
  <2>3. \A p \in Procs : proc[p].pc = "idle"
    OBVIOUS
  <2>4. seq \in Nat /\ state \in 0..seq /\ outside \in Nat
    OBVIOUS
  <2> HIDE DEF Workspace!Init
  <2> QED BY ONLY <2>1, <2>2, <2>3, <2>4 DEF WorkspaceTypes, Backups, Restores
<1>2. NothingOutside /\ InitAlone /\ LockedBefore /\ LogFolded
  BY DEF NothingOutside, InitAlone, LockedBefore, LogFolded, Restores
<1> QED BY <1>1, <1>2 DEF WorkspaceInv

\* A process leaves, or goes on without looking at the workspace: only its own record
\* changes, and it is neither an init nor a restore that has passed the log.
LEMMA OwnMove ==
    ASSUME WorkspaceInv, NEW p \in Procs, NEW r \in Process, Workspace!Go(p, r),
           r.pc \in Backups \cup {"lock"} => r.dest \in Dests,
           r.pc \notin Restores \cup {"init"},
           UNCHANGED <<marker, root, state, database, wal>>,
           seq' \in Nat, seq' >= seq, outside' \in Nat, temp' \in Files,
           dirs' \in [Dests -> Directories], staging' \in [Procs -> Directories]
    PROVE  WorkspaceInv'
<1> USE DEF WorkspaceInv
<1>0. /\ proc' \in [Procs -> Process] /\ proc'[p] = r
      /\ \A q \in Procs : q # p => proc'[q] = proc[q]
  BY DEF WorkspaceTypes, Workspace!Go
<1>1. WorkspaceTypes'
  BY <1>0 DEF WorkspaceTypes
<1>2. NothingOutside'
  BY DEF NothingOutside
<1>3. InitAlone'
  BY <1>0 DEF InitAlone, Restores
<1>4. LockedBefore'
  BY <1>0 DEF LockedBefore, WorkspaceTypes, Restores
<1>5. LogFolded'
  BY <1>0 DEF LogFolded, Restores
<1> QED BY <1>1, <1>2, <1>3, <1>4, <1>5

\* The steps that make, empty or give up the state directory.
LEMMA StateMoves ==
    ASSUME WorkspaceInv, NEW p \in Procs,
           \/ Workspace!PrepareInit(p) \/ Workspace!InitAgain(p) \/ Workspace!CommitInit(p)
           \/ Workspace!RollbackInit(p) \/ Workspace!ResetState(p) \/ Workspace!ResetMarker(p)
    PROVE  WorkspaceInv'
<1> USE WorkspaceFacts, IdleProcess, FreshFile
    DEF WorkspaceInv, Workspace!Fresh, Workspace!Start, Workspace!At, Workspace!Go, Workspace!Exit,
        Workspace!Owned, Workspace!bounds
<1>1. CASE Workspace!PrepareInit(p)
  <2> DEFINE r == [Workspace!Idle EXCEPT !.pc = "init", !.stateId = seq + 1]
  <2>0. /\ seq + 1 \in Nat /\ seq + 1 # 0 /\ seq' = seq + 1 /\ state' = seq + 1 /\ state = 0
        /\ ~marker /\ ~marker' /\ root'
        /\ UNCHANGED <<database, wal, temp, dirs, staging, outside>>
    BY <1>1 DEF Workspace!PrepareInit, WorkspaceTypes, NothingOutside
  <2>1. r \in Process /\ r.pc = "init" /\ r.stateId = seq + 1
    BY <2>0 DEF Workspace!Idle, Process
  <2>2. proc' = [proc EXCEPT ![p] = r]
    BY <1>1 DEF Workspace!PrepareInit
  <2> HIDE DEF r
  <2>3. /\ proc' \in [Procs -> Process] /\ proc'[p] = r
        /\ \A q \in Procs : q # p => proc'[q] = proc[q]
    BY <2>1, <2>2 DEF WorkspaceTypes
  <2>4. WorkspaceTypes'
    BY <2>0, <2>1, <2>3 DEF WorkspaceTypes, Backups, Restores
  <2>5. NothingOutside'
    BY <2>0 DEF NothingOutside
  <2>6. InitAlone'
    BY <2>0, <2>1, <2>3 DEF InitAlone, NothingOutside
  <2>7. LockedBefore'
    BY <2>0, <2>1, <2>3 DEF LockedBefore, Restores, WorkspaceTypes
  <2>8. LogFolded'
    BY <2>0, <2>1, <2>3 DEF LogFolded
  <2> QED BY <2>4, <2>5, <2>6, <2>7, <2>8
<1>2. CASE Workspace!InitAgain(p) \/ Workspace!CommitInit(p) \/ Workspace!RollbackInit(p)
           \/ Workspace!ResetMarker(p)
  <2>0. PICK o \in Outcomes : proc' = [proc EXCEPT ![p] = [Workspace!Idle EXCEPT !.out = o]]
    BY <1>2 DEF Workspace!InitAgain, Workspace!CommitInit, Workspace!RollbackInit,
       Workspace!ResetMarker, Outcomes
  <2>1. /\ proc' \in [Procs -> Process] /\ proc'[p].pc = "idle"
        /\ \A q \in Procs : q # p => proc'[q] = proc[q]
    BY <2>0 DEF WorkspaceTypes
  <2> DEFINE Files2 == /\ UNCHANGED <<dirs, staging, outside>>
                       /\ seq' \in Nat /\ seq' >= seq /\ state' \in 0..seq'
                       /\ state' = state \/ state' = 0 \/ (state' > seq /\ marker /\ marker')
                       /\ database' \in Files /\ temp' \in Files /\ wal' \in Contents
                       /\ wal' = wal \/ wal' = None
  <2>2. Files2 /\ NothingOutside'
    <3>0. seq \in Nat /\ state \in 0..seq /\ database \in Files /\ temp \in Files /\ wal \in Contents
      BY DEF WorkspaceTypes
    <3>1. CASE Workspace!InitAgain(p) /\ state # 0
      BY <3>0, <3>1 DEF Workspace!InitAgain, NothingOutside
    <3>2. CASE Workspace!InitAgain(p) /\ state = 0
      <4>1. PICK v \in Values : database' = Workspace!File(seq + 2, v)
        BY <3>2 DEF Workspace!InitAgain
      <4>2. database' \in Files /\ database' # Workspace!NoFile
        <5>1. seq + 2 \in Nat /\ seq + 2 # 0 /\ v \in Contents
          BY <3>0
        <5> QED BY <4>1, <5>1, FreshFile
      <4>3. /\ state' = seq + 1 /\ seq' = seq + 2 /\ marker /\ marker'
            /\ UNCHANGED <<wal, temp, dirs, staging, outside>>
        BY <3>2 DEF Workspace!InitAgain
      <4> QED BY <4>2, <4>3, <3>0 DEF NothingOutside
    <3>3. CASE Workspace!CommitInit(p)
      <4>1. PICK v \in Values : database' = Workspace!File(seq + 1, v)
        BY <3>3 DEF Workspace!CommitInit
      <4>2. database' \in Files /\ database' # Workspace!NoFile
        <5>1. seq + 1 \in Nat /\ seq + 1 # 0 /\ v \in Contents
          BY <3>0
        <5> QED BY <4>1, <5>1, FreshFile
      <4>3. /\ state' = state /\ seq' = seq + 1 /\ marker' /\ state # 0
            /\ UNCHANGED <<wal, temp, dirs, staging, outside>>
        BY <3>3 DEF Workspace!CommitInit, InitAlone
      <4> QED BY <4>2, <4>3, <3>0 DEF NothingOutside
    <3>4. CASE Workspace!RollbackInit(p)
      BY <3>0, <3>4 DEF Workspace!RollbackInit, NothingOutside
    <3>5. CASE Workspace!ResetMarker(p)
      <4>1. ~root' => state = 0
        BY <3>5, Zenon DEF Workspace!ResetMarker
      <4>2. UNCHANGED <<state, database, wal, temp, dirs, staging, seq, outside>>
        BY <3>5 DEF Workspace!ResetMarker
      <4> QED BY <3>0, <4>1, <4>2 DEF NothingOutside
    <3> QED BY <1>2, <3>1, <3>2, <3>3, <3>4, <3>5
  <2>4. WorkspaceTypes'
    BY <2>1, <2>2 DEF WorkspaceTypes, Backups, Restores
  <2>6. InitAlone'
    <3> SUFFICES ASSUME NEW q \in Procs, proc'[q].pc = "init"
                 PROVE  /\ ~marker' /\ root' /\ state' = proc'[q].stateId /\ state' # 0
                        /\ database' = Workspace!NoFile
                        /\ \A s \in Procs : proc'[s].pc = "init" => s = q
      BY DEF InitAlone
    <3>1. /\ q # p /\ proc'[q] = proc[q] /\ ~marker /\ root /\ proc[p].pc # "init"
      BY <2>1 DEF InitAlone
    <3>2. FALSE
      BY <1>2, <3>1 DEF Workspace!InitAgain, Workspace!CommitInit, Workspace!RollbackInit, Workspace!ResetMarker
    <3> QED BY <3>2
  <2>7. LockedBefore'
    BY <2>1, <2>2 DEF LockedBefore, Restores, WorkspaceTypes, InitAlone
  <2>8. LogFolded'
    BY <2>1, <2>2 DEF LogFolded
  <2> QED BY <2>2, <2>4, <2>6, <2>7, <2>8
<1>3. CASE Workspace!ResetState(p)
  <2>1. /\ [Workspace!Idle EXCEPT !.pc = "reset"] \in Process
        /\ [Workspace!Idle EXCEPT !.pc = "reset"].pc = "reset"
    BY DEF Workspace!Idle, Process
  <2>2. /\ proc' \in [Procs -> Process] /\ proc'[p].pc = "reset"
        /\ \A q \in Procs : q # p => proc'[q] = proc[q]
    BY <1>3, <2>1 DEF WorkspaceTypes, Workspace!ResetState
  <2>3. /\ UNCHANGED <<marker, root, dirs, staging, outside, seq>> /\ marker
        /\ state' = 0 /\ database' = Workspace!NoFile /\ wal' = None /\ temp' = Workspace!NoFile
    BY <1>3 DEF Workspace!ResetState
  <2>4. WorkspaceTypes'
    BY <2>2, <2>3 DEF WorkspaceTypes, Backups, Restores
  <2>5. NothingOutside'
    BY <2>3 DEF NothingOutside
  <2>6. InitAlone'
    BY <2>2, <2>3 DEF InitAlone
  <2>7. LockedBefore'
    BY <2>2, <2>3 DEF LockedBefore, Restores, InitAlone
  <2>8. LogFolded'
    BY <2>3 DEF LogFolded
  <2> QED BY <2>4, <2>5, <2>6, <2>7, <2>8
<1> QED BY <1>1, <1>2, <1>3

\* Backup, and the steps that change nothing but the process that takes them.
LEMMA OwnMoves ==
    ASSUME WorkspaceInv, NEW p \in Procs,
           \/ Workspace!InitNotOwned(p) \/ Workspace!ResetRaced(p) \/ Workspace!WriteManifest(p)
           \/ Workspace!PublishBackup(p) \/ Workspace!CleanupStaging(p) \/ Workspace!ConfirmRestore(p)
           \/ Workspace!FailRestore(p) \/ Workspace!Kill(p)
           \/ \E d \in Dests : Workspace!StageBackup(p, d) \/ Workspace!BackupRefused(p, d)
           \/ \E d \in Dests, sha \in { Workspace!Digest(v) : v \in Values } :
                  Workspace!VerifySource(p, d, sha) \/ Workspace!SourceRefused(p, d, sha)
    PROVE  WorkspaceInv'
<1> USE WorkspaceFacts DEF Workspace!Start, Workspace!At, Workspace!bounds
<1> DEFINE Frame == /\ UNCHANGED <<marker, root, state, database, wal>>
                    /\ seq' \in Nat /\ seq' >= seq /\ outside' \in Nat /\ temp' \in Files
                    /\ dirs' \in [Dests -> Directories] /\ staging' \in [Procs -> Directories]
<1>0. /\ seq \in Nat /\ outside \in Nat /\ temp \in Files /\ database \in Files
      /\ dirs \in [Dests -> Directories] /\ staging \in [Procs -> Directories]
      /\ proc[p] \in Process /\ Workspace!NoFile \in Files /\ Workspace!Absent \in Directories
  <2>1. Workspace!NoFile \in Files /\ Workspace!Absent \in Directories
    BY FreshFile, 0 \in Nat
  <2> QED BY <2>1 DEF WorkspaceInv, WorkspaceTypes
<1>1. ASSUME NEW o \in Outcomes, Workspace!Exit(p, o), Frame PROVE WorkspaceInv'
  <2> DEFINE r == [Workspace!Idle EXCEPT !.out = o]
  <2>1. r \in Process /\ r.pc = "idle"
    BY IdleProcess
  <2>2. Workspace!Go(p, r)
    BY <1>1 DEF Workspace!Exit
  <2> HIDE DEF r
  <2> QED BY <1>1, <2>1, <2>2, OwnMove DEF Restores, Backups
<1>2. CASE \/ Workspace!InitNotOwned(p) \/ Workspace!ResetRaced(p)
           \/ \E d \in Dests : Workspace!BackupRefused(p, d)
           \/ \E d \in Dests, sha \in { Workspace!Digest(v) : v \in Values } : Workspace!SourceRefused(p, d, sha)
  <2>1. PICK o \in Outcomes : Workspace!Exit(p, o)
    BY <1>2 DEF Workspace!InitNotOwned, Workspace!ResetRaced, Workspace!BackupRefused,
       Workspace!SourceRefused, Outcomes
  <2>2. Frame
    BY <1>0, <1>2 DEF Workspace!InitNotOwned, Workspace!ResetRaced, Workspace!BackupRefused,
       Workspace!SourceRefused
  <2> QED BY <1>1, <2>1, <2>2
<1>3. CASE Workspace!ConfirmRestore(p) \/ Workspace!FailRestore(p) \/ Workspace!Kill(p)
  <2>1. PICK o \in Outcomes : Workspace!Exit(p, o)
    BY <1>3 DEF Workspace!ConfirmRestore, Workspace!FailRestore, Workspace!Kill, Outcomes
  <2>2. Frame
    BY <1>0, <1>3 DEF Workspace!ConfirmRestore, Workspace!FailRestore, Workspace!Kill
  <2> QED BY <1>1, <2>1, <2>2
<1>4. CASE Workspace!PublishBackup(p) \/ Workspace!CleanupStaging(p)
  <2>1. PICK o \in Outcomes : Workspace!Exit(p, o)
    BY <1>4 DEF Workspace!PublishBackup, Workspace!CleanupStaging, Outcomes
  <2>2. Frame
    BY <1>0, <1>4 DEF Workspace!PublishBackup, Workspace!CleanupStaging, Workspace!publish_directory_no_replace
  <2> QED BY <1>1, <2>1, <2>2
<1>5. CASE Workspace!WriteManifest(p)
  <2> DEFINE sha == Workspace!Digest(proc[p].dbChild)
             r == [proc[p] EXCEPT !.pc = "publish", !.sha = sha]
  <2>1. sha \in Shas
    BY <1>0 DEF Process
  <2>2. r \in Process /\ r.pc = "publish" /\ r.dest = proc[p].dest
    BY <1>0, <2>1 DEF Process, Backups
  <2>3. Workspace!Go(p, r) /\ r.dest \in Dests
    BY <1>5, <2>2 DEF Workspace!WriteManifest, WorkspaceInv, WorkspaceTypes, Backups
  <2>4. Frame
    <3>1. staging' = [staging EXCEPT ![p].sha = sha]
      BY <1>5 DEF Workspace!WriteManifest
    <3> HIDE DEF sha
    <3>2. staging' \in [Procs -> Directories]
      BY <1>0, <2>1, <3>1 DEF Directories
    <3> QED BY <1>0, <1>5, <3>2 DEF Workspace!WriteManifest
  <2> HIDE DEF r
  <2> QED BY <2>2, <2>3, <2>4, OwnMove DEF Restores
<1>6. ASSUME NEW d \in Dests, Workspace!StageBackup(p, d) PROVE WorkspaceInv'
  <2> DEFINE r == [Workspace!Idle EXCEPT !.pc = "copy", !.dest = d, !.stageId = seq + 1]
             s == [Workspace!Absent EXCEPT !.id = seq + 1, !.owner = p]
  <2>0. seq + 1 \in Nat
    BY <1>0
  <2>1. r \in Process /\ r.pc = "copy" /\ r.dest = d
    BY <2>0, IdleProcess DEF Process, Backups
  <2>2. s \in Directories
    BY <1>0, <2>0 DEF Directories
  <2>3. Workspace!Go(p, r)
    BY <1>6 DEF Workspace!StageBackup, Workspace!Fresh
  <2>4. Frame
    <3>1. staging' = [staging EXCEPT ![p] = s]
      BY <1>6 DEF Workspace!StageBackup, Workspace!Fresh
    <3>2. UNCHANGED <<marker, root, state, database, wal, temp, dirs, outside>> /\ seq' = seq + 1
      BY <1>6 DEF Workspace!StageBackup, Workspace!Fresh
    <3> HIDE DEF r, s
    <3> QED BY <1>0, <2>0, <2>2, <3>1, <3>2
  <2> HIDE DEF r
  <2> QED BY <2>1, <2>3, <2>4, OwnMove DEF Restores
<1>7. ASSUME NEW d \in Dests, NEW v \in Values, Workspace!VerifySource(p, d, Workspace!Digest(v))
      PROVE WorkspaceInv'
  <2> DEFINE sha == Workspace!Digest(v)
             r == [Workspace!Idle EXCEPT !.pc = "lock", !.dest = d, !.sha = sha, !.dirId = dirs[d].id]
  <2>1. sha \in Shas /\ dirs[d].id \in Nat
    BY <1>0 DEF Directories
  <2>2. Workspace!Go(p, r)
    BY <1>7 DEF Workspace!VerifySource
  <2>3. Frame
    <3>1. UNCHANGED <<marker, root, state, database, wal, temp, dirs, staging, seq, outside>>
      BY <1>7 DEF Workspace!VerifySource
    <3> HIDE DEF r
    <3> QED BY <1>0, <3>1
  <2> HIDE DEF sha
  <2>4. r \in Process /\ r.pc = "lock" /\ r.dest = d
    BY <2>1, IdleProcess DEF Process
  <2> HIDE DEF r
  <2> QED BY <2>4, <2>2, <2>3, OwnMove DEF Restores
<1> QED BY <1>2, <1>3, <1>4, <1>5, <1>6, <1>7

\* The steps of backup and restore that look at the database.
LEMMA DatabaseMoves ==
    ASSUME WorkspaceInv, NEW p \in Procs,
           \/ Workspace!CopyDatabase(p) \/ Workspace!LockForRestore(p) \/ Workspace!CheckpointCurrent(p)
           \/ Workspace!CopyIn(p) \/ Workspace!ReplaceDatabase(p)
    PROVE  WorkspaceInv'
<1> USE WorkspaceFacts DEF Workspace!At, Workspace!bounds
<1> DEFINE Others == \A q \in Procs : q # p => proc'[q] = proc[q]
<1>0. /\ seq \in Nat /\ state \in 0..seq /\ outside \in Nat /\ temp \in Files /\ database \in Files
      /\ wal \in Contents /\ proc \in [Procs -> Process]
      /\ dirs \in [Dests -> Directories] /\ staging \in [Procs -> Directories]
      /\ proc[p].pc \in Backups \cup Restores \cup {"lock"} => proc[p].dest \in Dests
  BY DEF WorkspaceInv, WorkspaceTypes
<1>00. proc[p] \in Process
  BY <1>0
<1>1. Workspace!Logical \in Contents
  BY <1>0 DEF Workspace!Logical, Files
<1>2. [database EXCEPT !.v = Workspace!Logical] \in Files
  BY <1>0, <1>1 DEF Files
<1>3. database = Workspace!NoFile => [database EXCEPT !.v = Workspace!Logical] = Workspace!NoFile
  BY DEF WorkspaceInv, NothingOutside, Workspace!Logical, Workspace!NoFile
<1>4. ASSUME NEW r \in Process, Workspace!Go(p, r), r.pc # "init",
             r.pc \in Backups \cup Restores \cup {"lock"} => r.dest \in Dests,
             r.pc \in Restores => r.stateId \in 1..seq /\ r.stateId = proc[p].stateId /\ proc[p].pc \in Restores,
             WritersStopped /\ r.pc \in {"copy_in", "replace"} => wal' = None,
             UNCHANGED <<marker, root, state, dirs, outside>>, seq' \in Nat, seq' >= seq,
             database' \in Files, temp' \in Files, wal' \in {wal, None},
             staging' \in [Procs -> Directories],
             database = Workspace!NoFile =>
                 database' = Workspace!NoFile \/ \A q \in Procs : proc[q].pc = "init" => FALSE,
             state = 0 => database' = Workspace!NoFile,
             database' = Workspace!NoFile => wal' = None
      PROVE  WorkspaceInv'
  <2>1. proc' \in [Procs -> Process] /\ proc'[p] = r /\ Others
    BY <1>4, <1>0 DEF Workspace!Go
  <2>2. WorkspaceTypes'
    BY <1>0, <1>4, <2>1 DEF WorkspaceTypes, WorkspaceInv
  <2>3. NothingOutside'
    BY <1>4 DEF NothingOutside, WorkspaceInv
  <2>4. InitAlone'
    BY <1>4, <2>1 DEF InitAlone, WorkspaceInv
  <2>5. LockedBefore'
    BY <1>0, <1>4, <2>1 DEF LockedBefore, WorkspaceInv
  <2>6. LogFolded'
    BY <1>4, <2>1 DEF LogFolded, WorkspaceInv
  <2> QED BY <2>2, <2>3, <2>4, <2>5, <2>6 DEF WorkspaceInv
<1>5. CASE Workspace!CopyDatabase(p)
  <2> DEFINE l == Workspace!Logical
             r == [proc[p] EXCEPT !.pc = "manifest", !.dbChild = l]
  <2>1. /\ database' = [database EXCEPT !.v = l] /\ wal' = None
        /\ staging' = [staging EXCEPT ![p].db = l] /\ Workspace!Go(p, r)
        /\ UNCHANGED <<marker, root, state, temp, dirs, seq, outside>> /\ proc[p].pc = "copy"
    BY <1>5 DEF Workspace!CopyDatabase
  <2> HIDE DEF l
  <2>2. r \in Process /\ r.pc = "manifest" /\ r.dest = proc[p].dest
    BY <1>00, <1>1 DEF Process, Backups, l
  <2>3. staging' \in [Procs -> Directories]
    BY <1>0, <1>1, <2>1 DEF Directories, l
  <2>4. database' \in Files /\ (database = Workspace!NoFile => database' = Workspace!NoFile)
    BY <1>2, <1>3, <2>1 DEF l
  <2>5. state = 0 => database = Workspace!NoFile
    BY DEF WorkspaceInv, NothingOutside
  <2> HIDE DEF r
  <2> QED BY <1>0, <1>4, <2>1, <2>2, <2>3, <2>4, <2>5 DEF Backups, Restores
<1>6. CASE Workspace!LockForRestore(p)
  <2> DEFINE r == [proc[p] EXCEPT !.pc = "checkpoint", !.stateId = state]
  <2>1. /\ marker /\ state # 0 /\ Workspace!Go(p, r) /\ proc[p].pc = "lock"
        /\ UNCHANGED <<marker, root, state, database, wal, temp, dirs, staging, seq, outside>>
    BY <1>6 DEF Workspace!LockForRestore, Workspace!Owned, Workspace!LockFree
  <2>2. r \in Process /\ r.pc = "checkpoint" /\ r.dest = proc[p].dest /\ r.stateId = state
    <3>1. state \in Nat
      BY <1>0
    <3> QED BY <1>00, <3>1 DEF Process, Restores
  <2> HIDE DEF r
  <2>3. proc' \in [Procs -> Process] /\ proc'[p] = r /\ Others
    BY <1>0, <2>1, <2>2 DEF Workspace!Go
  <2>4. WorkspaceTypes'
    BY <1>0, <2>1, <2>2, <2>3 DEF WorkspaceTypes, WorkspaceInv, Restores, Backups
  <2>5. NothingOutside'
    BY <2>1 DEF NothingOutside, WorkspaceInv
  <2>6. \A q \in Procs : proc'[q].pc # "init"
    BY <2>1, <2>2, <2>3 DEF InitAlone, WorkspaceInv
  <2>7. InitAlone' /\ LockedBefore'
    BY <1>0, <2>1, <2>2, <2>3, <2>6 DEF InitAlone, LockedBefore, WorkspaceInv
  <2>8. LogFolded'
    BY <2>1, <2>2, <2>3 DEF LogFolded, WorkspaceInv
  <2> QED BY <2>4, <2>5, <2>7, <2>8 DEF WorkspaceInv
<1>7. CASE Workspace!CheckpointCurrent(p)
  <2>1. /\ database' = [database EXCEPT !.v = Workspace!Logical] /\ wal' = None
        /\ UNCHANGED <<marker, root, state, temp, dirs, staging, seq, outside>> /\ proc[p].pc = "checkpoint"
    BY <1>7 DEF Workspace!CheckpointCurrent
  <2>2. database' \in Files /\ (database = Workspace!NoFile => database' = Workspace!NoFile)
    BY <1>2, <1>3, <2>1
  <2>3. state = 0 => database = Workspace!NoFile
    BY DEF WorkspaceInv, NothingOutside
  <2>4. proc[p].stateId \in 1..seq
    BY <2>1 DEF WorkspaceInv, LockedBefore, Restores
  <2>5. ASSUME NEW r \in Process, Workspace!Go(p, r), r.pc = "idle" \/ r.pc = "copy_in",
               r.pc = "copy_in" => r.dest = proc[p].dest /\ r.stateId = proc[p].stateId
        PROVE  WorkspaceInv'
    BY <1>0, <1>4, <2>1, <2>2, <2>3, <2>4, <2>5 DEF Backups, Restores
  <2>6. CASE Workspace!Exit(p, "unchanged")
    <3>1. "unchanged" \in Outcomes
      BY DEF Outcomes
    <3> QED BY <2>5, <2>6, <3>1, IdleProcess DEF Workspace!Exit
  <2>7. CASE Workspace!Go(p, [proc[p] EXCEPT !.pc = "copy_in", !.dbId = database.id])
    <3> DEFINE r == [proc[p] EXCEPT !.pc = "copy_in", !.dbId = database.id]
    <3>1. database.id \in Nat
      BY <1>0 DEF Files
    <3>2. r \in Process /\ r.pc = "copy_in" /\ r.dest = proc[p].dest /\ r.stateId = proc[p].stateId
      BY <1>00, <3>1 DEF Process, Restores
    <3>3. Workspace!Go(p, r)
      BY <2>7
    <3> HIDE DEF r
    <3> QED BY <2>5, <3>2, <3>3
  <2> QED BY <1>7, <2>6, <2>7 DEF Workspace!CheckpointCurrent
<1>8. CASE Workspace!CopyIn(p)
  <2> DEFINE r == [proc[p] EXCEPT !.pc = "replace", !.tempId = seq + 1]
             v == dirs[proc[p].dest].db
  <2>1. /\ temp' = Workspace!File(seq + 1, v) /\ seq' = seq + 1 /\ Workspace!Go(p, r)
        /\ UNCHANGED <<marker, root, state, database, wal, dirs, staging, outside>> /\ proc[p].pc = "copy_in"
    BY <1>8 DEF Workspace!CopyIn, Workspace!Fresh
  <2>2. v \in Contents /\ seq + 1 \in Nat
    BY <1>0, <2>1 DEF Restores, Directories
  <2>3. r \in Process /\ r.pc = "replace" /\ r.dest = proc[p].dest /\ r.stateId = proc[p].stateId
    BY <1>00, <2>2 DEF Process, Restores
  <2> HIDE DEF r, v
  <2>4. temp' \in Files
    BY <2>1, <2>2, FreshFile
  <2>5. (WritersStopped => wal = None) /\ proc[p].stateId \in 1..seq
    BY <2>1 DEF WorkspaceInv, LogFolded, LockedBefore, Restores
  <2>6. (state = 0 => database = Workspace!NoFile) /\ (database = Workspace!NoFile => wal = None)
    BY DEF WorkspaceInv, NothingOutside
  <2> QED BY <1>0, <1>4, <2>1, <2>2, <2>3, <2>4, <2>5, <2>6 DEF Backups, Restores
<1>9. CASE Workspace!ReplaceDatabase(p)
  <2> DEFINE r == [proc[p] EXCEPT !.pc = "confirm"]
  <2>1. /\ state = proc[p].stateId /\ database' = temp /\ temp' = Workspace!NoFile /\ Workspace!Go(p, r)
        /\ UNCHANGED <<marker, root, state, wal, dirs, staging, seq, outside>> /\ proc[p].pc = "replace"
    BY <1>9 DEF Workspace!ReplaceDatabase, Workspace!SameState
  <2>2. r \in Process /\ r.pc = "confirm"
    BY <1>00 DEF Process
  <2> HIDE DEF r
  <2>3. temp # Workspace!NoFile
    BY <1>9 DEF Workspace!ReplaceDatabase, Workspace!OwnTemp, Workspace!NoFile
  <2>5. state \in 1..seq /\ \A q \in Procs : proc[q].pc # "init"
    BY <2>1 DEF WorkspaceInv, LogFolded, LockedBefore, Restores
  <2>4. temp' \in Files
    BY <2>1, FreshFile, 0 \in Nat
  <2> QED BY <1>0, <1>4, <2>1, <2>2, <2>3, <2>4, <2>5 DEF Backups, Restores
<1> QED BY <1>5, <1>6, <1>7, <1>8, <1>9

\* Other programs: where writers are stopped, one commits only while no command runs.
LEMMA OutsideMoves ==
    ASSUME WorkspaceInv,
           \/ \E p \in Procs : Workspace!ForeignStaging(p)
           \/ Workspace!LocalWriter \/ Workspace!DamageDatabase
           \/ \E d \in Dests : Workspace!ExchangeBackup(d)
    PROVE  WorkspaceInv'
<1> USE WorkspaceFacts DEF WorkspaceInv, Workspace!Outside
<1>0. /\ seq \in Nat /\ state \in 0..seq /\ outside \in Nat /\ temp \in Files /\ database \in Files
      /\ wal \in Contents /\ proc \in [Procs -> Process]
      /\ dirs \in [Dests -> Directories] /\ staging \in [Procs -> Directories]
  BY DEF WorkspaceTypes
<1>1. ASSUME NEW p \in Procs, Workspace!ForeignStaging(p) PROVE WorkspaceInv'
  <2>1. staging' \in [Procs -> Directories]
    BY <1>0, <1>1 DEF Workspace!ForeignStaging, Directories
  <2> QED BY <1>0, <1>1, <2>1 DEF Workspace!ForeignStaging, WorkspaceTypes, NothingOutside, InitAlone,
          LockedBefore, LogFolded
<1>2. CASE Workspace!LocalWriter
  <2>1. /\ database # Workspace!NoFile /\ (WritersStopped => \A p \in Procs : proc[p].pc = "idle")
        /\ wal' \in Contents /\ outside' \in Nat
        /\ UNCHANGED <<marker, root, state, database, temp, dirs, staging, proc, seq>>
    BY <1>0, <1>2 DEF Workspace!LocalWriter
  <2> QED BY <1>0, <2>1 DEF WorkspaceTypes, NothingOutside, InitAlone, LockedBefore, LogFolded, Restores, Backups
<1>3. CASE Workspace!DamageDatabase
  <2>1. /\ database # Workspace!NoFile /\ (\A p \in Procs : proc[p].pc = "idle") /\ outside' \in Nat
        /\ UNCHANGED <<marker, root, state, wal, temp, dirs, staging, proc, seq>>
    BY <1>0, <1>3 DEF Workspace!DamageDatabase
  <2>2. database' \in Files /\ database' # Workspace!NoFile
    BY <1>0, <1>3 DEF Workspace!DamageDatabase, Files, Workspace!NoFile
  <2>3. WorkspaceTypes'
    <3>1. \A p \in Procs : proc'[p].pc \notin Backups \cup Restores \cup {"lock"}
      BY <2>1 DEF Backups, Restores
    <3> QED BY <1>0, <2>1, <2>2, <3>1 DEF WorkspaceTypes
  <2>4. state # 0
    BY <2>1 DEF NothingOutside
  <2>5. NothingOutside'
    BY <2>1, <2>2, <2>4 DEF NothingOutside
  <2> QED BY <2>1, <2>3, <2>5 DEF InitAlone, LockedBefore, LogFolded, Restores
<1>4. ASSUME NEW d \in Dests, Workspace!ExchangeBackup(d) PROVE WorkspaceInv'
  <2>1. seq' = seq + 1 /\ outside' \in Nat
        /\ UNCHANGED <<marker, root, state, database, wal, temp, staging, proc>>
    BY <1>0, <1>4 DEF Workspace!ExchangeBackup, Workspace!Fresh
  <2>2. PICK v \in Values : \/ dirs' = [dirs EXCEPT ![d].db = v, ![d].owner = None]
                            \/ dirs' = [dirs EXCEPT ![d] = [id |-> seq + 1, db |-> v, sha |-> Workspace!Digest(v),
                                                            owner |-> None]]
    BY <1>4 DEF Workspace!ExchangeBackup, Workspace!Fresh
  <2> DEFINE sha == Workspace!Digest(v)
  <2>3. sha \in Shas /\ v \in Contents /\ seq + 1 \in Nat
    BY <1>0
  <2> HIDE DEF sha
  <2>4. dirs' \in [Dests -> Directories]
    BY <1>0, <2>2, <2>3 DEF Directories, sha
  <2> QED BY <1>0, <2>1, <2>4 DEF WorkspaceTypes, NothingOutside, InitAlone, LockedBefore, LogFolded
<1> QED BY <1>1, <1>2, <1>3, <1>4

LEMMA WorkspaceStep == WorkspaceInv /\ Workspace!Next => WorkspaceInv'
<1> SUFFICES ASSUME WorkspaceInv, Workspace!Next PROVE WorkspaceInv'
  OBVIOUS
<1>1. ASSUME NEW p \in Procs, Workspace!Command(p) PROVE WorkspaceInv'
  BY <1>1, StateMoves, OwnMoves DEF Workspace!Command
<1>2. ASSUME NEW p \in Procs, Workspace!Continue(p) \/ Workspace!Kill(p) PROVE WorkspaceInv'
  BY <1>2, StateMoves, OwnMoves, DatabaseMoves DEF Workspace!Continue
<1>3. CASE \/ \E p \in Procs : Workspace!ForeignStaging(p)
           \/ Workspace!LocalWriter \/ Workspace!DamageDatabase
           \/ \E d \in Dests : Workspace!ExchangeBackup(d)
  BY <1>3, OutsideMoves
<1> QED BY <1>1, <1>2, <1>3 DEF Workspace!Next

LEMMA WorkspaceFrame == WorkspaceInv /\ UNCHANGED workspaceVars => WorkspaceInv'
<1> USE DEF workspaceVars
<1> SUFFICES ASSUME WorkspaceInv, UNCHANGED workspaceVars PROVE WorkspaceInv'
  OBVIOUS
<1> QED BY DEF WorkspaceInv, WorkspaceTypes, NothingOutside, InitAlone, LockedBefore, LogFolded

\* Of the steps of a command, only the publication changes what is at a destination.
LEMMA BackupsStay ==
    ASSUME NEW p, Workspace!Command(p) \/ Workspace!Continue(p) \/ Workspace!Kill(p)
    PROVE  UNCHANGED dirs \/ Workspace!PublishBackup(p)
<1>1. Workspace!Command(p) => UNCHANGED dirs
  BY DEF Workspace!Command, Workspace!PrepareInit, Workspace!InitAgain, Workspace!InitNotOwned,
     Workspace!ResetState, Workspace!StageBackup, Workspace!BackupRefused, Workspace!VerifySource,
     Workspace!SourceRefused
<1>2. Workspace!Kill(p) => UNCHANGED dirs
  BY DEF Workspace!Kill
<1>3. Workspace!CommitInit(p) \/ Workspace!RollbackInit(p) \/ Workspace!ResetMarker(p) \/ Workspace!ResetRaced(p)
        => UNCHANGED dirs
  BY DEF Workspace!CommitInit, Workspace!RollbackInit, Workspace!ResetMarker, Workspace!ResetRaced
<1>4. Workspace!CopyDatabase(p) \/ Workspace!WriteManifest(p) \/ Workspace!CleanupStaging(p) => UNCHANGED dirs
  BY DEF Workspace!CopyDatabase, Workspace!WriteManifest, Workspace!CleanupStaging
<1>5. Workspace!LockForRestore(p) \/ Workspace!CheckpointCurrent(p) \/ Workspace!CopyIn(p) => UNCHANGED dirs
  BY DEF Workspace!LockForRestore, Workspace!CheckpointCurrent, Workspace!CopyIn
<1>6. Workspace!ReplaceDatabase(p) \/ Workspace!ConfirmRestore(p) \/ Workspace!FailRestore(p) => UNCHANGED dirs
  BY DEF Workspace!ReplaceDatabase, Workspace!ConfirmRestore, Workspace!FailRestore
<1> QED BY <1>1, <1>2, <1>3, <1>4, <1>5, <1>6 DEF Workspace!Continue

\* What a step of the workspace does to the database, to its log and to the backups.
LEMMA WorkspaceKeeps ==
    ASSUME WritersStopped, WorkspaceInv, Workspace!Next
    PROVE  /\ Workspace!OnlyVerifiedContentsRestored /\ Workspace!LogIsNeverOrphaned
           /\ Workspace!BackupsAreNotReplaced /\ Workspace!ForeignFilesAreKept
<1> USE WorkspaceFacts DEF Workspace!At, Workspace!bounds, Workspace!Start, Workspace!Go, Workspace!Exit
<1>0. /\ outside \in Nat /\ proc \in [Procs -> Process]
      /\ dirs \in [Dests -> Directories] /\ staging \in [Procs -> Directories]
      /\ database \in Files /\ temp \in Files
      /\ state = 0 => database = Workspace!NoFile
      /\ \A p \in Procs : proc[p].pc = "init" => database = Workspace!NoFile
      /\ \A p \in Procs : proc[p].pc \in {"copy_in", "replace"} => wal = None
  BY DEF WorkspaceInv, WorkspaceTypes, NothingOutside, InitAlone, LogFolded
<1> DEFINE Kept == /\ Workspace!OnlyVerifiedContentsRestored /\ Workspace!LogIsNeverOrphaned
                   /\ Workspace!BackupsAreNotReplaced /\ Workspace!ForeignFilesAreKept
<1>1. Workspace!LogIsNeverOrphaned
  BY <1>0 DEF Workspace!LogIsNeverOrphaned
<1>2. ASSUME NEW p \in Procs, Workspace!Command(p) \/ Workspace!Continue(p) \/ Workspace!Kill(p)
      PROVE  Workspace!BackupsAreNotReplaced
  <2>1. UNCHANGED dirs \/ Workspace!PublishBackup(p)
    BY <1>2, BackupsStay
  <2>2. CASE Workspace!PublishBackup(p)
    <3>1. /\ dirs' = [dirs EXCEPT ![proc[p].dest] = staging[p]]
          /\ dirs[proc[p].dest] = Workspace!Absent /\ Workspace!Absent.owner = None
      BY <2>2 DEF Workspace!PublishBackup, Workspace!publish_directory_no_replace, Workspace!DestinationFree,
         Workspace!Absent
    <3> QED BY <1>0, <3>1 DEF Workspace!BackupsAreNotReplaced
  <2> QED BY <2>1, <2>2 DEF Workspace!BackupsAreNotReplaced
<1>3. ASSUME NEW p \in Procs, Workspace!Command(p) \/ Workspace!Continue(p) \/ Workspace!Kill(p)
      PROVE  Workspace!OnlyVerifiedContentsRestored
  <2>1. CASE UNCHANGED database \/ database' = Workspace!NoFile
    BY <2>1 DEF Workspace!OnlyVerifiedContentsRestored, Workspace!NoFile
  <2>2. CASE database' = [database EXCEPT !.v = Workspace!Logical]
    BY <1>0, <2>2 DEF Workspace!OnlyVerifiedContentsRestored, Files
  <2>3. CASE Workspace!CommitInit(p) \/ (Workspace!InitAgain(p) /\ state = 0)
    BY <1>0, <2>3 DEF Workspace!OnlyVerifiedContentsRestored, Workspace!CommitInit
  <2>4. CASE Workspace!ReplaceDatabase(p)
    BY <2>4 DEF Workspace!OnlyVerifiedContentsRestored, Workspace!ReplaceDatabase
  <2> QED
    BY <1>3, <2>1, <2>2, <2>3, <2>4 DEF Workspace!Command, Workspace!Continue, Workspace!Kill,
       Workspace!PrepareInit, Workspace!InitAgain,
       Workspace!InitNotOwned, Workspace!ResetState, Workspace!StageBackup, Workspace!BackupRefused,
       Workspace!VerifySource, Workspace!SourceRefused, Workspace!RollbackInit,
       Workspace!ResetMarker, Workspace!ResetRaced, Workspace!CopyDatabase, Workspace!WriteManifest,
       Workspace!PublishBackup, Workspace!CleanupStaging, Workspace!LockForRestore,
       Workspace!CheckpointCurrent, Workspace!CopyIn,
       Workspace!ConfirmRestore, Workspace!FailRestore
<1>4. ASSUME NEW p \in Procs, Workspace!Command(p) \/ Workspace!Continue(p) \/ Workspace!Kill(p)
      PROVE  Workspace!ForeignFilesAreKept
  <2>1. ASSUME NEW q \in Procs, staging[q] # Workspace!Absent, staging[q].owner = None, proc[q].pc # "idle"
        PROVE  staging'[q].owner = None /\ staging'[q] # Workspace!Absent
    <3>1. CASE UNCHANGED staging
      BY <2>1, <3>1
    <3>2. CASE Workspace!CopyDatabase(p)
      <4>1. /\ staging' = [staging EXCEPT ![p].db = Workspace!Logical] /\ Workspace!Logical # None
        BY <3>2 DEF Workspace!CopyDatabase, Workspace!Logical
      <4> HIDE DEF Workspace!Logical
      <4> QED BY <1>0, <2>1, <4>1 DEF Workspace!Absent, Directories
    <3>3. CASE Workspace!StagedAsWritten(p) /\ \E s : staging' = [staging EXCEPT ![p] = s]
      BY <1>0, <2>1, <3>3 DEF Workspace!StagedAsWritten
    <3>4. CASE \E d \in Dests : Workspace!StageBackup(p, d)
      BY <1>0, <2>1, <3>4 DEF Workspace!StageBackup
    <3> QED
      BY <1>4, <3>1, <3>2, <3>3, <3>4 DEF Workspace!Command, Workspace!Continue, Workspace!Kill,
         Workspace!PrepareInit, Workspace!InitAgain,
         Workspace!InitNotOwned, Workspace!ResetState, Workspace!BackupRefused,
         Workspace!VerifySource, Workspace!SourceRefused, Workspace!CommitInit, Workspace!RollbackInit,
         Workspace!ResetMarker, Workspace!ResetRaced, Workspace!WriteManifest, Workspace!PublishBackup,
         Workspace!publish_directory_no_replace, Workspace!CleanupStaging, Workspace!LockForRestore,
         Workspace!CheckpointCurrent, Workspace!CopyIn,
         Workspace!ReplaceDatabase, Workspace!ConfirmRestore, Workspace!FailRestore
  <2>2. ASSUME temp # Workspace!NoFile, \A q \in Procs : proc[q].tempId # temp.id
        PROVE  temp' = temp \/ state' = 0
    BY <1>4, <2>2 DEF Workspace!Command, Workspace!Continue, Workspace!Kill,
         Workspace!PrepareInit, Workspace!InitAgain, Workspace!OwnTemp,
         Workspace!InitNotOwned, Workspace!ResetState, Workspace!StageBackup, Workspace!BackupRefused,
         Workspace!VerifySource, Workspace!SourceRefused, Workspace!CommitInit, Workspace!RollbackInit,
         Workspace!ResetMarker, Workspace!ResetRaced, Workspace!CopyDatabase, Workspace!WriteManifest,
         Workspace!PublishBackup, Workspace!CleanupStaging, Workspace!LockForRestore,
         Workspace!CheckpointCurrent, Workspace!CopyIn,
         Workspace!ReplaceDatabase, Workspace!ConfirmRestore, Workspace!FailRestore
  <2> QED BY <2>1, <2>2 DEF Workspace!ForeignFilesAreKept
<1>5. CASE \/ \E p \in Procs : Workspace!ForeignStaging(p)
           \/ Workspace!LocalWriter \/ Workspace!DamageDatabase
           \/ \E d \in Dests : Workspace!ExchangeBackup(d)
  <2>0. UNCHANGED temp /\ outside' # outside
    BY <1>0, <1>5 DEF Workspace!ForeignStaging, Workspace!LocalWriter, Workspace!DamageDatabase,
       Workspace!ExchangeBackup, Workspace!Outside
  <2>1. Workspace!BackupsAreNotReplaced
    BY <2>0 DEF Workspace!BackupsAreNotReplaced
  <2>2. Workspace!OnlyVerifiedContentsRestored
    BY <1>0, <1>5 DEF Workspace!OnlyVerifiedContentsRestored, Workspace!ForeignStaging,
       Workspace!LocalWriter, Workspace!DamageDatabase, Workspace!ExchangeBackup, Files
  <2>3. ASSUME NEW q \in Procs, staging[q] # Workspace!Absent, staging[q].owner = None
        PROVE  staging'[q].owner = None /\ staging'[q] # Workspace!Absent
    <3>1. CASE UNCHANGED staging
      BY <2>3, <3>1
    <3>2. ASSUME NEW p \in Procs, Workspace!ForeignStaging(p) PROVE staging'[q] = staging[q] \/ q = p
      BY <1>0, <3>2 DEF Workspace!ForeignStaging
    <3>3. ASSUME NEW p \in Procs, Workspace!ForeignStaging(p), q = p PROVE staging'[q] = staging[q]
      BY <1>0, <2>3, <3>3 DEF Workspace!ForeignStaging, Directories
    <3> QED BY <1>5, <2>3, <3>1, <3>2, <3>3 DEF Workspace!LocalWriter, Workspace!DamageDatabase,
       Workspace!ExchangeBackup
  <2> QED BY <2>0, <2>1, <2>2, <2>3, <1>1 DEF Workspace!ForeignFilesAreKept
<1> QED BY <1>1, <1>2, <1>3, <1>4, <1>5 DEF Workspace!Next

----------------------------------------------------------------------------
(* The DuckDB store *)

Answers == {Duck!Pending, Duck!Failed} \cup {Duck!Ok(i, n) : i \in Ids, n \in Nat}
Stages == {"none", "decide", "incident", "associate", "audit", "idempotency", "commit"}

DuckTypes ==
    /\ db \in Duck!Tables /\ work \in Duck!Tables /\ target \in Ids
    /\ call \in [Callers -> StoreRequests]
    /\ answerDuck \in [Callers -> Answers]
    /\ lockDuck \in Callers \cup {Nobody} /\ stage \in Stages

\* What Agree says of one incident, and of the idempotency rows.
AuditedTo(t, i, n) == { a.rev : a \in { b \in t.audit : b.id = i } } = n
IncidentAgrees(t, i) ==
    IF t.rows[i].exists
    THEN /\ AuditedTo(t, i, 0..t.rows[i].rev)
         /\ Duck!Written(t, i) => Duck!Tracked(t, i)
    ELSE \A a \in t.audit : a.id # i
RepliesAgree(t) ==
    /\ \A r \in t.idem : r.scope = Duck!Scope(r.request) /\ t.rows[r.id].exists /\ r.rev <= t.rows[r.id].rev
    /\ \A r, s \in t.idem : r.scope = s.scope => r = s

\* What EventsHaveOneIncident says of one pair of unsettled incidents.
LateShare(t, i, j) == t.rows[i].rev > 0 /\ Duck!Tracked(t, i) /\ ~Duck!Tracked(t, j)
SharesLate(t, i, j) ==
    t.rows[i].srcs \cap t.rows[j].srcs # {} => LateShare(t, i, j) \/ LateShare(t, j, i)
Different(t, i, j) == i # j /\ t.rows[i].exists /\ t.rows[j].exists
                      /\ ~t.rows[i].settled /\ ~t.rows[j].settled

\* Tables as they are between two transactions.
Sound(t) ==
    /\ \A i \in Ids : IncidentAgrees(t, i)
    /\ RepliesAgree(t)
    /\ Duck!KeysApart(t)
    /\ \A i, j \in Ids : Different(t, i, j) => SharesLate(t, i, j)
    /\ t.version = "1.1" => Duck!Migratable(t)

\* Tables in which incident x was written, but not yet associated and audited, or
\* associated, but not yet audited.
Drafted(t, x) ==
    /\ \A i \in Ids \ {x} : IncidentAgrees(t, i)
    /\ t.rows[x].exists /\ AuditedTo(t, x, {n \in Nat : n < t.rows[x].rev})
    /\ RepliesAgree(t)
    /\ Duck!KeysApart(t) /\ Duck!Migratable(t)
Unassociated(t, x) ==
    \A i, j \in Ids : Different(t, i, j) =>
        IF x \in {i, j} THEN t.rows[x].rev > 0 \/ t.rows[i].srcs \cap t.rows[j].srcs = {}
        ELSE SharesLate(t, i, j)
Associated(t, x) ==
    /\ Duck!Tracked(t, x)
    /\ \A i, j \in Ids : Different(t, i, j) => SharesLate(t, i, j)

\* The transaction of caller c and its request q: nothing of the committed tables is
\* lost, the request was not answered before, and its incident is in the state that
\* the statement executed next expects.
Correlates(q) == q.op = "create_or_correlate" /\ db.rows[target].exists
Expects(q) ==
    CASE stage = "decide" -> work = db
      [] stage = "incident" ->
           /\ work = db /\ target = q.id
           /\ IF q.op = "transition"
              THEN /\ db.rows[target].exists
                   /\ (db.rows[target].settled /\ ~q.settled)
                        => Duck!ActiveMatches(db.rows[target].corr, {}, {target}) = {}
              ELSE ~db.rows[target].exists /\ Duck!ActiveMatches(q.corr, q.srcs, {}) = {}
      [] stage = "associate" ->
           IF Correlates(q) THEN work = db
           ELSE /\ Drafted(work, target) /\ Unassociated(work, target)
                /\ q.op # "transition" => work.rows[target].srcs = q.srcs
      [] stage = "audit" -> ~Correlates(q) /\ Drafted(work, target) /\ Associated(work, target)
      [] stage = "idempotency" -> Sound(work) /\ (Correlates(q) \/ Duck!Tracked(work, target))
                                  /\ work.rows[target].exists
      [] stage = "commit" ->
           /\ Sound(work) /\ work.rows[target].exists
           /\ \E r \in work.idem : r.scope = Duck!Scope(q) /\ r.request = q /\ r.id = target
                                   /\ r.rev = work.rows[target].rev
Grown ==
    /\ work.version = db.version /\ db.idem \subseteq work.idem
    /\ \A i \in Ids : db.rows[i].exists => work.rows[i].exists /\ work.rows[i].rev >= db.rows[i].rev
InTransaction(c) ==
    /\ open /\ answerDuck[c] = Duck!Pending /\ call[c].op # "get" /\ call[c].safe
    /\ Grown /\ Expects(call[c])
    /\ stage \notin {"decide", "commit"} => \A r \in work.idem : r.scope # Duck!Scope(call[c])

\* A caller that was told a revision can find it, and the answer to its write is kept.
Told(c) ==
    \A i \in Ids, n \in Nat : answerDuck[c] = Duck!Ok(i, n) =>
        /\ db.rows[i].exists /\ n <= db.rows[i].rev
        /\ call[c].op # "get" =>
             \E r \in db.idem : r.scope = Duck!Scope(call[c]) /\ r.id = i /\ r.rev = n

DuckInv ==
    /\ DuckTypes /\ Sound(db)
    /\ open => db.version = "1.1"
    /\ stage = "none" <=> lockDuck = Nobody
    /\ \A c \in Callers : lockDuck = c => InTransaction(c)
    /\ \A c \in Callers : Told(c)

\* What the tables hold.
IncidentRow == [exists : BOOLEAN, settled : BOOLEAN, rev : Nat, corr : Keys \cup {NoCorrelation},
                srcs : SUBSET Sources]
Association == [id : Ids, src : Sources, complete : BOOLEAN]
AuditRow == [id : Ids, rev : Nat]
ReplyRow == [scope : {Duck!Scope(q) : q \in StoreRequests}, request : StoreRequests, id : Ids, rev : Nat]

LEMMA TableFields ==
    ASSUME NEW t \in Duck!Tables
    PROVE  /\ t.version \in {"none", "1.0", "1.1"}
           /\ t.rows \in [Ids -> IncidentRow]
           /\ t.assoc \subseteq Association /\ t.audit \subseteq AuditRow /\ t.idem \subseteq ReplyRow
           /\ \A i \in Ids : /\ t.rows[i] \in IncidentRow /\ t.rows[i].rev \in Nat
                             /\ t.rows[i].srcs \subseteq Sources
           /\ \A a \in t.assoc : a.id \in Ids /\ a.src \in Sources
           /\ \A a \in t.audit : a.id \in Ids /\ a.rev \in Nat
           /\ \A r \in t.idem : r.id \in Ids /\ r.rev \in Nat /\ r.request \in StoreRequests
BY DEF Duck!Tables, IncidentRow, Association, AuditRow, ReplyRow

LEMMA DuckFacts ==
    /\ Nobody \notin Callers
    /\ \A q \in StoreRequests : /\ q.op \in {"create", "create_or_correlate", "transition", "get"}
                                /\ q.id \in Ids /\ q.corr \in Keys \cup {NoCorrelation}
                                /\ q.srcs \subseteq Sources /\ q.settled \in BOOLEAN
    /\ \A t \in Stores : /\ t \in Duck!Tables /\ Duck!Agree(t) /\ Duck!KeysApart(t) /\ Duck!EventsApart(t)
                         /\ t.version = "1.1" => Duck!Migratable(t)
BY DuckConstants DEF Duck!DuckDbAssumption

\* Pairs of unsettled incidents, and rows of an incident, written out.
LEMMA KeysMeans ==
    ASSUME NEW t
    PROVE  Duck!KeysApart(t) <=>
             \A i, j \in Ids : Different(t, i, j) =>
                 t.rows[i].corr = NoCorrelation \/ t.rows[i].corr # t.rows[j].corr
<1>1. \A i, j \in Ids : Different(t, i, j) <=> <<i, j>> \in Duck!Pairs(t)
  BY DEF Duck!Pairs, Duck!Unsettled, Different
<1>2. \A p \in Duck!Pairs(t) : p = <<p[1], p[2]>> /\ p[1] \in Ids /\ p[2] \in Ids
  BY DEF Duck!Pairs, Duck!Unsettled
<1>3. ASSUME Duck!KeysApart(t), NEW i \in Ids, NEW j \in Ids, Different(t, i, j)
      PROVE  t.rows[i].corr = NoCorrelation \/ t.rows[i].corr # t.rows[j].corr
  <2>1. <<i, j>> \in Duck!Pairs(t) /\ <<i, j>>[1] = i /\ <<i, j>>[2] = j
    BY <1>1, <1>3
  <2> QED BY <1>3, <2>1 DEF Duck!KeysApart
<1>4. ASSUME \A i, j \in Ids : Different(t, i, j) =>
                 t.rows[i].corr = NoCorrelation \/ t.rows[i].corr # t.rows[j].corr,
             NEW p \in Duck!Pairs(t)
      PROVE  t.rows[p[1]].corr = NoCorrelation \/ t.rows[p[1]].corr # t.rows[p[2]].corr
  <2>1. p[1] \in Ids /\ p[2] \in Ids /\ Different(t, p[1], p[2])
    BY <1>1, <1>2
  <2> QED BY <1>4, <2>1
<1> QED BY <1>3, <1>4 DEF Duck!KeysApart

LEMMA AssociatedMeans ==
    ASSUME NEW t, NEW i, NEW s
    PROVE  s \in Duck!AssociatedIn(t, i) <=> \E a \in t.assoc : a.id = i /\ a.src = s
BY DEF Duck!AssociatedIn

\* An event has one owner: two incidents whose payloads are associated share none.
LEMMA TrackedApart ==
    ASSUME NEW t, Duck!Migratable(t), NEW i \in Ids, NEW j \in Ids, i # j,
           Duck!Tracked(t, i), Duck!Tracked(t, j)
    PROVE  t.rows[i].srcs \cap t.rows[j].srcs = {}
BY AssociatedMeans DEF Duck!Migratable, Duck!Tracked

\* The first statement of a create or of a transition.
LEMMA Drafting ==
    ASSUME NEW t \in Duck!Tables, NEW u \in Duck!Tables, NEW x \in Ids,
           Sound(t), Duck!Migratable(t),
           u.assoc = t.assoc, u.audit = t.audit, u.idem = t.idem,
           \A i \in Ids \ {x} : u.rows[i] = t.rows[i],
           u.rows[x].exists,
           \/ /\ ~t.rows[x].exists /\ u.rows[x].rev = 0
              /\ \A i \in Ids \ {x} : (t.rows[i].exists /\ ~t.rows[i].settled) =>
                   /\ u.rows[x].corr = NoCorrelation \/ u.rows[x].corr # t.rows[i].corr
                   /\ u.rows[x].srcs \cap t.rows[i].srcs = {}
           \/ /\ t.rows[x].exists /\ u.rows[x].rev = t.rows[x].rev + 1 /\ u.rows[x].corr = t.rows[x].corr
              /\ (t.rows[x].settled /\ ~u.rows[x].settled) =>
                   \A i \in Ids \ {x} : (t.rows[i].exists /\ ~t.rows[i].settled) =>
                      u.rows[x].corr = NoCorrelation \/ u.rows[x].corr # t.rows[i].corr
    PROVE  Drafted(u, x) /\ Unassociated(u, x)
<1>0. t.rows[x].rev \in Nat /\ u.rows[x].rev \in Nat
  BY TableFields
<1>1. \A i \in Ids \ {x} : IncidentAgrees(u, i)
  BY DEF Sound, IncidentAgrees, AuditedTo, Duck!Written, Duck!Tracked, Duck!AssociatedIn
<1>2. AuditedTo(u, x, {n \in Nat : n < u.rows[x].rev})
  <2>1. CASE ~t.rows[x].exists /\ u.rows[x].rev = 0
    <3>1. \A a \in u.audit : a.id # x
      BY <2>1 DEF Sound, IncidentAgrees
    <3> QED BY <2>1, <3>1 DEF AuditedTo
  <2>2. CASE t.rows[x].exists /\ u.rows[x].rev = t.rows[x].rev + 1
    <3>1. AuditedTo(u, x, 0..t.rows[x].rev)
      BY <2>2 DEF Sound, IncidentAgrees, AuditedTo
    <3>2. 0..t.rows[x].rev = {n \in Nat : n < u.rows[x].rev}
      BY <1>0, <2>2
    <3> QED BY <3>1, <3>2
  <2> QED BY <2>1, <2>2
<1>3. RepliesAgree(u)
  <2>1. \A i \in Ids : t.rows[i].exists => u.rows[i].exists /\ u.rows[i].rev >= t.rows[i].rev
    BY <1>0, TableFields
  <2>2. \A i \in Ids : t.rows[i].rev \in Nat /\ u.rows[i].rev \in Nat
    BY TableFields
  <2> QED BY <2>1, <2>2, TableFields DEF Sound, RepliesAgree
<1>4. Duck!KeysApart(u)
  <2> SUFFICES ASSUME NEW i \in Ids, NEW j \in Ids, Different(u, i, j)
               PROVE  u.rows[i].corr = NoCorrelation \/ u.rows[i].corr # u.rows[j].corr
    BY KeysMeans
  <2>1. \A k, l \in Ids : Different(t, k, l) => t.rows[k].corr = NoCorrelation \/ t.rows[k].corr # t.rows[l].corr
    BY KeysMeans DEF Sound
  <2>2. CASE i # x /\ j # x
    BY <2>1, <2>2 DEF Different
  <2>3. CASE i = x
    BY <2>1, <2>3 DEF Different
  <2>4. CASE j = x
    BY <2>1, <2>4 DEF Different
  <2> QED BY <2>2, <2>3, <2>4
<1>5. Duck!Migratable(u)
  BY DEF Duck!Migratable
<1>6. Unassociated(u, x)
  <2> SUFFICES ASSUME NEW i \in Ids, NEW j \in Ids, Different(u, i, j)
               PROVE  IF x \in {i, j} THEN u.rows[x].rev > 0 \/ u.rows[i].srcs \cap u.rows[j].srcs = {}
                      ELSE SharesLate(u, i, j)
    BY DEF Unassociated
  <2>1. CASE i # x /\ j # x
    <3>1. Different(t, i, j) /\ SharesLate(t, i, j)
      BY <2>1 DEF Different, Sound
    <3> QED BY <2>1, <3>1 DEF SharesLate, LateShare, Duck!Tracked, Duck!AssociatedIn
  <2>2. CASE i = x \/ j = x
    BY <1>0, <2>2 DEF Different
  <2> QED BY <2>1, <2>2
<1> QED BY <1>1, <1>2, <1>3, <1>4, <1>5, <1>6 DEF Drafted

\* The association rows of incident x gain the events S, which nobody else owns.
Gained(t, x, S) ==
    t.assoc \cup {[id |-> x, src |-> s, complete |-> TRUE] : s \in S \ Duck!AssociatedIn(t, x)}

LEMMA Gains ==
    ASSUME NEW t \in Duck!Tables, NEW u, NEW x \in Ids, NEW S \in SUBSET Sources, Duck!Migratable(t),
           u.rows = t.rows,
           u.assoc = Gained(t, x, S),
           \A s \in S : \A a \in t.assoc : a.src = s => a.id = x
    PROVE  /\ Duck!Migratable(u)
           /\ \A s \in Sources : \A i \in Ids :
                s \in Duck!AssociatedIn(u, i) <=> (s \in Duck!AssociatedIn(t, i) \/ (i = x /\ s \in S))
           /\ \A i \in Ids : Duck!Tracked(t, i) => Duck!Tracked(u, i)
           /\ \A i \in Ids \ {x} : Duck!Tracked(u, i) <=> Duck!Tracked(t, i)
           /\ t.rows[x].srcs \subseteq S => Duck!Tracked(u, x)
<1>1. Duck!Migratable(u)
  <2>1. \A a \in u.assoc : a \in t.assoc \/ (a.id = x /\ a.src \in S /\ a.complete)
    BY DEF Gained
  <2> QED BY <2>1 DEF Duck!Migratable
<1>2. ASSUME NEW s \in Sources, NEW i \in Ids
      PROVE  s \in Duck!AssociatedIn(u, i) <=> (s \in Duck!AssociatedIn(t, i) \/ (i = x /\ s \in S))
  <2>1. ASSUME s \in Duck!AssociatedIn(u, i) PROVE s \in Duck!AssociatedIn(t, i) \/ (i = x /\ s \in S)
    <3>1. PICK a \in u.assoc : a.id = i /\ a.src = s
      BY <2>1, AssociatedMeans
    <3>2. a \in t.assoc \/ (a.id = x /\ a.src \in S)
      BY DEF Gained
    <3> QED BY <3>1, <3>2, AssociatedMeans
  <2>2. ASSUME s \in Duck!AssociatedIn(t, i) PROVE s \in Duck!AssociatedIn(u, i)
    BY <2>2, AssociatedMeans DEF Gained
  <2>3. ASSUME i = x, s \in S, s \notin Duck!AssociatedIn(t, i) PROVE s \in Duck!AssociatedIn(u, i)
    <3>1. [id |-> x, src |-> s, complete |-> TRUE] \in u.assoc
      BY <2>3 DEF Gained
    <3> QED BY <2>3, <3>1, AssociatedMeans
  <2> QED BY <2>1, <2>2, <2>3
<1>3. \A i \in Ids : t.rows[i].srcs \subseteq Sources
  BY TableFields
<1> QED BY <1>1, <1>2, <1>3 DEF Duck!Tracked

LEMMA Associating ==
    ASSUME NEW t \in Duck!Tables, NEW u \in Duck!Tables, NEW x \in Ids, NEW S \in SUBSET Sources,
           Drafted(t, x), Unassociated(t, x), t.rows[x].srcs \subseteq S,
           u.rows = t.rows, u.audit = t.audit, u.idem = t.idem,
           u.assoc = Gained(t, x, S),
           \A s \in S : \A a \in t.assoc : a.src = s => a.id = x
    PROVE  Drafted(u, x) /\ Associated(u, x)
<1>1. /\ Duck!Migratable(u) /\ Duck!Tracked(u, x)
      /\ \A i \in Ids : Duck!Tracked(t, i) => Duck!Tracked(u, i)
      /\ \A i \in Ids \ {x} : Duck!Tracked(u, i) <=> Duck!Tracked(t, i)
  BY Gains DEF Drafted
<1>2. Drafted(u, x)
  <2>1. \A i \in Ids \ {x} : IncidentAgrees(u, i)
    BY <1>1 DEF Drafted, IncidentAgrees, AuditedTo, Duck!Written
  <2>2. RepliesAgree(u) /\ Duck!KeysApart(u)
    BY KeysMeans DEF Drafted, RepliesAgree, Different
  <2> QED BY <1>1, <2>1, <2>2 DEF Drafted, AuditedTo
<1>3. ASSUME NEW i \in Ids, NEW j \in Ids, Different(u, i, j) PROVE SharesLate(u, i, j)
  <2>0. Different(t, i, j) /\ i # j
    BY <1>3 DEF Different
  <2>1. CASE i # x /\ j # x
    BY <1>1, <2>0, <2>1 DEF Unassociated, SharesLate, LateShare
  <2>2. CASE i = x \/ j = x
    <3> SUFFICES ASSUME u.rows[i].srcs \cap u.rows[j].srcs # {} PROVE LateShare(u, i, j) \/ LateShare(u, j, i)
      BY DEF SharesLate
    <3>1. u.rows[x].rev > 0
      BY <2>0, <2>2 DEF Unassociated
    <3>2. ~(Duck!Tracked(u, i) /\ Duck!Tracked(u, j))
      BY <1>1, <2>0, TrackedApart
    <3> QED BY <1>1, <2>2, <3>1, <3>2 DEF LateShare
  <2> QED BY <2>1, <2>2
<1> QED BY <1>1, <1>2, <1>3 DEF Associated

\* create_or_correlate with an unsettled match: the match gains events.
LEMMA Correlating ==
    ASSUME NEW t \in Duck!Tables, NEW u \in Duck!Tables, NEW x \in Ids, NEW S \in SUBSET Sources,
           Sound(t), Duck!Migratable(t),
           u.rows = t.rows, u.audit = t.audit, u.idem = t.idem,
           u.assoc = Gained(t, x, S),
           \A s \in S : \A a \in t.assoc : a.src = s => a.id = x
    PROVE  Sound(u)
<1>1. /\ Duck!Migratable(u)
      /\ \A i \in Ids : Duck!Tracked(t, i) => Duck!Tracked(u, i)
  BY Gains
<1>2. \A i \in Ids : IncidentAgrees(u, i)
  BY <1>1 DEF Sound, IncidentAgrees, AuditedTo, Duck!Written
<1>3. RepliesAgree(u) /\ Duck!KeysApart(u)
  BY KeysMeans DEF Sound, RepliesAgree, Different
<1>4. ASSUME NEW i \in Ids, NEW j \in Ids, Different(u, i, j) PROVE SharesLate(u, i, j)
  <2>0. Different(t, i, j) /\ i # j
    BY <1>4 DEF Different
  <2> SUFFICES ASSUME u.rows[i].srcs \cap u.rows[j].srcs # {} PROVE LateShare(u, i, j) \/ LateShare(u, j, i)
    BY DEF SharesLate
  <2>1. LateShare(t, i, j) \/ LateShare(t, j, i)
    BY <2>0 DEF Sound, SharesLate
  <2>2. ~(Duck!Tracked(u, i) /\ Duck!Tracked(u, j))
    BY <1>1, <2>0, TrackedApart
  <2> QED BY <1>1, <2>1, <2>2 DEF LateShare
<1> QED BY <1>1, <1>2, <1>3, <1>4 DEF Sound

\* The audit row of the written incident.
LEMMA Auditing ==
    ASSUME NEW t \in Duck!Tables, NEW u \in Duck!Tables, NEW x \in Ids,
           Drafted(t, x), Associated(t, x),
           u.rows = t.rows, u.assoc = t.assoc, u.idem = t.idem,
           u.audit = t.audit \cup {[id |-> x, rev |-> t.rows[x].rev]}
    PROVE  Sound(u) /\ Duck!Tracked(u, x)
<1> DEFINE w == [id |-> x, rev |-> t.rows[x].rev]
<1>a. w.id = x /\ w.rev = t.rows[x].rev /\ u.audit = t.audit \cup {w}
  OBVIOUS
<1> HIDE DEF w
<1>0. t.rows[x].rev \in Nat
  BY TableFields
<1>1. ASSUME NEW i \in Ids PROVE Duck!Tracked(u, i) <=> Duck!Tracked(t, i)
  BY DEF Duck!Tracked, Duck!AssociatedIn
<1>2. ASSUME NEW i \in Ids PROVE IncidentAgrees(u, i)
  <2>1. CASE i # x
    <3>1. {b \in u.audit : b.id = i} = {b \in t.audit : b.id = i}
      BY <1>a, <2>1
    <3>2. (\A a \in u.audit : a.id # i) <=> \A a \in t.audit : a.id # i
      BY <1>a, <2>1
    <3> QED BY <1>1, <2>1, <3>1, <3>2 DEF Drafted, IncidentAgrees, AuditedTo, Duck!Written
  <2>2. CASE i = x
    <3>1. {a.rev : a \in {b \in u.audit : b.id = x}} = {a.rev : a \in {b \in t.audit : b.id = x}} \cup {t.rows[x].rev}
      <4>1. {b \in u.audit : b.id = x} = {b \in t.audit : b.id = x} \cup {w}
        BY <1>a
      <4> QED BY <1>a, <4>1
    <3>2. {n \in Nat : n < t.rows[x].rev} \cup {t.rows[x].rev} = 0..t.rows[x].rev
      BY <1>0
    <3> QED BY <1>1, <2>2, <3>1, <3>2 DEF Drafted, Associated, IncidentAgrees, AuditedTo
  <2> QED BY <2>1, <2>2
<1>3. RepliesAgree(u) /\ Duck!KeysApart(u) /\ Duck!Migratable(u)
  BY KeysMeans DEF Drafted, RepliesAgree, Different, Duck!Migratable
<1>4. \A i, j \in Ids : Different(u, i, j) => SharesLate(u, i, j)
  BY <1>1 DEF Associated, Different, SharesLate, LateShare
<1> QED BY <1>1, <1>2, <1>3, <1>4 DEF Sound, Associated

\* The idempotency row of a request that was not answered before.
LEMMA Recording ==
    ASSUME NEW t \in Duck!Tables, NEW u \in Duck!Tables, NEW x \in Ids, NEW q \in StoreRequests,
           Sound(t), t.rows[x].exists, u.version = t.version,
           q.op = "create_or_correlate" \/ Duck!Tracked(t, x),
           \A r \in t.idem : r.scope # Duck!Scope(q),
           u.rows = t.rows, u.assoc = t.assoc, u.audit = t.audit,
           u.idem = t.idem \cup {[scope |-> Duck!Scope(q), request |-> q, id |-> x, rev |-> t.rows[x].rev]}
    PROVE  Sound(u)
<1> DEFINE w == [scope |-> Duck!Scope(q), request |-> q, id |-> x, rev |-> t.rows[x].rev]
<1>0. t.rows[x].rev \in Nat
  BY TableFields
<1>1. ASSUME NEW i \in Ids PROVE Duck!Tracked(u, i) <=> Duck!Tracked(t, i)
  BY DEF Duck!Tracked, Duck!AssociatedIn
<1>2. w.id = x /\ w.request = q /\ w.scope = Duck!Scope(q) /\ w.rev = t.rows[x].rev
  OBVIOUS
<1>3. u.idem = t.idem \cup {w}
  OBVIOUS
<1> HIDE DEF w
<1>4. ASSUME NEW i \in Ids PROVE IncidentAgrees(u, i)
  <2>1. Duck!Written(u, i) => Duck!Written(t, i) \/ (i = x /\ q.op # "create_or_correlate")
    BY <1>2, <1>3 DEF Duck!Written
  <2>2. IncidentAgrees(t, i)
    BY DEF Sound
  <2> QED BY <1>1, <2>1, <2>2 DEF IncidentAgrees, AuditedTo
<1>5. RepliesAgree(u)
  <2>1. \A r \in u.idem : r.scope = Duck!Scope(r.request) /\ u.rows[r.id].exists /\ r.rev <= u.rows[r.id].rev
    BY <1>0, <1>2, <1>3 DEF Sound, RepliesAgree
  <2>2. \A r, s \in u.idem : r.scope = s.scope => r = s
    BY <1>2, <1>3 DEF Sound, RepliesAgree
  <2> QED BY <2>1, <2>2 DEF RepliesAgree
<1>6. Duck!KeysApart(u) /\ (u.version = "1.1" => Duck!Migratable(u))
  BY KeysMeans DEF Sound, Different, Duck!Migratable
<1>7. \A i, j \in Ids : Different(u, i, j) => SharesLate(u, i, j)
  BY <1>1 DEF Sound, Different, SharesLate, LateShare
<1> QED BY <1>4, <1>5, <1>6, <1>7 DEF Sound

\* The answers can be told apart, and an answer names its incident and revision.
LEMMA AnswersDiffer ==
    ASSUME NEW i, NEW n
    PROVE  /\ Duck!Ok(i, n) # Duck!Pending /\ Duck!Ok(i, n) # Duck!Failed /\ Duck!Failed # Duck!Pending
           /\ Duck!Ok(i, n).kind = "ok" /\ Duck!Ok(i, n).id = i /\ Duck!Ok(i, n).rev = n
           /\ Duck!Pending.kind # "ok" /\ Duck!Failed.kind # "ok"
BY DEF Duck!Ok, Duck!Pending, Duck!Failed

\* What a caller was told stays true while rows and answers are only added.
LEMMA StillTold ==
    ASSUME DuckInv, NEW c \in Callers, answerDuck'[c] = answerDuck[c], call'[c] = call[c],
           db.idem \subseteq db'.idem, db' \in Duck!Tables,
           \A i \in Ids : db.rows[i].exists => db'.rows[i].exists /\ db'.rows[i].rev >= db.rows[i].rev
    PROVE  Told(c)'
<1>1. \A i \in Ids : db.rows[i].rev \in Nat /\ db'.rows[i].rev \in Nat
  BY TableFields DEF DuckInv, DuckTypes
<1> SUFFICES ASSUME NEW i \in Ids, NEW n \in Nat, answerDuck'[c] = Duck!Ok(i, n)
             PROVE  /\ db'.rows[i].exists /\ n <= db'.rows[i].rev
                    /\ call'[c].op # "get" =>
                         \E r \in db'.idem : r.scope = Duck!Scope(call'[c]) /\ r.id = i /\ r.rev = n
  BY DEF Told
<1>2. /\ db.rows[i].exists /\ n <= db.rows[i].rev
      /\ call[c].op # "get" => \E r \in db.idem : r.scope = Duck!Scope(call[c]) /\ r.id = i /\ r.rev = n
  <2>1. answerDuck[c] = Duck!Ok(i, n) /\ Told(c)
    BY DEF DuckInv
  <2> QED BY <2>1 DEF Told
<1> QED BY <1>1, <1>2

LEMMA NothingTold ==
    ASSUME NEW c \in Callers, answerDuck'[c] \in {Duck!Pending, Duck!Failed}
    PROVE  Told(c)'
BY AnswersDiffer DEF Told

\* Tables with one of them replaced.
Inserted(t, x, r) == [t EXCEPT !.rows[x] = r]

LEMMA WithRow ==
    ASSUME NEW t \in Duck!Tables, NEW x \in Ids, NEW r \in IncidentRow, NEW u, u = Inserted(t, x, r)
    PROVE  /\ u \in Duck!Tables /\ u.rows[x] = r /\ \A i \in Ids \ {x} : u.rows[i] = t.rows[i]
           /\ u.version = t.version /\ u.assoc = t.assoc /\ u.audit = t.audit /\ u.idem = t.idem
<1>1. /\ u.version = t.version /\ u.assoc = t.assoc /\ u.audit = t.audit /\ u.idem = t.idem
      /\ u.telemetry = t.telemetry /\ u.rows = [t.rows EXCEPT ![x] = r]
  BY DEF Duck!Tables, Inserted
<1>2. u.rows \in [Ids -> IncidentRow] /\ u.rows[x] = r /\ \A i \in Ids \ {x} : u.rows[i] = t.rows[i]
  BY <1>1, TableFields
<1>3. u = [version |-> u.version, rows |-> u.rows, assoc |-> u.assoc, audit |-> u.audit,
           idem |-> u.idem, telemetry |-> u.telemetry]
  BY DEF Duck!Tables, Inserted
<1> QED BY <1>1, <1>2, <1>3 DEF Duck!Tables, IncidentRow

LEMMA WithAssociations ==
    ASSUME NEW t \in Duck!Tables, NEW A \in SUBSET Association, NEW u, u = [t EXCEPT !.assoc = @ \cup A]
    PROVE  /\ u \in Duck!Tables /\ u.assoc = t.assoc \cup A
           /\ u.version = t.version /\ u.rows = t.rows /\ u.audit = t.audit /\ u.idem = t.idem
BY DEF Duck!Tables, Association

LEMMA WithAudit ==
    ASSUME NEW t \in Duck!Tables, NEW a \in AuditRow, NEW u, u = [t EXCEPT !.audit = @ \cup {a}]
    PROVE  /\ u \in Duck!Tables /\ u.audit = t.audit \cup {a}
           /\ u.version = t.version /\ u.rows = t.rows /\ u.assoc = t.assoc /\ u.idem = t.idem
BY DEF Duck!Tables, AuditRow

LEMMA WithReply ==
    ASSUME NEW t \in Duck!Tables, NEW r \in ReplyRow, NEW u, u = [t EXCEPT !.idem = @ \cup {r}]
    PROVE  /\ u \in Duck!Tables /\ u.idem = t.idem \cup {r}
           /\ u.version = t.version /\ u.rows = t.rows /\ u.assoc = t.assoc /\ u.audit = t.audit
BY DEF Duck!Tables, ReplyRow

\* A store on disk is sound: none of its incidents shares an event.
LEMMA DuckInitially == Duck!Init => DuckInv
<1> SUFFICES ASSUME Duck!Init PROVE DuckInv
  OBVIOUS
<1>1. db \in Duck!Tables /\ Duck!Agree(db) /\ Duck!KeysApart(db) /\ Duck!EventsApart(db)
      /\ (db.version = "1.1" => Duck!Migratable(db))
  BY DuckFacts DEF Duck!Init
<1>2. DuckTypes
  BY <1>1 DEF Duck!Init, DuckTypes, Answers, Stages
<1>3. Sound(db)
  <2>1. RepliesAgree(db) /\ \A i \in Ids : IncidentAgrees(db, i)
    BY <1>1 DEF Duck!Agree, RepliesAgree, IncidentAgrees, AuditedTo
  <2>2. \A i, j \in Ids : Different(db, i, j) => SharesLate(db, i, j)
    <3> SUFFICES ASSUME NEW i \in Ids, NEW j \in Ids, Different(db, i, j) PROVE SharesLate(db, i, j)
      OBVIOUS
    <3>1. <<i, j>> \in Duck!Pairs(db)
      BY DEF Different, Duck!Pairs, Duck!Unsettled
    <3> QED BY <1>1, <3>1 DEF Duck!EventsApart, Duck!Shared, SharesLate
  <2> QED BY <1>1, <2>1, <2>2 DEF Sound
<1>4. lockDuck = Nobody /\ stage = "none" /\ ~open
  BY DEF Duck!Init
<1>5. \A c \in Callers : Told(c)
  BY AnswersDiffer DEF Duck!Init, Told
<1> QED BY <1>1, <1>2, <1>3, <1>4, <1>5, DuckFacts DEF DuckInv

\* Opening, migrating, initializing or resetting the store, and a crash.
LEMMA SchemaStep ==
    ASSUME DuckInv, Duck!OpenEnsuring \/ Duck!OpenValidating \/ Duck!InitializeDatabase
    PROVE  DuckInv'
<1>1. /\ lockDuck = Nobody /\ lockDuck' = Nobody /\ stage' = stage /\ UNCHANGED <<call, answerDuck, target>>
      /\ db.version \in {"none", "1.0", "1.1"} /\ db \in Duck!Tables
  BY TableFields DEF Duck!OpenEnsuring, Duck!OpenValidating, Duck!InitializeDatabase, DuckInv, DuckTypes
<1>2. /\ db' \in Duck!Tables /\ work' \in Duck!Tables
      /\ db'.rows = db.rows /\ db'.assoc = db.assoc /\ db'.audit = db.audit /\ db'.idem = db.idem
      /\ db'.version = "1.1"
      /\ (db.version = "1.1" \/ Duck!Migratable(db))
  <2>1. CASE Duck!OpenEnsuring
    BY <1>1, <2>1 DEF Duck!OpenEnsuring, Duck!Migrated, Duck!Tables
  <2>2. CASE Duck!OpenValidating
    BY <1>1, <2>2 DEF Duck!OpenValidating, DuckInv, DuckTypes
  <2>3. CASE Duck!InitializeDatabase
    BY <1>1, <2>3 DEF Duck!InitializeDatabase, Duck!Migrated, Duck!Tables
  <2> QED BY <2>1, <2>2, <2>3
<1>3. Sound(db)'
  <2>1. (\A i \in Ids : IncidentAgrees(db, i))' /\ RepliesAgree(db)'
    BY <1>2 DEF DuckInv, Sound, IncidentAgrees, AuditedTo, RepliesAgree, Duck!Written, Duck!Tracked,
       Duck!AssociatedIn
  <2>2. Duck!KeysApart(db')
    BY <1>2, KeysMeans DEF DuckInv, Sound, Different
  <2>3. \A i, j \in Ids : Different(db', i, j) => SharesLate(db', i, j)
    BY <1>2 DEF DuckInv, Sound, Different, SharesLate, LateShare, Duck!Tracked, Duck!AssociatedIn
  <2>4. Duck!Migratable(db')
    BY <1>2 DEF DuckInv, Sound, Duck!Migratable
  <2> QED BY <2>1, <2>2, <2>3, <2>4 DEF Sound
<1>4. \A c \in Callers : Told(c)'
  <2>1. \A i \in Ids : db.rows[i].rev \in Nat
    BY <1>1, TableFields
  <2> QED BY <1>1, <1>2, <2>1, StillTold
<1> QED BY <1>1, <1>2, <1>3, <1>4, DuckFacts DEF DuckInv, DuckTypes

LEMMA ResetStep ==
    ASSUME DuckInv, Duck!ResetDatabase
    PROVE  DuckInv'
<1>1. /\ lockDuck = Nobody /\ lockDuck' = Nobody /\ stage' = stage /\ UNCHANGED <<call, answerDuck, target, open>>
      /\ \A c \in Callers : answerDuck[c] = Duck!Pending
  BY DEF Duck!ResetDatabase
<1>2. /\ db'.version = "1.1" /\ db'.assoc = {} /\ db'.audit = {} /\ db'.idem = {}
      /\ \A i \in Ids : ~db'.rows[i].exists
      /\ db' \in Duck!Tables /\ work' = db'
  <2>1. Duck!Missing \in IncidentRow /\ ~Duck!Missing.exists
    BY DEF Duck!Missing, IncidentRow
  <2> QED BY <2>1 DEF Duck!ResetDatabase, Duck!Tables, IncidentRow
<1>3. Sound(db)'
  <2>1. (\A i \in Ids : IncidentAgrees(db, i))' /\ RepliesAgree(db)'
    BY <1>2 DEF IncidentAgrees, RepliesAgree
  <2>2. Duck!KeysApart(db')
    BY <1>2, KeysMeans DEF Different
  <2>3. \A i, j \in Ids : Different(db', i, j) => SharesLate(db', i, j)
    BY <1>2 DEF Different
  <2>4. Duck!Migratable(db')
    BY <1>2 DEF Duck!Migratable
  <2> QED BY <2>1, <2>2, <2>3, <2>4 DEF Sound
<1>4. \A c \in Callers : Told(c)'
  BY <1>1, NothingTold
<1> QED BY <1>1, <1>2, <1>3, <1>4, DuckFacts DEF DuckInv, DuckTypes

LEMMA CrashStep ==
    ASSUME DuckInv, Duck!Crash
    PROVE  DuckInv'
<1>1. /\ lockDuck' = Nobody /\ stage' = "none" /\ UNCHANGED <<call, target>> /\ ~open' /\ work' = db'
      /\ answerDuck' = [c \in Callers |-> Duck!Pending]
  BY DEF Duck!Crash
<1>2. db' = db \/ (db' = work /\ stage = "commit")
  BY DEF Duck!Crash
<1>3. Sound(db') /\ db' \in Duck!Tables
  <2>1. CASE db' = work /\ stage = "commit"
    <3>1. PICK c \in Callers : lockDuck = c
      BY <2>1 DEF DuckInv, DuckTypes
    <3> QED BY <2>1, <3>1 DEF DuckInv, DuckTypes, InTransaction, Expects
  <2> QED BY <1>2, <2>1 DEF DuckInv, DuckTypes
<1>4. \A c \in Callers : Told(c)'
  BY <1>1, NothingTold
<1> QED BY <1>1, <1>3, <1>4, DuckFacts DEF DuckInv, DuckTypes, Answers, Stages

\* Calls outside a transaction.
LEMMA AnswerStep ==
    ASSUME DuckInv, NEW c \in Callers, Duck!RefuseUnsafe(c) \/ Duck!Get(c) \/ Duck!CallAgain(c)
    PROVE  DuckInv'
<1>1. UNCHANGED <<db, work, stage, target, lockDuck, open>>
  BY DEF Duck!RefuseUnsafe, Duck!Get, Duck!CallAgain
<1>2. /\ call' \in [Callers -> StoreRequests] /\ answerDuck' \in [Callers -> Answers]
      /\ \A d \in Callers \ {c} : call'[d] = call[d] /\ answerDuck'[d] = answerDuck[d]
  <2>1. \A i \in Ids : db.rows[i].rev \in Nat
    BY TableFields DEF DuckInv, DuckTypes
  <2> QED BY <2>1, DuckFacts DEF Duck!RefuseUnsafe, Duck!Get, Duck!CallAgain, DuckInv, DuckTypes, Answers
<1>3. lockDuck # c
  BY DEF DuckInv, InTransaction, Duck!RefuseUnsafe, Duck!Get, Duck!CallAgain
<1>4. \A d \in Callers : lockDuck' = d => InTransaction(d)'
  <2> SUFFICES ASSUME NEW d \in Callers, lockDuck = d PROVE InTransaction(d)'
    BY <1>1
  <2>1. InTransaction(d) /\ call'[d] = call[d] /\ answerDuck'[d] = answerDuck[d]
    BY <1>2, <1>3 DEF DuckInv
  <2>2. Grown'
    BY <1>1, <2>1 DEF InTransaction, Grown
  <2>3. Expects(call[d])' 
    BY <1>1, <2>1 DEF InTransaction, Expects, Correlates, Duck!ActiveMatches, Duck!AssociatedTo, Duck!Rows
  <2> QED BY <1>1, <2>1, <2>2, <2>3 DEF InTransaction
<1>5. \A d \in Callers : Told(d)'
  <2> SUFFICES ASSUME NEW d \in Callers PROVE Told(d)'
    OBVIOUS
  <2>0. \A i \in Ids : db.rows[i].rev \in Nat
    BY TableFields DEF DuckInv, DuckTypes
  <2>1. CASE d # c
    BY <1>1, <1>2, <2>0, <2>1, StillTold DEF DuckInv, DuckTypes
  <2>2. CASE d = c /\ (Duck!RefuseUnsafe(c) \/ Duck!CallAgain(c))
    BY <2>2, NothingTold DEF Duck!RefuseUnsafe, Duck!CallAgain, DuckInv, DuckTypes
  <2>3. CASE d = c /\ Duck!Get(c)
    <3>1. \/ answerDuck'[c] = Duck!Failed
          \/ /\ db.rows[call[c].id].exists /\ call[c].id \in Ids
             /\ answerDuck'[c] = Duck!Ok(call[c].id, db.rows[call[c].id].rev)
      BY <2>3, DuckFacts DEF Duck!Get, DuckInv, DuckTypes
    <3>2. call'[c].op = "get"
      BY <2>3 DEF Duck!Get
    <3> QED BY <1>1, <2>0, <2>3, <3>1, <3>2, AnswersDiffer, NothingTold DEF Told
  <2> QED BY <2>1, <2>2, <2>3
<1>6. Sound(db)'
  BY <1>1 DEF DuckInv
<1> QED BY <1>1, <1>2, <1>4, <1>5, <1>6 DEF DuckInv, DuckTypes

\* A transaction begins.
LEMMA BeginStep ==
    ASSUME DuckInv, NEW c \in Callers, Duck!Begin(c)
    PROVE  DuckInv'
<1>1. /\ UNCHANGED <<db, target, call, answerDuck, open>> /\ lockDuck' = c /\ work' = db /\ stage' = "decide"
      /\ open /\ answerDuck[c] = Duck!Pending /\ call[c].op # "get" /\ call[c].safe
  BY DEF Duck!Begin
<1>2. InTransaction(c)'
  <2>1. Grown'
    <3>1. \A i \in Ids : db.rows[i].rev \in Nat
      BY TableFields DEF DuckInv, DuckTypes
    <3> QED BY <1>1, <3>1 DEF Grown
  <2> QED BY <1>1, <2>1 DEF InTransaction, Expects
<1>3. \A d \in Callers : Told(d)'
  BY <1>1 DEF DuckInv, Told
<1> QED BY <1>1, <1>2, <1>3, DuckFacts DEF DuckInv, DuckTypes, Stages

\* A transaction ends without a change of the store: a replay or a refusal.
LEMMA EndStep ==
    ASSUME DuckInv, NEW c \in Callers,
           Duck!Replay(c) \/ Duck!DecideRefused(c) \/ Duck!AssociateRefused(c)
    PROVE  DuckInv'
<1>1. /\ UNCHANGED <<db, target, call, open>> /\ lockDuck = c /\ lockDuck' = Nobody /\ stage' = "none"
      /\ work' = db
  BY DEF Duck!Replay, Duck!DecideRefused, Duck!AssociateRefused, Duck!Finish
<1>2. \/ answerDuck' = [answerDuck EXCEPT ![c] = Duck!Failed]
      \/ \E r \in db.idem : /\ r.scope = Duck!Scope(call[c])
                            /\ answerDuck' = [answerDuck EXCEPT ![c] = Duck!Ok(r.id, r.rev)]
  <2>1. stage = "decide" => work = db
    BY <1>1 DEF DuckInv, InTransaction, Expects
  <2> QED BY <2>1 DEF Duck!Replay, Duck!DecideRefused, Duck!AssociateRefused, Duck!Finish
<1>3. \A r \in db.idem : /\ r.id \in Ids /\ r.rev \in Nat
                         /\ db.rows[r.id].exists /\ r.rev <= db.rows[r.id].rev
  BY TableFields DEF DuckInv, DuckTypes, Sound, RepliesAgree
<1>4. /\ answerDuck' \in [Callers -> Answers]
      /\ \A d \in Callers \ {c} : answerDuck'[d] = answerDuck[d]
  BY <1>2, <1>3 DEF DuckInv, DuckTypes, Answers
<1>5. \A d \in Callers : Told(d)'
  <2> SUFFICES ASSUME NEW d \in Callers PROVE Told(d)'
    OBVIOUS
  <2>0. \A i \in Ids : db.rows[i].rev \in Nat
    BY TableFields DEF DuckInv, DuckTypes
  <2>1. CASE d # c
    BY <1>1, <1>4, <2>0, <2>1, StillTold DEF DuckInv, DuckTypes
  <2>2. CASE d = c /\ answerDuck' = [answerDuck EXCEPT ![c] = Duck!Failed]
    BY <2>2, NothingTold DEF DuckInv, DuckTypes
  <2>3. ASSUME d = c, NEW r \in db.idem, r.scope = Duck!Scope(call[c]),
               answerDuck' = [answerDuck EXCEPT ![c] = Duck!Ok(r.id, r.rev)]
        PROVE  Told(d)'
    <3>1. answerDuck'[d] = Duck!Ok(r.id, r.rev)
      BY <2>3 DEF DuckInv, DuckTypes
    <3>2. \A i, n : Duck!Ok(r.id, r.rev) = Duck!Ok(i, n) => i = r.id /\ n = r.rev
      BY AnswersDiffer
    <3> QED BY <1>1, <1>3, <2>3, <3>1, <3>2 DEF Told
  <2> QED BY <1>2, <2>1, <2>2, <2>3
<1> QED BY <1>1, <1>4, <1>5, DuckFacts DEF DuckInv, DuckTypes, Stages

\* The caller's transaction goes on; nothing is committed and nobody answered.
LEMMA InsideStep ==
    ASSUME DuckInv, NEW c \in Callers, lockDuck = c,
           UNCHANGED <<db, lockDuck, call, answerDuck, open>>,
           work' \in Duck!Tables, target' \in Ids, stage' \in Stages \ {"none"},
           Grown', Expects(call[c])',
           stage' \notin {"decide", "commit"} => \A r \in work'.idem : r.scope # Duck!Scope(call[c])
    PROVE  DuckInv'
<1>1. \A d \in Callers : lockDuck' = d => InTransaction(d)'
  BY DEF DuckInv, InTransaction
<1>2. \A d \in Callers : Told(d)'
  BY DEF DuckInv, Told
<1> QED BY <1>1, <1>2, DuckFacts DEF DuckInv, DuckTypes

\* The decision what to write.
LEMMA DecideStep ==
    ASSUME DuckInv, NEW c \in Callers,
           Duck!DecideCreate(c) \/ Duck!DecideCorrelate(c) \/ Duck!DecideTransition(c)
    PROVE  DuckInv'
<1>1. /\ UNCHANGED <<db, work, lockDuck, call, answerDuck, open>> /\ lockDuck = c /\ stage = "decide"
      /\ stage' \in {"incident", "associate"} /\ target' \in Ids
      /\ \A r \in work.idem : r.scope # Duck!Scope(call[c])
  BY DuckFacts DEF Duck!DecideCreate, Duck!DecideCorrelate, Duck!DecideTransition, Duck!IsNew, DuckInv, DuckTypes
<1>2. InTransaction(c) /\ work = db
  BY <1>1 DEF DuckInv, InTransaction, Expects
<1>3. Grown'
  BY <1>1, <1>2 DEF InTransaction, Grown
<1>4. Expects(call[c])'
  <2>1. CASE Duck!DecideCreate(c)
    <3>1. /\ stage' = "incident" /\ target' = call[c].id /\ call[c].op # "transition"
          /\ Duck!ActiveMatches(call[c].corr, call[c].srcs, {}) = {} /\ ~work.rows[call[c].id].exists
      BY <2>1 DEF Duck!DecideCreate, Duck!Rows
    <3>2. (Duck!ActiveMatches(call[c].corr, call[c].srcs, {}) = {})'
      BY <1>1, <3>1 DEF Duck!ActiveMatches, Duck!Rows, Duck!AssociatedTo
    <3> QED BY <1>1, <1>2, <3>1, <3>2 DEF Expects
  <2>2. CASE Duck!DecideCorrelate(c)
    <3>1. /\ stage' = "associate" /\ call[c].op = "create_or_correlate"
          /\ target' \in Duck!ActiveMatches(call[c].corr, call[c].srcs, {})
      BY <2>2 DEF Duck!DecideCorrelate
    <3>2. work.rows[target'].exists
      BY <3>1 DEF Duck!ActiveMatches, Duck!Rows
    <3> QED BY <1>1, <1>2, <3>1, <3>2 DEF Expects, Correlates
  <2>3. CASE Duck!DecideTransition(c)
    <3> DEFINE i == call[c].id
    <3>1. /\ stage' = "incident" /\ target' = i /\ call[c].op = "transition"
          /\ work.rows[i].exists
          /\ (work.rows[i].settled /\ ~call[c].settled)
               => Duck!ActiveMatches(work.rows[i].corr, Duck!AssociatedTo(i), {i}) = {}
      BY <2>3 DEF Duck!DecideTransition, Duck!MayReactivate, Duck!Rows
    <3>2. ASSUME work.rows[i].settled /\ ~call[c].settled
          PROVE  (Duck!ActiveMatches(db.rows[i].corr, {}, {i}) = {})'
      BY <1>1, <1>2, <3>1, <3>2 DEF Duck!ActiveMatches, Duck!Rows, Duck!AssociatedTo
    <3> QED BY <1>1, <1>2, <3>1, <3>2 DEF Expects
  <2> QED BY <2>1, <2>2, <2>3
<1> QED BY <1>1, <1>3, <1>4, InsideStep DEF DuckInv, DuckTypes, Stages

\* A transition keeps the row's existence and correlation key.
Succession(o, b, n, S) == [o EXCEPT !.settled = b, !.rev = n, !.srcs = S]

LEMMA Succeeding ==
    ASSUME NEW o \in IncidentRow, NEW b \in BOOLEAN, NEW n \in Nat, NEW S \in SUBSET Sources
    PROVE  LET r == Succession(o, b, n, S)
           IN  r \in IncidentRow /\ r.exists = o.exists /\ r.settled = b /\ r.rev = n /\ r.corr = o.corr
<1> DEFINE r == Succession(o, b, n, S)
<1>0. r = [o EXCEPT !.settled = b, !.rev = n, !.srcs = S]
  BY DEF Succession
<1> HIDE DEF r
<1>1. r.exists = o.exists /\ r.settled = b /\ r.rev = n /\ r.corr = o.corr /\ r.srcs = S
  BY <1>0 DEF IncidentRow
<1>2. r = [exists |-> o.exists, settled |-> b, rev |-> n, corr |-> o.corr, srcs |-> S]
  BY <1>0 DEF IncidentRow
<1>3. o.exists \in BOOLEAN /\ o.corr \in Keys \cup {NoCorrelation}
  BY DEF IncidentRow
<1>4. r \in IncidentRow
  BY <1>2, <1>3 DEF IncidentRow
<1> QED BY <1>1, <1>4 DEF r

\* The incident row is inserted or updated.
LEMMA WriteIncidentStep ==
    ASSUME DuckInv, NEW c \in Callers, Duck!WriteIncident(c)
    PROVE  DuckInv'
<1> DEFINE q == call[c]
           old == work.rows[target]
           row == Duck!Successor(c)
<1>1. /\ UNCHANGED <<db, target, lockDuck, call, answerDuck, open>> /\ lockDuck = c /\ stage = "incident"
      /\ stage' = "associate" /\ work' = [work EXCEPT !.rows[target] = row]
  BY DEF Duck!WriteIncident
<1>2. InTransaction(c) /\ work = db /\ target = q.id /\ open /\ db.version = "1.1" /\ Sound(db)
      /\ Duck!Migratable(db) /\ target \in Ids /\ q \in StoreRequests /\ work \in Duck!Tables
  BY <1>1 DEF DuckInv, DuckTypes, InTransaction, Expects, Sound
<1>3. old \in IncidentRow /\ old.rev \in Nat
  BY <1>2, TableFields
<1>4. /\ q.op = "transition" => /\ old.exists
                                /\ (old.settled /\ ~q.settled) => Duck!ActiveMatches(old.corr, {}, {target}) = {}
      /\ q.op # "transition" => ~old.exists /\ Duck!ActiveMatches(q.corr, q.srcs, {}) = {}
  BY <1>1, <1>2 DEF InTransaction, Expects
<1>5. /\ row \in IncidentRow
      /\ q.op = "transition" => /\ row.exists = old.exists /\ row.settled = q.settled /\ row.rev = old.rev + 1
                                /\ row.corr = old.corr
      /\ q.op # "transition" => row.exists /\ row.rev = 0 /\ row.corr = q.corr /\ row.srcs = q.srcs
  <2>1. CASE q.op = "transition"
    <3>1. row = Succession(old, q.settled, old.rev + 1, old.srcs \cup q.srcs)
      BY <2>1 DEF Duck!Successor, Duck!Rows, Succession
    <3>2. q.settled \in BOOLEAN /\ old.rev + 1 \in Nat /\ (old.srcs \cup q.srcs) \in SUBSET Sources
      BY <1>2, <1>3, DuckFacts DEF IncidentRow
    <3> HIDE DEF row, old, q
    <3>3. row \in IncidentRow /\ row.exists = old.exists /\ row.settled = q.settled /\ row.rev = old.rev + 1
          /\ row.corr = old.corr
      BY <1>3, <3>1, <3>2, Succeeding
    <3> QED BY <2>1, <3>3
  <2>2. CASE q.op # "transition"
    <3>1. row = [exists |-> TRUE, settled |-> FALSE, rev |-> 0, corr |-> q.corr, srcs |-> q.srcs]
      BY <2>2 DEF Duck!Successor
    <3>2. q.srcs \subseteq Sources /\ q.corr \in Keys \cup {NoCorrelation}
      BY <1>2, DuckFacts
    <3> HIDE DEF row, q
    <3> QED BY <2>2, <3>1, <3>2 DEF IncidentRow
  <2> QED BY <2>1, <2>2
<1> HIDE DEF row
<1>6. /\ work' \in Duck!Tables /\ work'.rows[target] = row
      /\ \A i \in Ids \ {target} : work'.rows[i] = work.rows[i]
      /\ work'.version = work.version /\ work'.assoc = work.assoc /\ work'.audit = work.audit
      /\ work'.idem = work.idem
  <2>1. /\ work \in Duck!Tables /\ target \in Ids /\ row \in IncidentRow
        /\ work' = Inserted(work, target, row)
    BY <1>1, <1>2, <1>5 DEF Inserted
  <2> QED BY <2>1, WithRow
<1>7. Drafted(work', target) /\ Unassociated(work', target)
  <2>1. CASE q.op = "transition"
    <3>1. ASSUME old.settled, ~row.settled, NEW i \in Ids \ {target}, work.rows[i].exists, ~work.rows[i].settled
          PROVE  row.corr = NoCorrelation \/ row.corr # work.rows[i].corr
      BY <1>4, <1>5, <2>1, <3>1 DEF Duck!ActiveMatches, Duck!Rows
    <3>2. row.exists /\ row.rev = old.rev + 1 /\ row.corr = old.corr /\ old.exists
      BY <1>4, <1>5, <2>1
    <3> HIDE DEF old
    <3> QED BY <1>2, <1>6, <3>1, <3>2, Drafting DEF old
  <2>2. CASE q.op # "transition"
    <3>1. ASSUME NEW i \in Ids \ {target}, work.rows[i].exists, ~work.rows[i].settled
          PROVE  (row.corr = NoCorrelation \/ row.corr # work.rows[i].corr) /\ row.srcs \cap work.rows[i].srcs = {}
      BY <1>4, <1>5, <2>2, <3>1 DEF Duck!ActiveMatches, Duck!Rows
    <3>2. row.exists /\ row.rev = 0 /\ ~old.exists
      BY <1>4, <1>5, <2>2
    <3> HIDE DEF old
    <3> QED BY <1>2, <1>6, <3>1, <3>2, Drafting DEF old
  <2> QED BY <2>1, <2>2
<1>8. Grown'
  <2>1. \A i \in Ids : db.rows[i].rev \in Nat
    BY <1>2, TableFields
  <2> QED BY <1>1, <1>2, <1>3, <1>4, <1>5, <1>6, <2>1 DEF Grown
<1>9. Expects(q)'
  <2>1. ~Correlates(q)'
    BY <1>1, <1>2, <1>4 DEF Correlates
  <2> QED BY <1>1, <1>5, <1>6, <1>7, <2>1 DEF Expects
<1> QED BY <1>1, <1>2, <1>6, <1>8, <1>9, InsideStep DEF InTransaction, Stages

\* Its events are associated with it.
LEMMA AssociateStep ==
    ASSUME DuckInv, NEW c \in Callers, Duck!Associate(c)
    PROVE  DuckInv'
<1> DEFINE q == call[c]
           S == Duck!Incoming(c)
           new == {[id |-> target, src |-> s, complete |-> TRUE] : s \in S \ Duck!AssociatedTo(target)}
<1>1. /\ UNCHANGED <<db, target, lockDuck, call, answerDuck, open>> /\ lockDuck = c /\ stage = "associate"
      /\ work' = [work EXCEPT !.assoc = @ \cup new]
      /\ stage' = IF Correlates(q) THEN "idempotency" ELSE "audit"
      /\ \A s \in S : Duck!Owner(s) \subseteq {target}
  BY DEF Duck!Associate, Duck!CanAssociate, Correlates
<1>2. InTransaction(c) /\ open /\ db.version = "1.1" /\ Sound(db) /\ db \in Duck!Tables
      /\ Duck!Migratable(db) /\ target \in Ids /\ q \in StoreRequests /\ work \in Duck!Tables
  BY <1>1 DEF DuckInv, DuckTypes, Sound, InTransaction
<1>3. S \in SUBSET Sources
  BY <1>2, TableFields, DuckFacts DEF Duck!Incoming, Duck!Rows
<1>4. \A s \in S : \A a \in work.assoc : a.src = s => a.id = target
  BY <1>1 DEF Duck!Owner
<1>5. work.assoc \cup new = Gained(work, target, S)
  BY DEF Duck!AssociatedTo, Gained
<1>6. new \in SUBSET Association
  <2>1. \A s \in Sources : [id |-> target, src |-> s, complete |-> TRUE] \in Association
    BY <1>2 DEF Association
  <2> QED BY <1>3, <2>1
<1> HIDE DEF S, new
<1>7. /\ work' \in Duck!Tables /\ work'.assoc = Gained(work, target, S)
      /\ work'.version = work.version /\ work'.rows = work.rows /\ work'.audit = work.audit
      /\ work'.idem = work.idem
  <2>1. work' \in Duck!Tables /\ work'.assoc = work.assoc \cup new
        /\ work'.version = work.version /\ work'.rows = work.rows /\ work'.audit = work.audit
        /\ work'.idem = work.idem
    BY <1>1, <1>2, <1>6, WithAssociations
  <2> QED BY <1>5, <2>1
<1>8. CASE Correlates(q)
  <2>1. work = db /\ work.rows[target].exists /\ Sound(work) /\ Duck!Migratable(work)
    BY <1>1, <1>2, <1>8 DEF InTransaction, Expects, Correlates
  <2>2. Sound(work')
    BY <1>2, <1>3, <1>4, <1>7, <2>1, Correlating
  <2>3. Expects(q)'
    BY <1>1, <1>7, <1>8, <2>1, <2>2 DEF Expects, Correlates
  <2> QED BY <1>1, <1>2, <1>7, <1>8, <2>3, InsideStep DEF InTransaction, Grown, Stages
<1>9. CASE ~Correlates(q)
  <2>1. Drafted(work, target) /\ Unassociated(work, target)
        /\ (q.op # "transition" => work.rows[target].srcs = q.srcs)
    BY <1>1, <1>2, <1>9 DEF InTransaction, Expects
  <2>2. work.rows[target].srcs \subseteq S
    BY <2>1 DEF S, Duck!Incoming, Duck!Rows
  <2>3. Drafted(work', target) /\ Associated(work', target)
    BY <1>2, <1>3, <1>4, <1>7, <2>1, <2>2, Associating
  <2>4. Expects(q)'
    BY <1>1, <1>9, <2>3 DEF Expects, Correlates
  <2> QED BY <1>1, <1>2, <1>7, <1>9, <2>4, InsideStep DEF InTransaction, Grown, Stages
<1> QED BY <1>8, <1>9

\* Its audit row, and the answer to the request, are written.
LEMMA WriteAuditStep ==
    ASSUME DuckInv, NEW c \in Callers, Duck!WriteAudit(c)
    PROVE  DuckInv'
<1> DEFINE q == call[c]
           a == [id |-> target, rev |-> work.rows[target].rev]
<1>1. /\ UNCHANGED <<db, target, lockDuck, call, answerDuck, open>> /\ lockDuck = c /\ stage = "audit"
      /\ work' = [work EXCEPT !.audit = @ \cup {a}] /\ stage' = "idempotency"
  BY DEF Duck!WriteAudit, Duck!Rows
<1>2. InTransaction(c) /\ target \in Ids /\ work \in Duck!Tables
      /\ ~Correlates(q) /\ Drafted(work, target) /\ Associated(work, target)
  BY <1>1 DEF DuckInv, DuckTypes, InTransaction, Expects
<1>3. a \in AuditRow
  BY <1>2, TableFields DEF AuditRow
<1>4. /\ work' \in Duck!Tables /\ work'.audit = work.audit \cup {a}
      /\ work'.version = work.version /\ work'.rows = work.rows /\ work'.assoc = work.assoc
      /\ work'.idem = work.idem
  <2> HIDE DEF a
  <2> QED BY <1>1, <1>2, <1>3, WithAudit
<1>5. Sound(work') /\ Duck!Tracked(work', target)
  BY <1>2, <1>4, Auditing
<1>6. Expects(q)'
  BY <1>1, <1>2, <1>4, <1>5 DEF Expects, Correlates, Drafted
<1> QED BY <1>1, <1>2, <1>4, <1>6, InsideStep DEF InTransaction, Grown, Stages

LEMMA WriteIdempotencyStep ==
    ASSUME DuckInv, NEW c \in Callers, Duck!WriteIdempotency(c)
    PROVE  DuckInv'
<1> DEFINE q == call[c]
           r == [scope |-> Duck!Scope(q), request |-> q, id |-> target, rev |-> work.rows[target].rev]
<1>1. /\ UNCHANGED <<db, target, lockDuck, call, answerDuck, open>> /\ lockDuck = c /\ stage = "idempotency"
      /\ work' = [work EXCEPT !.idem = @ \cup {r}] /\ stage' = "commit"
  BY DEF Duck!WriteIdempotency, Duck!Rows
<1>2. InTransaction(c) /\ target \in Ids /\ work \in Duck!Tables /\ q \in StoreRequests
      /\ Sound(work) /\ (Correlates(q) \/ Duck!Tracked(work, target)) /\ work.rows[target].exists
      /\ \A s \in work.idem : s.scope # Duck!Scope(q)
  BY <1>1 DEF DuckInv, DuckTypes, InTransaction, Expects
<1>3. r \in ReplyRow
  BY <1>2, TableFields DEF ReplyRow
<1>4. /\ work' \in Duck!Tables /\ work'.idem = work.idem \cup {r}
      /\ work'.version = work.version /\ work'.rows = work.rows /\ work'.assoc = work.assoc
      /\ work'.audit = work.audit
  <2> HIDE DEF r
  <2> QED BY <1>1, <1>2, <1>3, WithReply
<1>5. Sound(work')
  BY <1>2, <1>4, Recording DEF Correlates
<1>6. Expects(q)'
  <2>1. r.scope = Duck!Scope(q) /\ r.request = q /\ r.id = target /\ r.rev = work.rows[target].rev
    OBVIOUS
  <2> HIDE DEF r
  <2> QED BY <1>1, <1>2, <1>4, <1>5, <2>1 DEF Expects
<1> QED BY <1>1, <1>2, <1>4, <1>6, InsideStep DEF InTransaction, Grown, Stages

\* COMMIT, and the answer.
LEMMA CommitStep ==
    ASSUME DuckInv, NEW c \in Callers, Duck!Commit(c)
    PROVE  DuckInv'
<1>1. /\ UNCHANGED <<work, target, call, open>> /\ lockDuck = c /\ lockDuck' = Nobody /\ stage' = "none"
      /\ stage = "commit" /\ db' = work
      /\ answerDuck' = [answerDuck EXCEPT ![c] = Duck!Ok(target, work.rows[target].rev)]
  BY DEF Duck!Commit, Duck!Finish, Duck!Rows
<1>2. Grown /\ target \in Ids /\ work \in Duck!Tables /\ Sound(work) /\ work.rows[target].exists
      /\ \E r \in work.idem : r.scope = Duck!Scope(call[c]) /\ r.id = target /\ r.rev = work.rows[target].rev
  BY <1>1 DEF DuckInv, DuckTypes, InTransaction, Expects
<1>3. work.rows[target].rev \in Nat
  BY <1>2, TableFields
<1>4. /\ answerDuck' \in [Callers -> Answers]
      /\ answerDuck'[c] = Duck!Ok(target, work.rows[target].rev)
      /\ \A d \in Callers \ {c} : answerDuck'[d] = answerDuck[d]
  BY <1>1, <1>2, <1>3 DEF DuckInv, DuckTypes, Answers
<1>5. \A d \in Callers : Told(d)'
  <2> SUFFICES ASSUME NEW d \in Callers PROVE Told(d)'
    OBVIOUS
  <2>1. CASE d # c
    BY <1>1, <1>2, <1>4, <2>1, StillTold DEF Grown
  <2>2. CASE d = c
    <3>1. \A i, n : Duck!Ok(target, work.rows[target].rev) = Duck!Ok(i, n) => i = target /\ n = work.rows[target].rev
      BY AnswersDiffer
    <3> QED BY <1>1, <1>2, <1>3, <1>4, <2>2, <3>1 DEF Told
  <2> QED BY <2>1, <2>2
<1>6. Sound(db)' /\ (open => db.version = "1.1")'
  BY <1>1, <1>2 DEF DuckInv, Grown
<1> QED BY <1>1, <1>2, <1>4, <1>5, <1>6, DuckFacts DEF DuckInv, DuckTypes, Stages

LEMMA DuckStep == DuckInv /\ Duck!Next => DuckInv'
BY SchemaStep, ResetStep, CrashStep, AnswerStep, BeginStep, EndStep, DecideStep, WriteIncidentStep, AssociateStep,
   WriteAuditStep, WriteIdempotencyStep, CommitStep DEF Duck!Next

LEMMA DuckFrame == DuckInv /\ UNCHANGED duckdbVars => DuckInv'
<1> SUFFICES ASSUME DuckInv, UNCHANGED duckdbVars PROVE DuckInv'
  OBVIOUS
<1>1. UNCHANGED <<db, work, stage, target, lockDuck, call, answerDuck, open>>
  BY DEF duckdbVars
<1>2. ASSUME NEW c \in Callers, lockDuck' = c PROVE InTransaction(c)'
  <2>1. InTransaction(c)
    BY <1>1, <1>2 DEF DuckInv
  <2>2. Expects(call[c])'
    BY <1>1, <2>1 DEF InTransaction, Expects, Correlates, Duck!ActiveMatches, Duck!Rows, Duck!AssociatedTo
  <2> QED BY <1>1, <2>1, <2>2 DEF InTransaction, Grown
<1>3. \A c \in Callers : Told(c)'
  BY <1>1 DEF DuckInv, Told
<1> QED BY <1>1, <1>2, <1>3 DEF DuckInv, DuckTypes

\* What the invariant says of the store and of the answers.
LEMMA DuckAgrees ==
    ASSUME DuckInv
    PROVE  /\ Duck!TablesAgree /\ Duck!EventsHaveOneIncident
           /\ Duck!AnswerIsDurable /\ Duck!SameRequestSameAnswer
<1>1. Duck!TablesAgree
  BY DEF DuckInv, Sound, Duck!TablesAgree, Duck!Agree, IncidentAgrees, AuditedTo, RepliesAgree
<1>2. Duck!EventsHaveOneIncident
  <2> SUFFICES ASSUME db.version = "1.1", NEW p \in Duck!Pairs(db), Duck!Shared(db, p) # {}
               PROVE  \E i, j \in {p[1], p[2]} : db.rows[i].rev > 0 /\ Duck!Tracked(db, i) /\ ~Duck!Tracked(db, j)
    BY DEF Duck!EventsHaveOneIncident, DuckInv, Sound
  <2>1. Different(db, p[1], p[2]) /\ p[1] \in Ids /\ p[2] \in Ids
    BY DEF Duck!Pairs, Duck!Unsettled, Different
  <2>2. LateShare(db, p[1], p[2]) \/ LateShare(db, p[2], p[1])
    BY <2>1 DEF DuckInv, Sound, SharesLate, Duck!Shared
  <2> QED BY <2>2 DEF LateShare
<1>3. ASSUME NEW c \in Callers, answerDuck[c].kind = "ok"
      PROVE  \E i \in Ids, n \in Nat : answerDuck[c] = Duck!Ok(i, n)
  BY <1>3, AnswersDiffer DEF DuckInv, DuckTypes, Answers
<1>4. Duck!AnswerIsDurable
  BY <1>3, AnswersDiffer DEF Duck!AnswerIsDurable, DuckInv, Told
<1>5. Duck!SameRequestSameAnswer
  <2> SUFFICES ASSUME NEW c \in Callers, NEW d \in Callers, call[c] = call[d], call[c].op # "get",
                      answerDuck[c].kind = "ok", answerDuck[d].kind = "ok"
               PROVE  answerDuck[c] = answerDuck[d]
    BY DEF Duck!SameRequestSameAnswer
  <2>1. PICK i \in Ids, n \in Nat : answerDuck[c] = Duck!Ok(i, n)
    BY <1>3
  <2>2. PICK j \in Ids, m \in Nat : answerDuck[d] = Duck!Ok(j, m)
    BY <1>3
  <2>3. PICK r \in db.idem : r.scope = Duck!Scope(call[c]) /\ r.id = i /\ r.rev = n
    BY <2>1 DEF DuckInv, Told
  <2>4. PICK s \in db.idem : s.scope = Duck!Scope(call[d]) /\ s.id = j /\ s.rev = m
    BY <2>2 DEF DuckInv, Told
  <2>5. r = s
    BY <2>3, <2>4 DEF DuckInv, Sound, RepliesAgree
  <2> QED BY <2>1, <2>2, <2>3, <2>4, <2>5
<1> QED BY <1>1, <1>2, <1>4, <1>5

----------------------------------------------------------------------------
(* What the deployment keeps *)

\* A backup is published only after it verified, and what is exchanged afterwards is
\* nobody's.
LEMMA PublishedStep ==
    ASSUME WorkspaceInv, Workspace!PublishedBackupVerifies, Workspace!Next
    PROVE  Workspace!PublishedBackupVerifies'
<1>0. dirs \in [Dests -> Directories]
  BY DEF WorkspaceInv, WorkspaceTypes
<1>1. CASE UNCHANGED dirs
  BY <1>1 DEF Workspace!PublishedBackupVerifies, Workspace!Verifies
<1>2. ASSUME NEW p \in Procs, Workspace!PublishBackup(p) PROVE Workspace!PublishedBackupVerifies'
  <2>1. dirs' = [dirs EXCEPT ![proc[p].dest] = staging[p]] /\ Workspace!Verifies(staging[p])
    BY <1>2 DEF Workspace!PublishBackup, Workspace!publish_directory_no_replace
  <2>2. \A d \in Dests : dirs'[d] = dirs[d] \/ dirs'[d] = staging[p]
    BY <1>0, <2>1
  <2> QED BY <2>1, <2>2 DEF Workspace!PublishedBackupVerifies, Workspace!Verifies
<1>3. ASSUME NEW e \in Dests, Workspace!ExchangeBackup(e) PROVE Workspace!PublishedBackupVerifies'
  <2>1. \A d \in Dests : dirs'[d] = dirs[d] \/ dirs'[d].owner = None
    BY <1>0, <1>3 DEF Workspace!ExchangeBackup, Directories
  <2> QED BY <2>1 DEF Workspace!PublishedBackupVerifies, Workspace!Verifies
<1>4. CASE Workspace!LocalWriter \/ Workspace!DamageDatabase \/ \E p \in Procs : Workspace!ForeignStaging(p)
  BY <1>1, <1>4 DEF Workspace!LocalWriter, Workspace!DamageDatabase, Workspace!ForeignStaging
<1>5. ASSUME NEW p \in Procs, Workspace!Command(p) \/ Workspace!Continue(p) \/ Workspace!Kill(p)
      PROVE  Workspace!PublishedBackupVerifies'
  BY <1>1, <1>2, <1>5, BackupsStay
<1> QED BY <1>3, <1>4, <1>5 DEF Workspace!Next

\* The workspace's invariant, and that a published backup verifies, in every behaviour of
\* the local parts.
LEMMA WorkspaceInvariant ==
    Spec => [](part = "workspace" => WorkspaceInv /\ Workspace!PublishedBackupVerifies)
<1> DEFINE Inv == part = "workspace" => WorkspaceInv /\ Workspace!PublishedBackupVerifies
<1>1. Init => Inv
  <2>1. Workspace!Init => Workspace!PublishedBackupVerifies
    BY DEF Workspace!Init, Workspace!PublishedBackupVerifies, Workspace!Absent
  <2> QED BY <2>1, WorkspaceInitially DEF Init
<1>2. Inv /\ [Next]_vars => Inv'
  <2> SUFFICES ASSUME Inv, [Next]_vars, part' = "workspace"
               PROVE  WorkspaceInv' /\ Workspace!PublishedBackupVerifies'
    OBVIOUS
  <2>1. CASE part = "workspace" /\ Workspace!Next
    BY <2>1, WorkspaceStep, PublishedStep
  <2>2. CASE UNCHANGED vars
    <3>1. UNCHANGED workspaceVars /\ UNCHANGED dirs /\ part = "workspace"
      BY <2>2 DEF vars, workspaceVars
    <3>2. Workspace!PublishedBackupVerifies'
      BY <3>1 DEF Workspace!PublishedBackupVerifies, Workspace!Verifies
    <3> QED BY <3>1, <3>2, WorkspaceFrame
  <2> QED BY <2>1, <2>2 DEF Next
<1> QED BY <1>1, <1>2, PTL DEF Spec

\* The store's invariant, in every behaviour of the local parts.
LEMMA DuckInvariant == Spec => [](part = "duckdb" => DuckInv)
<1> DEFINE Inv == part = "duckdb" => DuckInv
<1>1. Init => Inv
  BY DuckInitially DEF Init
<1>2. Inv /\ [Next]_vars => Inv'
  <2> SUFFICES ASSUME Inv, [Next]_vars, part' = "duckdb" PROVE DuckInv'
    OBVIOUS
  <2>1. CASE part = "duckdb" /\ Duck!Next
    BY <2>1, DuckStep
  <2>2. CASE UNCHANGED vars
    <3>1. UNCHANGED duckdbVars /\ part = "duckdb"
      BY <2>2 DEF vars
    <3> QED BY <3>1, DuckFrame
  <2> QED BY <2>1, <2>2 DEF Next
<1> QED BY <1>1, <1>2, PTL DEF Spec

\* The DuckDB store, for any stores on disk, requests, callers and crashes: incident,
\* association, audit and idempotency rows agree, what a caller was told is committed,
\* the same write has one answer, and a published backup is complete (_write_transaction,
\* _replay, publish_directory_no_replace).
THEOREM OneStory == Spec => []StoreTellsOneStory
<1>1. /\ part = "duckdb" => DuckInv
      /\ part = "workspace" => WorkspaceInv /\ Workspace!PublishedBackupVerifies
      => StoreTellsOneStory
  BY DuckAgrees DEF StoreTellsOneStory
<1> QED BY <1>1, DuckInvariant, WorkspaceInvariant, PTL

\* Associations only gain rows with provenance, and a store in use has no others.
LEMMA MigrationKeeps ==
    ASSUME DuckInv, Duck!Next
    PROVE  Duck!MigrationNeverGuesses
<1> SUFFICES ASSUME NEW a \in db.assoc, ~a.complete, db' # db PROVE db'.assoc = db.assoc \/ db'.assoc = {}
  BY DEF Duck!MigrationNeverGuesses
<1>1. ~Duck!Migratable(db) /\ ~open
  BY DEF Duck!Migratable, DuckInv, Sound
<1>2. ASSUME NEW c \in Callers PROVE lockDuck # c
  BY <1>1, <1>2 DEF DuckInv, InTransaction
<1>3. Duck!ResetDatabase => db'.assoc = {}
  BY DEF Duck!ResetDatabase
<1> QED
  BY <1>1, <1>2, <1>3 DEF Duck!Next, Duck!OpenEnsuring, Duck!OpenValidating, Duck!InitializeDatabase, Duck!Crash,
     Duck!RefuseUnsafe, Duck!Get, Duck!Begin, Duck!Replay, Duck!DecideCreate, Duck!DecideCorrelate,
     Duck!DecideTransition, Duck!DecideRefused, Duck!WriteIncident, Duck!Associate, Duck!AssociateRefused,
     Duck!WriteAudit, Duck!WriteIdempotency, Duck!Commit, Duck!CallAgain

\* The checkpoint is saved only forwards; clearing it needs the lock.
LEMMA CheckpointKeeps ==
    ASSUME ReplayInv, Replay!Next
    PROVE  Replay!CheckpointNeverRegresses
<1>0. /\ file \in Nat /\ \A r \in Runners : run[r].at \in Nat
  BY ReplayFacts, RunFields DEF ReplayInv, ReplayTypes
<1>1. ASSUME NEW n \in Nat, Replay!SaveLocked(n) PROVE file' >= file
  BY <1>0, <1>1 DEF Replay!SaveLocked, Replay!ReadCheckpoint
<1>2. CASE UNCHANGED file
  BY <1>0, <1>2 DEF Replay!CheckpointNeverRegresses
<1>3. ASSUME NEW r \in Runners, Replay!Advance(r) \/ Replay!SaveFails(r) \/ Replay!SaveResult(r)
      PROVE  Replay!CheckpointNeverRegresses
  BY <1>0, <1>1, <1>3 DEF Replay!Advance, Replay!SaveFails, Replay!SaveResult, Replay!Current,
     Replay!CheckpointNeverRegresses
<1>4. CASE Replay!ClearCheckpoint
  BY <1>4 DEF Replay!ClearCheckpoint, Replay!LockFree, Replay!CheckpointNeverRegresses
<1> QED
  BY <1>2, <1>3, <1>4 DEF Replay!Next, Replay!RunnerStep, Replay!ReceiverStep, Replay!StartPersistent,
     Replay!StartInMemory, Replay!Crash, Replay!Complete, Replay!Emit, Replay!EmitRefused,
     Replay!StopBeforeAttempt, Replay!StopInFlight, Replay!TransientFailure, Replay!RefusedAnswer,
     Replay!Receipt, Replay!LoseRequest, Replay!RefuseRequest, Replay!AcceptRequest,
     Replay!CreateOrCorrelate, Replay!ConfirmDurable, Replay!IngestFails, Replay!AnswerUncertain

\* What no step loses, where the writers of the incident database are stopped while a
\* workspace command runs, as restore's runbook asks: an association's provenance, a
\* saved checkpoint, a verified database under its own log, a published backup and the
\* files of others (_ensure_repository_schema, _save_locked, restore, backup).
THEOREM DataKept == WritersStopped => (Spec => StoredDataIsKept)
<1> SUFFICES ASSUME WritersStopped PROVE Spec => StoredDataIsKept
  OBVIOUS
<1>1. /\ part = "duckdb" => DuckInv
      /\ part = "workspace" => WorkspaceInv /\ Workspace!PublishedBackupVerifies
      /\ part = "replay" => ReplayInv
      /\ [Next]_vars
      => [/\ part = "duckdb" => Duck!MigrationNeverGuesses
          /\ part = "replay" => Replay!CheckpointNeverRegresses
          /\ part = "workspace" => /\ Workspace!OnlyVerifiedContentsRestored
                                   /\ Workspace!LogIsNeverOrphaned
                                   /\ Workspace!BackupsAreNotReplaced
                                   /\ Workspace!ForeignFilesAreKept]_vars
  <2> SUFFICES ASSUME part = "duckdb" => DuckInv, part = "workspace" => WorkspaceInv,
                      part = "replay" => ReplayInv, Next
               PROVE  /\ part = "duckdb" => Duck!MigrationNeverGuesses
                      /\ part = "replay" => Replay!CheckpointNeverRegresses
                      /\ part = "workspace" => /\ Workspace!OnlyVerifiedContentsRestored
                                               /\ Workspace!LogIsNeverOrphaned
                                               /\ Workspace!BackupsAreNotReplaced
                                               /\ Workspace!ForeignFilesAreKept
    OBVIOUS
  <2> QED BY MigrationKeeps, CheckpointKeeps, WorkspaceKeeps DEF Next
<1> QED BY <1>1, DuckInvariant, WorkspaceInvariant, ReplayInvariant, PTL DEF Spec, StoredDataIsKept

==============================================================================
