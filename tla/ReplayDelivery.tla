--------------------------- MODULE ReplayDelivery ---------------------------
(* telco-lab replays a plan of numbered fault events to the assurance agent's  *)
(* fault receiver.  The sender walks the plan behind a checkpoint file, the    *)
(* HTTP request travels in a worker thread that outlives a cancelled or timed  *)
(* out sender, the receiver commits one incident per source event through the  *)
(* idempotent repository and answers only after reading it back.               *)
(*                                                                             *)
(* Everything that can happen between the commit at the receiver and the       *)
(* checkpoint at the sender is here: lost requests and answers, late requests  *)
(* of a run that is over, deadlines, cancellation, failed checkpoint writes,   *)
(* crashes of the sender, and a second sender that uses the same file.         *)
(* Digests, headers and paths are abstracted to "the event" and "the file".    *)
EXTENDS Naturals, FiniteSets

CONSTANTS
    PlanLength, \* number of events in the plan
    Runners,    \* processes that run the plan against one checkpoint directory
    Backoffs,   \* length of _RETRY_BACKOFFS for the retry policy in force
    MaxRuns,    \* bound: runs started by one process
    NoRunner    \* the lock file is free, the worker is idle

\* What the constants must satisfy.
ReplayAssumption ==
    /\ PlanLength \in Nat \ {0} /\ Backoffs \in 0..2 /\ MaxRuns \in Nat
    /\ NoRunner \notin Runners

Events == 1..PlanLength
NoRequest == [from |-> NoRunner, run |-> 0, seq |-> 0, try |-> 0]

VARIABLES
    file,      \* sequence number in the checkpoint file; 0: no file
    lock,      \* holder of the lock file
    run,       \* each process's run: its locals and where it stands
    wire,      \* requests sent and not yet read by the receiver
    op,        \* the request whose operation the receiver's worker holds
    committed, \* that operation's transaction is durable
    incidents  \* incidents stored for each source event

vars == <<file, lock, run, wire, op, committed, incidents>>

(* A run: `number` counts the runs of the process, `at` is                    *)
(* checkpoint_sequence, `try` is retry_index, `doubt` event_outcome_uncertain, *)
(* `answer` what the transport thread returned for the request it is waiting   *)
(* for (in a run that is over, the answer it ended on), `uncertain` the        *)
(* uncertain_sequence_number reported at the end.                              *)
Fresh == [pc |-> "idle", number |-> 0, saves |-> FALSE, at |-> 0, try |-> 0, doubt |-> FALSE,
          answer |-> "none", uncertain |-> 0]

Init ==
    /\ file = 0 /\ lock = NoRunner
    /\ run = [r \in Runners |-> Fresh]
    /\ wire = {} /\ op = NoRequest /\ committed = FALSE
    /\ incidents = [e \in Events |-> 0]

receiver == <<op, committed, incidents>>

----------------------------------------------------------------------------
(* The sender *)

\* The event a run is working on, and the request of its current attempt.
Current(r) == run[r].at + 1
Pending(r) == [from |-> r, run |-> run[r].number, seq |-> Current(r), try |-> run[r].try]

\* The process returns or raises; the context manager frees the lock.
Leave(r, uncertain, answer) ==
    /\ run' = [run EXCEPT ![r].pc = "over", ![r].uncertain = uncertain, ![r].answer = answer]
    /\ lock' = IF lock = r THEN NoRunner ELSE lock

\* _exclusive: the lock file is taken without waiting, or the call fails with busy.
LockFree == lock = NoRunner

\* _read_locked: the sequence number in the file, zero when there is none.
ReadCheckpoint == file

\* Checkpoints a caller can bring: none, or the one of its own earlier result;
\* _validated_checkpoint refuses one that is not bound to this plan.
ResumesFrom(r) == {0, run[r].at}

\* run_persistent_paced_replay: take the lock or fail with busy, read the file.
StartPersistent(r) ==
    /\ run[r].pc \in {"idle", "over", "raised"} /\ run[r].number < MaxRuns
    /\ LockFree
    /\ lock' = r
    /\ run' = [run EXCEPT ![r] = [Fresh EXCEPT !.pc = "due", !.number = run[r].number + 1,
                                               !.saves = TRUE, !.at = ReadCheckpoint]]
    /\ UNCHANGED <<file, wire, receiver>>

\* run_paced_replay: the caller brings the checkpoint of an earlier result.
StartInMemory(r) ==
    /\ run[r].pc \in {"idle", "over", "raised"} /\ run[r].number < MaxRuns
    /\ \E c \in ResumesFrom(r) :
         run' = [run EXCEPT ![r] = [Fresh EXCEPT !.pc = "due", !.number = run[r].number + 1, !.at = c]]
    /\ UNCHANGED <<file, lock, wire, receiver>>

\* The suffix is exhausted: a complete result.
Complete(r) ==
    /\ run[r].pc = "due" /\ run[r].at = PlanLength
    /\ Leave(r, 0, "none")
    /\ UNCHANGED <<file, wire, receiver>>

\* The event is due: sink.emit hands the request to a transport thread.
Emit(r) ==
    /\ run[r].pc = "due" /\ run[r].at < PlanLength
    /\ wire' = wire \cup {Pending(r)}
    /\ run' = [run EXCEPT ![r].pc = "sending"]
    /\ UNCHANGED <<file, lock, receiver>>

\* Environment, event, payload or endpoint checks of _request refuse to send.
EmitRefused(r) ==
    /\ run[r].pc = "due" /\ run[r].at < PlanLength
    /\ Leave(r, IF run[r].doubt THEN Current(r) ELSE 0, "none")
    /\ UNCHANGED <<file, wire, receiver>>

\* The total deadline passes, or the run is cancelled, before an attempt starts.
StopBeforeAttempt(r) ==
    /\ run[r].pc = "due" /\ run[r].at < PlanLength
    /\ Leave(r, IF run[r].doubt THEN Current(r) ELSE 0, "none")
    /\ UNCHANGED <<file, wire, receiver>>

\* Deadline or cancellation while the request is out: the thread goes on.
StopInFlight(r) ==
    /\ run[r].pc = "sending"
    /\ Leave(r, Current(r), "none")
    /\ UNCHANGED <<file, wire, receiver>>

\* Mutant of TransientFailure: an exhausted retry counts as delivered.
AdvancePastFailure(r) ==
    /\ run[r].pc = "sending"
    /\ IF run[r].try < Backoffs
       THEN run' = [run EXCEPT ![r].pc = "due", ![r].try = @ + 1, ![r].doubt = TRUE, ![r].answer = "none"]
       ELSE run' = [run EXCEPT ![r].pc = "due", ![r].try = 0, ![r].at = @ + 1, ![r].answer = "none"]
    /\ UNCHANGED <<file, lock, wire, receiver>>

\* Mutant of TransientFailure: a retry forgets that the attempt before it may act.
RetryWithoutDoubt(r) ==
    /\ run[r].pc = "sending"
    /\ IF run[r].try < Backoffs
       THEN /\ run' = [run EXCEPT ![r].pc = "due", ![r].try = @ + 1, ![r].answer = "none"]
            /\ UNCHANGED lock
       ELSE Leave(r, Current(r), "none")
    /\ UNCHANGED <<file, wire, receiver>>

\* Network error or socket timeout: transient, retried while backoffs are left.
TransientFailure(r) ==
    /\ run[r].pc = "sending"
    /\ IF run[r].try < Backoffs
       THEN /\ run' = [run EXCEPT ![r].pc = "due", ![r].try = @ + 1, ![r].doubt = TRUE,
                                  ![r].answer = "none"]
            /\ UNCHANGED lock
       ELSE Leave(r, Current(r), "none")
    /\ UNCHANGED <<file, wire, receiver>>

\* A status other than 202/204, a redirect, an oversized or malformed answer.
RefusedAnswer(r) ==
    /\ run[r].pc = "sending" /\ run[r].answer = "refused"
    /\ Leave(r, IF run[r].doubt THEN Current(r) ELSE 0, "refused")
    /\ UNCHANGED <<file, wire, receiver>>

\* 202 or 204: emit returns the receipt of this event.
Receipt(r) ==
    /\ run[r].pc = "sending" /\ run[r].answer = "accepted"
    /\ run' = [run EXCEPT ![r].pc = "receipt"]
    /\ UNCHANGED <<file, lock, wire, receiver>>

\* _save_locked: read the file again, never go back, atomic replace.
SaveLocked(seq) == file' = IF seq < ReadCheckpoint THEN file ELSE seq

\* checkpoint_committer, then the in-memory runner advances.
Advance(r) ==
    /\ run[r].pc = "receipt"
    /\ IF run[r].saves THEN SaveLocked(Current(r)) ELSE UNCHANGED file
    /\ run' = [run EXCEPT ![r].pc = "due", ![r].at = Current(r), ![r].try = 0, ![r].doubt = FALSE,
                          ![r].answer = "none"]
    /\ UNCHANGED <<lock, wire, receiver>>

\* The write fails before the replace, or the directory sync fails after it:
\* ReplayCheckpointError leaves the run without a result.
SaveFails(r) ==
    /\ run[r].pc = "receipt" /\ run[r].saves
    /\ UNCHANGED file \/ SaveLocked(Current(r))
    /\ run' = [run EXCEPT ![r].pc = "raised", ![r].answer = "none"]
    /\ lock' = IF lock = r THEN NoRunner ELSE lock
    /\ UNCHANGED <<wire, receiver>>

\* The sending process dies; the operating system frees its lock.
Crash(r) ==
    /\ run[r].pc \in {"due", "sending", "receipt"}
    /\ run' = [run EXCEPT ![r] = [Fresh EXCEPT !.number = run[r].number]]
    /\ lock' = IF lock = r THEN NoRunner ELSE lock
    /\ UNCHANGED <<file, wire, receiver>>

\* save_replay_checkpoint with the checkpoint of a finished in-memory run.
SaveResult(r) ==
    /\ run[r].pc = "over" /\ ~run[r].saves /\ LockFree
    /\ SaveLocked(run[r].at)
    /\ UNCHANGED <<lock, run, wire, receiver>>

\* clear_replay_checkpoint.
ClearCheckpoint ==
    /\ LockFree /\ file # 0
    /\ file' = 0
    /\ UNCHANGED <<lock, run, wire, receiver>>

----------------------------------------------------------------------------
(* The network and the receiver *)

\* The process that waits for request q, if it still does, hears `answer`.
Reply(q, answer) ==
    run' = IF q # NoRequest /\ run[q.from].pc = "sending" /\ Pending(q.from) = q
              /\ run[q.from].answer = "none"
           THEN [run EXCEPT ![q.from].answer = answer] ELSE run

\* The connection breaks before the receiver reads the request.
LoseRequest(q) ==
    /\ q \in wire
    /\ wire' = wire \ {q}
    /\ UNCHANGED <<file, lock, run, receiver>>

\* The slot or the worker is taken, or the body is refused: no effect.
RefuseRequest(q) ==
    /\ q \in wire
    /\ wire' = wire \ {q}
    /\ Reply(q, "refused")
    /\ UNCHANGED <<file, lock, receiver>>

\* Headers and body match the event's identity: ingest starts in the worker.
AcceptRequest(q) ==
    /\ q \in wire /\ op = NoRequest
    /\ wire' = wire \ {q}
    /\ op' = q /\ committed' = FALSE
    /\ UNCHANGED <<file, lock, run, incidents>>

\* _candidate: the incident, its correlation key and its idempotency key are all
\* derived from the source event of the request, never from the attempt.
Candidate(q) == q.seq

\* create_or_correlate: the idempotency key of a known event replays it.
CreateOrCorrelate ==
    /\ op # NoRequest /\ ~committed
    /\ incidents' = IF incidents[Candidate(op)] > 0 THEN incidents
                    ELSE [incidents EXCEPT ![Candidate(op)] = 1]
    /\ committed' = TRUE
    /\ UNCHANGED <<file, lock, run, wire, op>>

\* The read-back of incident, association and first audit event agrees: 202.
ConfirmDurable ==
    /\ op # NoRequest /\ committed
    /\ Reply(op, "accepted")
    /\ op' = NoRequest /\ committed' = FALSE
    /\ UNCHANGED <<file, lock, wire, incidents>>

\* The transaction or the read-back fails: unavailable, durable or not.
IngestFails ==
    /\ op # NoRequest
    /\ Reply(op, "refused")
    /\ op' = NoRequest /\ committed' = FALSE
    /\ UNCHANGED <<file, lock, wire, incidents>>

\* The caller's deadline at the receiver: answered uncertain, the worker goes on.
AnswerUncertain ==
    /\ op # NoRequest
    /\ Reply(op, "refused")
    /\ UNCHANGED <<file, lock, wire, receiver>>

----------------------------------------------------------------------------

RunnerStep(r) ==
    \/ Complete(r) \/ Emit(r) \/ EmitRefused(r) \/ StopBeforeAttempt(r) \/ StopInFlight(r)
    \/ TransientFailure(r) \/ RefusedAnswer(r) \/ Receipt(r) \/ Advance(r) \/ SaveFails(r)

ReceiverStep == CreateOrCorrelate \/ ConfirmDurable \/ IngestFails \/ AnswerUncertain

Next ==
    \/ \E r \in Runners : StartPersistent(r) \/ StartInMemory(r) \/ RunnerStep(r) \/ Crash(r)
                          \/ SaveResult(r)
    \/ ClearCheckpoint
    \/ \E q \in wire : LoseRequest(q) \/ RefuseRequest(q) \/ AcceptRequest(q)
    \/ ReceiverStep

Spec == Init /\ [][Next]_vars

----------------------------------------------------------------------------
(* Properties *)

\* The checkpoint file, and the checkpoint any run continues from, never cover
\* an event the receiver has not durably stored (paced_runner and
\* checkpoint_store commit only after a 202 that follows the read-back).
CheckpointBehindReceiver ==
    \A e \in Events : (file >= e \/ \E r \in Runners : run[r].at >= e) => incidents[e] > 0

\* The requests of a process's last run that the receiver may still store.
MayStillAct(r) == { q \in wire \cup {op} : q # NoRequest /\ q.from = r /\ q.run = run[r].number }

\* What a run leaves behind at its end can change nothing the run has not told of:
\* it is of an event stored already, of the one reported as uncertain, or the
\* receiver's worker holds the request whose refusal the run ended on (a refusal -
\* 503, uncertain - does not say that the worker will not store it after all, and the
\* runner takes it for certain: paced_runner.py, event_outcome_uncertain;
\* fault_receiver.py, receive).
LeftoverIsReported ==
    \A r \in Runners : run[r].pc = "over" => \A q \in MayStillAct(r) :
        \/ incidents[q.seq] > 0
        \/ q.seq = run[r].uncertain
        \/ q = op /\ q = Pending(r) /\ run[r].answer = "refused"

\* Only clear_replay_checkpoint moves the file back.
CheckpointNeverRegresses ==
    file' >= file \/ (file' = 0 /\ lock = NoRunner /\ run' = run)

\* One process at a time writes the checkpoint: whoever saves holds the lock.
SaverHoldsLock == \A r \in Runners : run[r].saves /\ run[r].pc \in {"due", "sending", "receipt"}
                                      => lock = r

=============================================================================
