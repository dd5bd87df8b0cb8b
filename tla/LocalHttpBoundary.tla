------------------------- MODULE LocalHttpBoundary --------------------------
(* The assurance agent's local HTTP boundary: one admission slot in front of  *)
(* every request body, one worker thread for governance and fault operations, *)
(* caller deadlines that leave the operation running, the readiness probe and *)
(* the bounded shutdown.  A request is a POST or GET served by the worker or  *)
(* an A2A call served by the event loop; what an operation does is the        *)
(* business of LocalGovernance and FaultReceiver, here it just takes a while. *)
(*                                                                            *)
(* Three threads interleave: the event loop, the worker, and the one that     *)
(* closes the boundary.  The state lock makes each action below atomic.       *)
EXTENDS Naturals

CONSTANTS
    Posts,     \* governance and fault requests with a body
    Gets,      \* incident reads: admitted, no body
    Calls,     \* A2A calls
    MaxProbes, \* bound: readiness probes sent
    None       \* no request

\* What the constants must satisfy.
BoundaryAssumption == MaxProbes \in Nat /\ None \notin Posts \cup Gets \cup Calls

Requests == Posts \cup Gets \cup Calls

VARIABLES
    pc,        \* where the event loop is with each request
    answer,    \* what it was told
    lease,     \* LocalHttpRequestAdmission._active_token
    worker,    \* the worker thread: none, starting, ready (its loop is set), stopped
    inflight,  \* LocalBusinessOperationBoundary._inflight: whose future
    op,        \* each submitted coroutine: none, queued, running, done
    callbacks, \* futures that are done and whose _clear_inflight has not run
    closed,    \* _closed
    sawLoop,   \* history: close found a loop to stop
    stopping,  \* loop.stop has been scheduled
    reads,     \* readiness reads running in a thread
    waiting,   \* a readiness probe waits for its read
    probes     \* bound: probes sent

vars == <<pc, answer, lease, worker, inflight, op, callbacks, closed, sawLoop,
          stopping, reads, waiting, probes>>

serving == <<worker, inflight, op, callbacks, closed, sawLoop, stopping>>
probing == <<reads, waiting, probes>>

Init ==
    /\ pc = [r \in Requests |-> "new"] /\ answer = [r \in Requests |-> "none"]
    /\ lease = None /\ inflight = None /\ worker = "none"
    /\ op = [r \in Requests |-> "none"] /\ callbacks = {}
    /\ closed = FALSE /\ sawLoop = FALSE /\ stopping = FALSE
    /\ reads = 0 /\ waiting = FALSE /\ probes = 0

Unsettled(r) == op[r] \in {"queued", "running"}

(* is_busy                                                                    *)
Busy == inflight # None /\ Unsettled(inflight)

\* Mutant of AcceptingWork: the unknown outcome does not block admission.
AcceptingWorkAlways == ~closed

(* is_accepting_work                                                          *)
AcceptingWork == ~closed /\ ~Busy

(* The response is sent; the finally clause gives the lease back.             *)
Answer(r, a) == /\ pc' = [pc EXCEPT ![r] = "over"]
                /\ answer' = [answer EXCEPT ![r] = a]
                /\ lease' = IF lease = r THEN None ELSE lease

-----------------------------------------------------------------------------
(* Event loop: admission and the body.                                        *)

(* Host, peer, method, operation header, media type or length is wrong.       *)
RefuseHeaders(r) == pc[r] = "new" /\ Answer(r, "refused") /\ UNCHANGED <<serving, probing>>

(* try_acquire fails: another request holds the lease, or the worker is       *)
(* occupied or closed.                                                        *)
RefuseBusy(r) == /\ pc[r] = "new" /\ (lease # None \/ ~AcceptingWork)
                 /\ Answer(r, "busy") /\ UNCHANGED <<serving, probing>>

Admit(r) == /\ pc[r] = "new" /\ lease = None /\ AcceptingWork
            /\ lease' = r
            /\ pc' = [pc EXCEPT ![r] = IF r \in Gets THEN "submit" ELSE "reading"]
            /\ UNCHANGED <<answer, serving, probing>>

(* read_body: the body arrives and validates.                                 *)
ReadBody(r) == /\ pc[r] = "reading"
               /\ pc' = [pc EXCEPT ![r] = IF r \in Calls THEN "calling" ELSE "submit"]
               /\ UNCHANGED <<answer, lease, serving, probing>>

(* It passes its absolute deadline, is malformed, or the client goes away.    *)
RejectBody(r) == /\ pc[r] = "reading"
                 /\ \E a \in {"timeout", "invalid"} : Answer(r, a)
                 /\ UNCHANGED <<serving, probing>>

(* The A2A application returns; the lease spans the whole downstream call.    *)
ReturnCall(r) == /\ pc[r] = "calling" /\ Answer(r, "result") /\ UNCHANGED <<serving, probing>>

-----------------------------------------------------------------------------
(* Event loop: submission and the caller's deadline.                          *)

(* _ensure_worker: refuse when closed, start the thread if there is none.     *)
EnsureWorker(r) ==
    /\ pc[r] = "submit"
    /\ \/ closed /\ Answer(r, "busy") /\ UNCHANGED worker
       \/ /\ ~closed
          /\ worker' = IF worker = "none" THEN "starting" ELSE worker
          /\ pc' = [pc EXCEPT ![r] = "starting"] /\ UNCHANGED <<answer, lease>>
    /\ UNCHANGED <<inflight, op, callbacks, closed, sawLoop, stopping, probing>>

(* The worker did not report ready within the start timeout, or is gone.      *)
WorkerUnavailable(r) ==
    /\ pc[r] = "starting" /\ worker \in {"starting", "stopped"}
    /\ Answer(r, "busy") /\ UNCHANGED <<serving, probing>>

(* _submit finds the boundary closed or occupied after all.                   *)
SubmitRefused(r) == /\ pc[r] = "starting" /\ worker = "ready" /\ (closed \/ Busy)
                    /\ Answer(r, "busy") /\ UNCHANGED <<serving, probing>>

(* _submit: the future takes the slot, replacing one that is already done.    *)
Submit(r) == /\ pc[r] = "starting" /\ worker = "ready" /\ ~closed /\ ~Busy
             /\ op' = [op EXCEPT ![r] = "queued"]
             /\ inflight' = r
             /\ pc' = [pc EXCEPT ![r] = "waiting"]
             /\ UNCHANGED <<answer, lease, worker, callbacks, closed, sawLoop, stopping, probing>>

(* run: the future is done within the deadline.                               *)
DeliverResult(r) == /\ pc[r] = "waiting" /\ op[r] = "done"
                    /\ Answer(r, "result") /\ UNCHANGED <<serving, probing>>

\* Mutant of DeadlinePasses: the request waits on without answering.
DeadlineIgnored(r) == FALSE /\ UNCHANGED vars

(* run: the deadline passes first; the operation is left running.             *)
DeadlinePasses(r) == /\ pc[r] = "waiting" /\ op[r] # "done"
                     /\ Answer(r, "uncertain") /\ UNCHANGED <<serving, probing>>

(* The client goes away while the operation runs: the waiter is cancelled,    *)
(* the operation is not.                                                      *)
ClientGone(r) == /\ pc[r] = "waiting" /\ Answer(r, "gone") /\ UNCHANGED <<serving, probing>>

-----------------------------------------------------------------------------
(* Worker thread.                                                             *)

(* _worker_main has created its loop and set _ready.                          *)
WorkerReady == /\ worker = "starting" /\ worker' = "ready"
               /\ UNCHANGED <<pc, answer, lease, inflight, op, callbacks, closed, sawLoop,
                              stopping, probing>>

RunOperation(r) == /\ worker = "ready" /\ op[r] = "queued"
                   /\ op' = [op EXCEPT ![r] = "running"]
                   /\ UNCHANGED <<pc, answer, lease, worker, inflight, callbacks, closed,
                                  sawLoop, stopping, probing>>

(* The coroutine returns or raises: the future is done before its callbacks   *)
(* have run.                                                                  *)
FinishOperation(r) == /\ op[r] = "running"
                      /\ op' = [op EXCEPT ![r] = "done"]
                      /\ callbacks' = callbacks \cup {r}
                      /\ UNCHANGED <<pc, answer, lease, worker, inflight, closed, sawLoop,
                                     stopping, probing>>

(* _clear_inflight: only the future that holds the slot clears it, and stops  *)
(* the loop of a closed boundary.                                             *)
ClearInflight(r) ==
    /\ r \in callbacks
    /\ callbacks' = callbacks \ {r}
    /\ inflight' = IF inflight = r THEN None ELSE inflight
    /\ stopping' = (stopping \/ (closed /\ inflight = r))
    /\ UNCHANGED <<pc, answer, lease, worker, op, closed, sawLoop, probing>>

WorkerStops == /\ worker = "ready" /\ stopping /\ worker' = "stopped"
               /\ UNCHANGED <<pc, answer, lease, inflight, op, callbacks, closed, sawLoop,
                              stopping, probing>>

-----------------------------------------------------------------------------
(* Shutdown and readiness.                                                    *)

(* close: no new work; the loop is stopped now if nothing is unsettled, and   *)
(* by the completion callback otherwise.                                      *)
Close == /\ ~closed /\ closed' = TRUE
         /\ sawLoop' = (worker = "ready")
         /\ stopping' = (worker = "ready" /\ ~Busy)
         /\ UNCHANGED <<pc, answer, lease, worker, inflight, op, callbacks, probing>>

(* readyz: not ready while the worker is busy or an earlier read is running;  *)
(* otherwise one read in a thread.                                            *)
ProbeReads == /\ probes < MaxProbes /\ ~waiting /\ ~Busy /\ reads = 0
              /\ reads' = 1 /\ waiting' = TRUE /\ probes' = probes + 1
              /\ UNCHANGED <<pc, answer, lease, serving>>

(* The probe is answered: the read ended, or its timeout passed and the       *)
(* shielded read goes on.                                                     *)
ProbeAnswered == /\ waiting /\ waiting' = FALSE
                 /\ UNCHANGED <<pc, answer, lease, serving, reads, probes>>

(* _readiness_finished                                                        *)
ReadEnds == /\ reads > 0 /\ reads' = reads - 1
            /\ UNCHANGED <<pc, answer, lease, serving, waiting, probes>>

-----------------------------------------------------------------------------
LoopStep(r) == \/ RefuseHeaders(r) \/ RefuseBusy(r) \/ Admit(r) \/ ReadBody(r)
               \/ RejectBody(r) \/ ReturnCall(r) \/ EnsureWorker(r) \/ WorkerUnavailable(r)
               \/ SubmitRefused(r) \/ Submit(r) \/ DeliverResult(r)
               \/ DeadlinePasses(r)

Next == \/ \E r \in Requests : \/ LoopStep(r) \/ ClientGone(r)
                               \/ RunOperation(r) \/ FinishOperation(r) \/ ClearInflight(r)
        \/ WorkerReady \/ WorkerStops \/ Close
        \/ ProbeReads \/ ProbeAnswered \/ ReadEnds

Spec == Init /\ [][Next]_vars

-----------------------------------------------------------------------------
(* Properties.                                                                *)

(* At most one business operation is unsettled, whichever callers have timed  *)
(* out, gone away or been refused meanwhile (_submit, _clear_inflight).       *)
SingleFlight == \A r, q \in Requests : Unsettled(r) /\ Unsettled(q) => r = q

(* While an earlier operation's outcome is unknown, no other request is past  *)
(* admission: a retry is turned away before its body is read, and an A2A call *)
(* never runs beside a business operation (try_acquire, is_accepting_work).   *)
NothingBesideUnknownOutcome ==
    \A r, q \in Requests :
        (r # q /\ Unsettled(q)) => pc[r] \notin {"reading", "calling", "submit", "starting"}

(* A caller told busy, refused, timed out or invalid may retry at will:       *)
(* nothing of its request was or will be executed.                            *)
RefusedHasNoEffect ==
    \A r \in Requests : answer[r] \in {"refused", "busy", "timeout", "invalid"} => op[r] = "none"

=============================================================================
