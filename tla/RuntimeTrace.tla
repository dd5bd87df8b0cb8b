----------------------------- MODULE RuntimeTrace -----------------------------
(* tools/local-stack/run_runtime_trace_demo.py with telco_lab/local_trace.py:    *)
(* one replay and one analysis against an application served by a thread of the  *)
(* same process.  The sender and the server thread report into one               *)
(* RawEventCollector; the report is published only when its file holds exactly   *)
(* the six expected events and the work tree is gone.  Emission is best effort,  *)
(* requests time out while the server goes on, the server thread may outlive the *)
(* scenario, and other programs touch the files at any time.                     *)
EXTENDS Naturals, Sequences

CONSTANTS
    None,
    MaxFaults, \* bound: lost emissions, torn writes, timeouts, failed steps of the runner
    MaxOutside \* bound: steps of other programs

\* What the constants must satisfy.
TraceAssumption == MaxFaults \in Nat /\ MaxOutside \in Nat

\* _EXPECTED_OPERATIONS, by place; the sender emits the first and the fourth.
Expected == <<1, 2, 3, 4, 5, 6>>
TornLine == 0     \* a line of the file that is not the event it was meant to be
ForeignLine == 7  \* a line another program wrote

VARIABLES
    pc,
    thread,   \* "off", "up", "dead"
    request,  \* request in the server: None or the next event the server emits for it
    answered, \* the response of the last request has arrived
    events,   \* RawEventCollector.events
    file,     \* lines of the raw file
    closed, stamp, \* _closed; file length at close_and_validate stands for final_identity
    work,     \* the directory named work: own root or another's, and the files in it
    captured, \* files found by _capture_tree
    identity, \* work_identity is known
    err, reported, faults, outside

vars == <<pc, thread, request, answered, events, file, closed, stamp, work, captured, identity,
          err, reported, faults, outside>>

\* The files of the scenario: the generated fixture, the catalogue, the database.
OwnFiles == {"own"}
NoWork == [root |-> "none", files |-> {}]

Init ==
    /\ pc = "collector" /\ thread = "off" /\ request = None /\ answered = FALSE
    /\ events = <<>> /\ file = <<>> /\ closed = TRUE /\ stamp = None
    /\ work = NoWork /\ captured = {} /\ identity = FALSE
    /\ err = None /\ reported = FALSE /\ faults = 0 /\ outside = 0

Outcomes(bad) == {"ok"} \cup (IF faults < MaxFaults THEN bad ELSE {})
Charge(o) == faults' = IF o = "ok" THEN faults ELSE faults + 1
Raise(code) == err' = code /\ pc' = "finally"

\* emit_local_runtime_trace_event into RawEventCollector.__call__: a failure of
\* any kind is swallowed by the emitter.  A torn write leaves bytes in the file
\* and no event in memory.
Record(e, o) ==
    IF closed \/ o = "lost" THEN UNCHANGED <<events, file>>
    ELSE IF o = "torn" THEN file' = Append(file, TornLine) /\ UNCHANGED events
         ELSE events' = Append(events, e) /\ file' = Append(file, e)

Emit(e) == \E o \in Outcomes({"lost", "torn"}) : Record(e, o) /\ Charge(o)

----------------------------------------------------------------------------
(* the runner *)

OpenCollector ==
    /\ pc = "collector"
    /\ \E o \in Outcomes({"failed"}) :
        /\ Charge(o)
        /\ IF o = "ok" THEN closed' = FALSE /\ pc' = "mkwork" /\ UNCHANGED err
           ELSE Raise("trace_contract_failed") /\ UNCHANGED closed
    /\ UNCHANGED <<thread, request, answered, events, file, stamp, work, captured, identity, reported, outside>>

\* mkdir of the work directory, then its identity: the identity may be refused.
MakeWork ==
    /\ pc = "mkwork"
    /\ \E o \in Outcomes({"failed", "unidentified"}) :
        /\ Charge(o)
        /\ IF work.root # "none" \/ o = "failed"
           THEN Raise("command_failed") /\ UNCHANGED <<work, identity>>
           ELSE /\ work' = [root |-> "own", files |-> OwnFiles]
                /\ IF o = "ok" THEN identity' = TRUE /\ pc' = "serve" /\ UNCHANGED err
                   ELSE Raise("trace_contract_failed") /\ UNCHANGED identity
    /\ UNCHANGED <<thread, request, answered, events, file, closed, stamp, captured, reported, outside>>

\* _serve: a server that has not started within its deadline is asked to stop
\* and joined for five seconds, it may be left running.
Serve ==
    /\ pc = "serve"
    /\ \E o \in Outcomes({"late", "crashed"}) :
        /\ Charge(o)
        /\ thread' = IF o = "crashed" THEN "dead" ELSE "up"
        /\ IF o = "ok" THEN pc' = "send" /\ UNCHANGED err ELSE Raise("command_failed")
    /\ UNCHANGED <<request, answered, events, file, closed, stamp, work, captured, identity, reported, outside>>

Send ==
    /\ pc = "send" /\ request' = 2 /\ answered' = FALSE /\ pc' = "replayed"
    /\ Emit(1)
    /\ UNCHANGED <<thread, closed, stamp, work, captured, identity, err, reported, outside>>

\* The response acknowledges the delivery; the replay is never retried.
Acknowledge ==
    /\ pc = "replayed" /\ answered
    /\ pc' = "ask" /\ Emit(4)
    /\ UNCHANGED <<thread, request, answered, closed, stamp, work, captured, identity, err, reported, outside>>

Analyze ==
    /\ pc = "ask" /\ request' = 5 /\ answered' = FALSE /\ pc' = "asked"
    /\ UNCHANGED <<thread, events, file, closed, stamp, work, captured, identity, err, reported, faults, outside>>

Result ==
    /\ pc = "asked" /\ answered /\ pc' = "unserve"
    /\ UNCHANGED <<thread, request, answered, events, file, closed, stamp, work, captured, identity, err, reported, faults, outside>>

\* The deadline of a request passes, or the response is not the expected one;
\* the context manager still stops the server.
RequestFails ==
    /\ pc \in {"replayed", "asked"} /\ faults < MaxFaults
    /\ faults' = faults + 1 /\ err' = "trace_contract_failed" /\ pc' = "unserve"
    /\ UNCHANGED <<thread, request, answered, events, file, closed, stamp, work, captured, identity, reported, outside>>

\* should_exit, join, force_exit, join; a thread still alive is an error.
StopServer ==
    /\ pc = "unserve"
    /\ \E o \in Outcomes({"alive"}) :
        /\ Charge(o)
        /\ thread' = IF o = "ok" THEN "dead" ELSE thread
        /\ IF o # "ok" THEN Raise("command_failed")
           ELSE pc' = (IF err = None THEN "close" ELSE "finally") /\ UNCHANGED err
    /\ UNCHANGED <<request, answered, events, file, closed, stamp, work, captured, identity, reported, outside>>

\* close_and_validate under the lock of the collector.
CloseAndValidate ==
    /\ pc = "close"
    /\ IF file = events
       THEN /\ closed' = TRUE /\ stamp' = Len(file) /\ pc' = "capture" /\ UNCHANGED err
       ELSE /\ closed' = TRUE /\ stamp' = stamp /\ Raise("trace_contract_failed")
    /\ UNCHANGED <<thread, request, answered, events, file, work, captured, identity, reported, faults, outside>>

\* _remove_owned_tree, on success and again in the finally block: the root must
\* be the one created, the files removed are the ones found by _capture_tree.
Capture ==
    /\ pc \in {"capture", "capture2"}
    /\ IF work.root = "none" THEN pc' = IF pc = "capture" THEN "validate" ELSE "done"
       ELSE pc' = IF work.root = "own" /\ identity THEN (IF pc = "capture" THEN "remove" ELSE "remove2")
                  ELSE IF pc = "capture" THEN "finally" ELSE "done"
    /\ captured' = work.files
    /\ err' = IF work.root # "none" /\ ~(work.root = "own" /\ identity) THEN "cleanup_failed" ELSE err
    /\ UNCHANGED <<thread, request, answered, events, file, closed, stamp, work, identity, reported, faults, outside>>

\* Mutant of Doomed: everything found under the root goes.
DoomedAll == work.files

\* The files to unlink are those of the manifest.
Doomed == captured

Remove ==
    /\ pc \in {"remove", "remove2"}
    /\ \E o \in Outcomes({"failed"}) :
        LET left == IF work.root = "own" /\ o = "ok" THEN work.files \ Doomed ELSE work.files
            gone == work.root = "own" /\ o = "ok" /\ left = {}
        IN /\ Charge(o)
           /\ work' = IF work.root = "none" THEN work ELSE IF gone THEN NoWork ELSE [work EXCEPT !.files = left]
           /\ pc' = IF pc = "remove" THEN (IF gone THEN "validate" ELSE "finally") ELSE "done"
           /\ err' = IF gone THEN err ELSE "cleanup_failed"
    /\ UNCHANGED <<thread, request, answered, events, file, closed, stamp, captured, identity, reported, outside>>

\* The tables read before and after the analysis and the durable incident, its
\* audit and its association: they bind the trace, or they do not.
Bindings == Outcomes({"unbound"})

\* _validate_and_summarize: the six events in order, and the bindings.
Validate ==
    /\ pc = "validate"
    /\ \E o \in Bindings :
        /\ Charge(o)
        /\ IF o = "ok" /\ events = Expected THEN pc' = "report" /\ UNCHANGED err
           ELSE Raise("trace_contract_failed")
    /\ UNCHANGED <<thread, request, answered, events, file, closed, stamp, work, captured, identity, reported, outside>>

\* The raw file still is the one closed, with six lines.
RawUnchanged == Len(file) = stamp

\* _write_report, then both files are read again.
WriteReport ==
    /\ pc = "report"
    /\ \E o \in Outcomes({"failed"}) :
        /\ Charge(o)
        /\ IF o = "ok" /\ RawUnchanged
           THEN reported' = TRUE /\ pc' = "done" /\ UNCHANGED err
           ELSE Raise("report_write_failed") /\ UNCHANGED reported
    /\ UNCHANGED <<thread, request, answered, events, file, closed, stamp, work, captured, identity, outside>>

\* finally: close_safely, then the work tree if it is still there.
Finally ==
    /\ pc = "finally" /\ closed' = TRUE
    /\ pc' = IF work.root = "none" THEN "done" ELSE "capture2"
    /\ UNCHANGED <<thread, request, answered, events, file, stamp, work, captured, identity, err, reported, faults, outside>>

----------------------------------------------------------------------------
(* the server thread and other programs *)

\* Each request makes the server emit two events and answer.
ServerEmits ==
    /\ thread = "up" /\ request \in {2, 3, 5, 6}
    /\ Emit(request)
    /\ request' = IF request \in {2, 5} THEN request + 1 ELSE None
    /\ answered' = (request \in {3, 6})
    /\ UNCHANGED <<pc, thread, closed, stamp, work, captured, identity, err, reported, outside>>

\* A server still running writes into its work directory.
ServerWrites ==
    /\ thread = "up" /\ work.root = "own" /\ pc \in {"finally", "capture2", "remove2"}
    /\ work' = [work EXCEPT !.files = @ \cup {"late"}]
    /\ UNCHANGED <<pc, thread, request, answered, events, file, closed, stamp, captured, identity, err, reported, faults, outside>>

\* Another program replaces the work directory, adds a file to it or appends to
\* the raw file.
Outside ==
    /\ pc \notin {"done", "collector"} /\ outside < MaxOutside /\ outside' = outside + 1
    /\ \/ work' = [root |-> "foreign", files |-> {"foreign"}] /\ UNCHANGED file
       \/ work.root = "own" /\ work' = [work EXCEPT !.files = @ \cup {"foreign"}] /\ UNCHANGED file
       \/ file' = Append(file, ForeignLine) /\ UNCHANGED work
    /\ UNCHANGED <<pc, thread, request, answered, events, closed, stamp, captured, identity, err, reported, faults>>

Next ==
    \/ OpenCollector \/ MakeWork \/ Serve \/ Send \/ Acknowledge \/ Analyze \/ Result
    \/ RequestFails \/ StopServer \/ CloseAndValidate \/ Capture \/ Remove \/ Validate
    \/ WriteReport \/ Finally \/ ServerEmits \/ ServerWrites \/ Outside

Spec == Init /\ [][Next]_vars

----------------------------------------------------------------------------
(* Properties *)

\* What a published report claims: six events in the expected order, the file
\* holds exactly them, the server has ended and nothing of the run is left.
ReportIsTheRun ==
    reported => events = Expected /\ file = Expected /\ work.root # "own" /\ thread = "dead"

\* A run that ends with its own work tree in place says cleanup_failed,
\* whatever went wrong before.
LeftoverIsCleanupFailed ==
    pc = "done" /\ work.root = "own" => err = "cleanup_failed"

\* A file that came after the tree was captured, from another program or from a
\* server that would not stop, is not removed with it, and neither is a
\* directory that is not the runner's.
OnlyCapturedRemoved ==
    outside' = outside =>
      /\ work.files \ work'.files \subseteq captured
      /\ work.root = "foreign" => work' = work
=============================================================================
