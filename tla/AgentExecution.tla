---------------------------- MODULE AgentExecution ----------------------------
(* lib/agent_library/agentmiddleware: adk.py runs an agent in a background task    *)
(* per request and streams its events, session_manager.py keeps the sessions the   *)
(* threads of the user interface map to, execution_state.py is one execution.      *)
(*                                                                                 *)
(* Coroutines of one event loop switch only where they suspend: at a yield to the  *)
(* consumer, at the queue, and when they await another task.  The session and      *)
(* memory services are the in-memory ones every agent of the repository uses;      *)
(* their coroutines do not suspend, so what happens between two yields is a step.  *)
EXTENDS Naturals, Sequences, FiniteSets

CONSTANTS
    Runs,           \* requests, each with the execution it may start
    Threads,        \* threads of the user interface, which are the sessions
    Home,           \* bound: the thread a request is for when it answers no tool call
    None,
    MaxConcurrent,  \* max_concurrent_executions
    Slow,           \* bound: the requests whose execution may outlive its timeout
    MaxDisturbances \* bound: expiries, disconnects and shutdowns

\* What the constants must satisfy.
ExecutionAssumption == /\ MaxConcurrent \in Nat \ {0}
                       /\ MaxDisturbances \in Nat
                       /\ Slow \subseteq Runs
                       /\ Home \in [Runs -> Threads]
                       /\ None \notin Runs \cup Threads \cup (Runs \X {"encoded", "raw"})

VARIABLES
    pc,         \* of the request: "idle", "started", "waiting", "streaming", "ending", "closed"
    thread,     \* the thread a request is for
    waitingFor, \* the execution whose task it awaits
    answers,    \* the pending call a request continues, None for a client request
    shown,      \* the events yielded to the consumer that matter: "started", "error", "finished"
    calls,      \* tool_call_ids, the calls shown and not settled
    task,       \* "none", "created", "running", "done", "cancelled"
    queue,      \* event_queue of the execution
    kind,       \* the tool the execution called
    complete,   \* is_complete
    aged,       \* the execution is older than the execution timeout
    active,     \* _active_executions
    session,    \* threads whose session exists
    fresh,      \* sessions younger than the session timeout
    pending,    \* pending_tool_calls of the session, with their names
    disturbed

requests == <<pc, thread, waitingFor, answers, shown, calls>>
executions == <<task, queue, kind, complete, aged>>
sessions == <<session, fresh, pending>>
vars == <<requests, executions, active, sessions, disturbed>>

Streaming(t) == { r \in Runs : thread[r] = t /\ pc[r] = "streaming" }
Alive == { r \in Runs : task[r] \in {"created", "running"} }
Registered == { t \in Threads : active[t] # None }

Init == /\ pc = [r \in Runs |-> "idle"]
        /\ thread = [r \in Runs |-> None]
        /\ waitingFor = [r \in Runs |-> None]
        /\ answers = [r \in Runs |-> None]
        /\ shown = [r \in Runs |-> {}]
        /\ calls = [r \in Runs |-> {}]
        /\ task = [r \in Runs |-> "none"]
        /\ queue = [r \in Runs |-> <<>>]
        /\ kind = [r \in Runs |-> "none"]
        /\ complete = [r \in Runs |-> FALSE]
        /\ aged = [r \in Runs |-> FALSE]
        /\ active = [t \in Threads |-> None]
        /\ session = {} /\ fresh = {}
        /\ pending = [t \in Threads |-> {}]
        /\ disturbed = 0
-------------------------------------------------------------------------------
(* The identifier of a call: the translator encodes the thread into the one it    *)
(* shows with the call, the response carries the one of the agent framework.      *)
Encoded(r) == <<r, "encoded">>
Raw(r) == <<r, "raw">>

\* RUN_STARTED goes to the consumer before anything else is done.
Begin(r, t, id) ==
    /\ pc[r] = "idle"
    /\ pc' = [pc EXCEPT ![r] = "started"]
    /\ thread' = [thread EXCEPT ![r] = t]
    /\ answers' = [answers EXCEPT ![r] = id]
    /\ shown' = [shown EXCEPT ![r] = {"started"}]
    /\ UNCHANGED <<waitingFor, calls, executions, active>>

\* A client request; one with a tool message is refused before it begins.
run(r, t) ==
    /\ t = Home[r]
    /\ Begin(r, t, None)
    /\ UNCHANGED <<sessions, disturbed>>

\* The state of a session: nothing is read from one that is gone, and nothing stored in it.
get_state_value(t) == IF t \in session THEN pending[t] ELSE {}
update_session_state(t, v) == pending' = [pending EXCEPT ![t] = IF t \in session THEN v ELSE @]

get_or_create_session(t) == session' = session \cup {t} /\ fresh' = fresh \cup {t}

is_pending_tool_call(t, id) == id \in get_state_value(t)

\* Mutant of _remove_pending_tool_call: the list is changed but not stored.
NotStored(t, id) == UNCHANGED pending

_remove_pending_tool_call(t, id) == update_session_state(t, get_state_value(t) \ {id})

\* The one tool message is for this call, and the call names the thread.
TrustedAnswer(t, id) == thread[id[1]] = t /\ id = Encoded(id[1])

(* The answer to a call is accepted if exactly this call is pending in the thread *)
(* it names, with a name; the call is consumed before the continuation begins.    *)
handle_tool_result(r, id) ==
    \E t \in Threads :
        /\ TrustedAnswer(t, id)
        /\ is_pending_tool_call(t, id)
        /\ _remove_pending_tool_call(t, id)
        /\ fresh' = fresh \cup {t}
        /\ Begin(r, t, id)
        /\ UNCHANGED <<session, disturbed>>
-------------------------------------------------------------------------------
(* _cleanup_stale_executions, at the limit only: aged executions leave the        *)
(* registry and their tasks are cancelled; the lock is held until they ended.     *)
StaleThreads == { t \in Registered : aged[active[t]] }

Cancelled(ended) == [r \in Runs |-> IF r \in ended \cap Alive THEN "cancelled" ELSE task[r]]
Completed(ended) == [r \in Runs |-> complete[r] \/ r \in ended]

AtLimit == Cardinality(Registered) >= MaxConcurrent

\* The registry after the limit check.
Kept == IF AtLimit THEN [t \in Threads |-> IF t \in StaleThreads THEN None ELSE active[t]] ELSE active

(* _start_background_execution: the execution is created and registered, whatever *)
(* the registry holds for the thread by then.                                     *)
StartBackground(r, registry) ==
    /\ pc' = [pc EXCEPT ![r] = "streaming"]
    /\ active' = [registry EXCEPT ![thread[r]] = r]

CheckLimit(r) ==
    LET ended == { active[t] : t \in { u \in Threads : Kept[u] # active[u] } }
        existing == Kept[thread[r]]
        unfinished == existing # None /\ ~complete[existing]
    IN
    /\ pc[r] = "started"
    /\ complete' = Completed(ended)
    /\ \/ /\ Cardinality({ t \in Threads : Kept[t] # None }) >= MaxConcurrent
          /\ pc' = [pc EXCEPT ![r] = "ending"]
          /\ shown' = [shown EXCEPT ![r] = @ \cup {"error"}]
          /\ active' = Kept
          /\ task' = Cancelled(ended)
          /\ UNCHANGED waitingFor
       \/ /\ Cardinality({ t \in Threads : Kept[t] # None }) < MaxConcurrent
          /\ \/ /\ unfinished
                /\ waitingFor' = [waitingFor EXCEPT ![r] = existing]
                /\ pc' = [pc EXCEPT ![r] = "waiting"]
                /\ active' = Kept
                /\ task' = Cancelled(ended)
             \/ /\ ~unfinished
                /\ StartBackground(r, Kept)
                /\ task' = [Cancelled(ended) EXCEPT ![r] = "created"]
                /\ UNCHANGED waitingFor
          /\ UNCHANGED shown
    /\ UNCHANGED <<thread, answers, calls, queue, kind, aged, sessions, disturbed>>

(* The task awaited has ended.  Its cancellation is also the waiter's, which ends  *)
(* without a word: CancelledError is no Exception.                                 *)
AwaitExisting(r) ==
    /\ pc[r] = "waiting"
    /\ \/ /\ task[waitingFor[r]] = "done"
          /\ StartBackground(r, active)
          /\ task' = [task EXCEPT ![r] = "created"]
       \/ /\ task[waitingFor[r]] = "cancelled"
          /\ pc' = [pc EXCEPT ![r] = "ending"]
          /\ UNCHANGED <<active, task>>
    /\ waitingFor' = [waitingFor EXCEPT ![r] = None]
    /\ UNCHANGED <<thread, answers, shown, calls, queue, kind, complete, aged, sessions, disturbed>>

\* A queue nobody reads any more is not kept.
Emit(r, events) == queue' = IF pc[r] = "streaming" THEN [queue EXCEPT ![r] = @ \o events] ELSE queue

\* get_or_create_session; a session that expired meanwhile is made anew.
_ensure_session_exists(r) ==
    /\ task[r] = "created"
    /\ task' = [task EXCEPT ![r] = "running"]
    /\ get_or_create_session(thread[r])
    /\ UNCHANGED <<requests, queue, kind, complete, aged, active, pending, disturbed>>

\* A tool of the agent: the call and its response, as the translator shows them.
BackendTool(r) ==
    /\ task[r] = "running" /\ kind[r] = "none"
    /\ kind' = [kind EXCEPT ![r] = "backend"]
    /\ Emit(r, <<[type |-> "call", id |-> Encoded(r)], [type |-> "result", id |-> Raw(r)]>>)
    /\ UNCHANGED <<requests, task, complete, aged, active, sessions, disturbed>>

\* A tool of the client: the run stops with no completion signal.
ClientTool(r) ==
    /\ task[r] = "running" /\ kind[r] = "none"
    /\ kind' = [kind EXCEPT ![r] = "client"]
    /\ Emit(r, <<[type |-> "call", id |-> Encoded(r)]>>)
    /\ task' = [task EXCEPT ![r] = "done"]
    /\ UNCHANGED <<requests, complete, aged, active, sessions, disturbed>>

_run_adk_in_background(r) ==
    /\ task[r] = "running"
    /\ task' = [task EXCEPT ![r] = "done"]
    /\ \/ Emit(r, <<[type |-> "end", id |-> None]>>)
       \/ Emit(r, <<[type |-> "error", id |-> None], [type |-> "end", id |-> None]>>)
    /\ UNCHANGED <<requests, kind, complete, aged, active, sessions, disturbed>>
-------------------------------------------------------------------------------
\* The calls known after an event: a call shown is added, its result removes it.
Track(known, e) ==
    IF e.type = "call" THEN known \cup {e.id} ELSE IF e.type = "result" THEN known \ {e.id} ELSE known

_stream_events(r) ==
    /\ pc[r] = "streaming" /\ queue[r] # <<>> /\ Head(queue[r]).type # "end"
    /\ queue' = [queue EXCEPT ![r] = Tail(@)]
    /\ calls' = [calls EXCEPT ![r] = Track(@, Head(queue[r]))]
    /\ shown' = [shown EXCEPT ![r] = @ \cup (IF Head(queue[r]).type = "error" THEN {"error"} ELSE {})]
    /\ UNCHANGED <<pc, thread, waitingFor, answers, task, kind, complete, aged, active, sessions, disturbed>>

(* _add_pending_tool_call_with_context: nothing is stored in a session that is    *)
(* gone.                                                                          *)
StorePending(r) == update_session_state(thread[r], get_state_value(thread[r]) \cup calls[r])

\* The stream is over: what it left open becomes pending before RUN_FINISHED.
StreamOver(r, error) ==
    /\ StorePending(r)
    /\ fresh' = IF calls[r] # {} /\ thread[r] \in session THEN fresh \cup {thread[r]} ELSE fresh
    /\ shown' = [shown EXCEPT ![r] = @ \cup error \cup {"finished"}]
    /\ pc' = [pc EXCEPT ![r] = "ending"]
    /\ UNCHANGED <<thread, waitingFor, answers, calls, task, kind, aged, active, session, disturbed>>

StreamEnd(r) ==
    /\ pc[r] = "streaming" /\ queue[r] # <<>> /\ Head(queue[r]).type = "end"
    /\ queue' = [queue EXCEPT ![r] = <<>>]
    /\ complete' = [complete EXCEPT ![r] = TRUE]
    /\ StreamOver(r, {})

\* Mutant of is_stale: an execution never times out.
NeverStale(r) == FALSE

is_stale(r) == aged[r]

\* The task was cancelled: its result raises CancelledError, which is no Exception,
\* through the stream.  Nothing becomes pending and no end is shown.
StreamBroken(r) ==
    /\ pc' = [pc EXCEPT ![r] = "ending"]
    /\ UNCHANGED <<thread, waitingFor, answers, shown, calls, task, kind, aged, active, sessions,
                   disturbed>>

\* A second without events: an aged execution is given up, its task runs on.
StreamTimeout(r) ==
    /\ pc[r] = "streaming" /\ queue[r] = <<>>
    /\ \/ /\ is_stale(r)
          /\ UNCHANGED complete
          /\ StreamOver(r, {"error"})
       \/ /\ ~is_stale(r)
          /\ complete' = [complete EXCEPT ![r] = TRUE]
          /\ \/ task[r] = "done" /\ StreamOver(r, {})
             \/ task[r] = "cancelled" /\ StreamBroken(r)
    /\ UNCHANGED queue

Disturb == disturbed < MaxDisturbances /\ disturbed' = disturbed + 1

\* The consumer goes away at an event it was given.
Abandon(r) ==
    /\ pc[r] \in {"started", "streaming"}
    /\ Disturb
    /\ pc' = [pc EXCEPT ![r] = "ending"]
    /\ queue' = [queue EXCEPT ![r] = <<>>]
    /\ UNCHANGED <<thread, waitingFor, answers, shown, calls, task, kind, complete, aged, active, sessions>>

_has_pending_tool_calls(t) == get_state_value(t) # {}

(* The registration of the thread, of whichever execution, is marked complete and  *)
(* removed unless calls are pending.                                               *)
Finally(r) ==
    /\ pc[r] = "ending"
    /\ pc' = [pc EXCEPT ![r] = "closed"]
    /\ LET t == thread[r] IN
       /\ complete' = Completed({active[t]})
       /\ active' = [active EXCEPT ![t] = IF _has_pending_tool_calls(t) THEN @ ELSE None]
    /\ UNCHANGED <<thread, waitingFor, answers, shown, calls, task, queue, kind, aged, sessions, disturbed>>

-------------------------------------------------------------------------------
\* The clock.  The execution timeout is half of the session timeout.
Age(r) ==
    /\ r \in Slow /\ ~aged[r]
    /\ r \in Alive \/ pc[r] = "streaming" \/ \E t \in Threads : active[t] = r
    /\ aged' = [aged EXCEPT ![r] = TRUE]
    /\ UNCHANGED <<requests, task, queue, kind, complete, active, sessions, disturbed>>

Expire(t) ==
    /\ t \in fresh /\ Streaming(t) = {}
    /\ Disturb
    /\ fresh' = fresh \ {t}
    /\ UNCHANGED <<requests, executions, active, session, pending>>

\* _cleanup_expired_sessions: executions are not asked, pending calls are.
Expired == { t \in session \ fresh : pending[t] = {} }

_cleanup_expired_sessions ==
    /\ Expired # {}
    /\ session' = session \ Expired
    /\ pending' = [t \in Threads |-> IF t \in Expired THEN {} ELSE pending[t]]
    /\ UNCHANGED <<requests, executions, active, fresh, disturbed>>

\* close: every registered execution is cancelled and forgotten.
close ==
    /\ Registered # {}
    /\ Disturb
    /\ task' = Cancelled({ active[t] : t \in Registered })
    /\ complete' = Completed({ active[t] : t \in Registered })
    /\ active' = [t \in Threads |-> None]
    /\ UNCHANGED <<requests, queue, kind, aged, sessions>>

RunStep(r) ==
    \/ CheckLimit(r) \/ AwaitExisting(r)
    \/ _stream_events(r) \/ StreamEnd(r) \/ StreamTimeout(r) \/ Finally(r)

TaskStep(r) == _ensure_session_exists(r) \/ BackendTool(r) \/ ClientTool(r) \/ _run_adk_in_background(r)

Next ==
    \/ \E r \in Runs : \/ \E t \in Threads : run(r, t)
                       \/ \E o \in Runs : handle_tool_result(r, Encoded(o))
                       \/ RunStep(r) \/ TaskStep(r) \/ Age(r) \/ Abandon(r)
    \/ \E t \in Threads : Expire(t)
    \/ _cleanup_expired_sessions
    \/ close

Spec == Init /\ [][Next]_vars

-------------------------------------------------------------------------------
(* An answer continues a call the server showed in the same thread and recorded   *)
(* pending, and no call is continued twice, however the answers race each other   *)
(* (adk.py, handle_tool_result).                                                  *)
AnswerContinuesOnce ==
    \A r \in Runs : answers[r] # None =>
        LET caller == answers[r][1] IN
        /\ thread[caller] = thread[r]
        /\ "finished" \in shown[caller]
        /\ \A o \in Runs \ {r} : answers[o] # answers[r]

(* A call whose run was reported finished stays answerable until its answer comes: *)
(* it is pending before RUN_FINISHED is seen, and neither a timeout, the session   *)
(* cleanup nor another run of the thread loses it (adk.py:799,                     *)
(* session_manager.py:652).                                                        *)
FinishedCallIsAnswerable ==
    \A r \in Runs : "finished" \in shown[r] =>
        \A id \in calls[r] :
            \/ is_pending_tool_call(thread[r], id)
            \/ \E o \in Runs : answers[o] = id

(* An idle thread holds a place among the concurrent executions only while a call  *)
(* is pending in its session: no failure, refusal, timeout, cancellation or        *)
(* disconnect leaks the place (adk.py:833, the finally of _start_new_execution).   *)
(* Pending calls are not all to be answered: the call of a backend tool is shown   *)
(* under one identifier and its result under another, so it stays pending too.     *)
IdlePlaceAwaitsAnswer ==
    \A t \in Registered :
        (\A r \in Runs : thread[r] = t => pc[r] = "closed") => _has_pending_tool_calls(t)

===============================================================================
