---------------------------- MODULE SupervisorTask ----------------------------
(* supervisor/src/agent: one conversation of the supervisor with its remote       *)
(* agents.  The model of the supervisor (the LLM) decides when send_task and the  *)
(* approval tool are called; host_agent.py decides what a call may do, from the   *)
(* state it holds for the conversation; remote_agent_connection.py follows the    *)
(* stream of the remote agent, which may send anything.  Sessions are in memory,  *)
(* so a call of send_task suspends only while it waits for the stream.  More than *)
(* one run may be under way: calls made in parallel, or a run that went on after  *)
(* its execution timed out (AgentExecution).                                      *)
(*                                                                                *)
(* send_task writes the state twice: with updateState, at once, and into the      *)
(* state of its tool context, which the agent framework applies when the call     *)
(* returned, over whatever was written meanwhile.                                 *)
EXTENDS Naturals, Sequences

CONSTANTS
    Sockets, Runs, None,
    MaxSends,  \* bound: streams opened
    MaxCalls   \* bound: approvals asked for

\* What the constants must satisfy; None is no agent, no state of a task and no number.
SupervisorAssumption ==
    /\ None \notin Sockets \cup {"assurance", "other", "submitted", "working", "input_required",
                                 "input_needed"}
    /\ None \notin Nat
    /\ MaxSends \in Nat /\ MaxCalls \in Nat

VARIABLES
    session,  \* the state held for the conversation
    sockets,  \* sio_sessions
    owner,    \* UiThreadOwnership: the socket that owns the thread
    calls,    \* the approval calls the user has not answered
    lock,     \* _tool_result_locks: the run that continues from an answer
    run,      \* "idle", "thinking" (the LLM), "streaming" or "returned"
    delta,    \* what the call of send_task wrote to tool_context.state
    stream,   \* RemoteStreamStateMachine and what send_task holds while it waits
    tasks,    \* the agent of each remote task, by number
    pages,    \* the remote task of each candidate page, by number
    shown,    \* per approval call, what awaited it: a page, 0 (another agent) or None
    accepted, \* the decisions handleToolResult recorded
    sent,     \* the confirmations sent, in order
    opened    \* streams, counted

vars == <<session, sockets, owner, calls, lock, run, stream, delta, tasks, pages, shown, accepted,
          sent, opened>>
remote == <<tasks, pages>>
user == <<sockets, owner, calls, lock, shown, accepted>>
calling == <<stream, delta>>

Empty == [agent |-> None, status |-> None, task |-> None, page |-> None, trusted |-> None]

Init == /\ session = Empty
        /\ sockets = {} /\ owner = None
        /\ calls = {} /\ lock = None
        /\ run = [r \in Runs |-> "idle"] /\ stream = [r \in Runs |-> None]
        /\ delta = [r \in Runs |-> None]
        /\ tasks = <<>> /\ pages = <<>>
        /\ shown = <<>> /\ accepted = {} /\ sent = <<>> /\ opened = 0

\* UiThreadOwnership: the first socket that speaks on the thread owns it until it leaves.
Owns(s) == owner = s
MayBind(s) == owner = None \/ Owns(s)

updateState(fields) == session' = [f \in DOMAIN session |-> IF f \in DOMAIN fields THEN fields[f] ELSE session[f]]
-------------------------------------------------------------------------------
register_socket(s) ==
    /\ s \notin sockets
    /\ sockets' = sockets \cup {s}
    /\ UNCHANGED <<session, owner, calls, lock, run, calling, remote, shown, accepted, sent, opened>>

\* The lock of a thread goes with its owner, whoever holds it.
remove_socket(s) ==
    /\ s \in sockets
    /\ sockets' = sockets \ {s}
    /\ owner' = IF Owns(s) THEN None ELSE owner
    /\ lock' = IF Owns(s) THEN None ELSE lock
    /\ UNCHANGED <<session, calls, run, calling, remote, shown, accepted, sent, opened>>

\* The thread is bound to the socket, then the supervisor thinks.
run_agui(s, r) ==
    /\ MayBind(s)
    /\ owner' = s
    /\ run' = [run EXCEPT ![r] = "thinking"]

\* A message of the user.
agui_message(s, r) ==
    /\ s \in sockets /\ run[r] = "idle"
    /\ run_agui(s, r)
    /\ UNCHANGED <<session, sockets, calls, lock, calling, remote, shown, accepted, sent, opened>>

Rest(r) == /\ run' = [run EXCEPT ![r] = "idle"]
           /\ lock' = IF lock = r THEN None ELSE lock

\* The supervisor has answered, or its execution is cancelled: what a call wrote to
\* the state of its context and did not return is lost.
EndRun(r) ==
    /\ run[r] # "idle"
    /\ Rest(r)
    /\ stream' = [stream EXCEPT ![r] = None]
    /\ delta' = [delta EXCEPT ![r] = None]
    /\ UNCHANGED <<session, sockets, owner, calls, remote, shown, accepted, sent, opened>>

\* The approval tool is the client's: asking ends the run.
RequestTaskApproval(r) ==
    /\ run[r] = "thinking" /\ Len(shown) < MaxCalls
    /\ calls' = calls \cup {Len(shown) + 1}
    /\ shown' = Append(shown, IF session.status # "input_needed" THEN None
                              ELSE IF session.agent = "assurance" THEN session.page ELSE 0)
    /\ Rest(r)
    /\ UNCHANGED <<session, sockets, owner, calling, remote, accepted, sent, opened>>
-------------------------------------------------------------------------------
\* The answer to call c, bound to the page the server holds.
TrustedDecision(c, approved) == [call |-> c, approved |-> approved, page |-> session.page]

(* _build_trusted_assurance_decision: the decision an answer to call c stands for, *)
(* None when another agent is active, nothing when it is refused.  One that was    *)
(* recorded before is returned again, if it is for this call and answer.           *)
Decisions(c, approved) ==
    IF session.agent # "assurance" THEN {None}
    ELSE IF session.status # "input_needed" \/ session.page = None THEN {}
    ELSE LET new == TrustedDecision(c, approved)
         IN IF session.trusted \in {None, new} THEN {new} ELSE {}

\* The answer is recorded, then the call is consumed, then the run continues from it.
Record(d) ==
    /\ updateState(IF d = None THEN <<>> ELSE [trusted |-> d])
    /\ accepted' = accepted \cup ({d} \ {None})

handleToolResult(s, c, approved, r) ==
    /\ lock = None /\ Owns(s) /\ c \in calls
    /\ \E d \in Decisions(c, approved) : Record(d)
    /\ calls' = calls \ {c}
    /\ run[r] = "idle"
    /\ run' = [run EXCEPT ![r] = "thinking"]
    /\ lock' = r
    /\ UNCHANGED <<sockets, owner, calling, remote, shown, sent, opened>>

\* The continuation fails to start, before or after the call is consumed.
ToolResultFails(s, c, approved) ==
    /\ lock = None /\ Owns(s) /\ c \in calls
    /\ \E d \in Decisions(c, approved) : Record(d)
    /\ calls' \in {calls, calls \ {c}}
    /\ UNCHANGED <<sockets, owner, lock, run, calling, remote, shown, sent, opened>>
-------------------------------------------------------------------------------
\* send_task: the thread has a socket, and an active task is of this agent.
Routable(agent) == owner # None /\ (session.task # None => session.agent \in {None, agent})

\* The machine that follows the stream of this call, bound to the active task if there is one.
NewMachine(agent) ==
    [agent |-> agent, task |-> session.task, continues |-> session.task # None, content |-> "none",
     state |-> IF session.task # None /\ session.status = "input_needed" THEN "input_required" ELSE None]

Open(r, agent) ==
    /\ run[r] = "thinking" /\ opened < MaxSends
    /\ opened' = opened + 1
    /\ run' = [run EXCEPT ![r] = "streaming"]
    /\ stream' = [stream EXCEPT ![r] = NewMachine(agent)]
    /\ delta' = [delta EXCEPT ![r] = [agent |-> agent, status |-> "running"]]

SendScan(r) ==
    /\ session.task = None /\ Routable("assurance")
    /\ Open(r, "assurance")
    /\ updateState([agent |-> "assurance", status |-> "running", page |-> None, trusted |-> None])
    /\ UNCHANGED <<user, remote, sent>>

\* What is sent: the decision, the page it was made on and the task of the session.
ConfirmationRequest ==
    [call |-> session.trusted.call, approved |-> session.trusted.approved,
     page |-> session.trusted.page, task |-> session.task]

\* The recorded decision must be the one the pending page yields.
SendConfirmation(r) ==
    /\ session.task # None /\ Routable("assurance")
    /\ session.status = "input_needed" /\ session.page # None
    /\ session.trusted # None /\ session.trusted.page = session.page
    /\ Open(r, "assurance")
    /\ sent' = Append(sent, ConfirmationRequest)
    /\ updateState([status |-> "running"])
    /\ UNCHANGED <<user, remote>>

SendText(r) ==
    /\ Routable("other")
    /\ Open(r, "other")
    /\ updateState([agent |-> "other", status |-> "running"])
    /\ UNCHANGED <<user, remote, sent>>
-------------------------------------------------------------------------------
\* The call of send_task returns.
Close(r) == /\ run' = [run EXCEPT ![r] = "returned"]
            /\ stream' = [stream EXCEPT ![r] = None]
            /\ UNCHANGED delta

\* The framework applies what the call wrote to the state of its context; the calls of
\* one answer of the model have all returned by then.  A page that arrived in the call
\* is then under a status that is not input_needed, and can be neither decided nor sent.
Commit(r) ==
    /\ run[r] = "returned"
    /\ updateState(delta[r])
    /\ run' = [run EXCEPT ![r] = "thinking"]
    /\ delta' = [delta EXCEPT ![r] = None]
    /\ UNCHANGED <<user, stream, remote, sent, opened>>

(* The stream breaks off, is too long, or carries what the machine or the decoding  *)
(* refuses: a foreign task or context, a state out of order, an unexpected payload. *)
StreamFails(r) ==
    /\ run[r] = "streaming"
    /\ Close(r)
    /\ UNCHANGED <<session, user, remote, sent, opened>>

\* A Task: the first event of a new task; of a task that continues it is only compared.
ObserveTask(r) ==
    LET m == stream[r]
        t == IF m.continues THEN m.task ELSE Len(tasks) + 1
    IN /\ run[r] = "streaming"
       /\ m.continues \/ m.state = None
       /\ tasks' = IF m.continues THEN tasks ELSE Append(tasks, m.agent)
       /\ stream' = [stream EXCEPT ![r].task = t,
                                   ![r].state = IF m.continues THEN @ ELSE "submitted"]
       /\ updateState([agent |-> m.agent, status |-> "submitted", task |-> t])
       /\ UNCHANGED <<user, run, delta, pages, sent, opened>>

\* The payloads of the assurance agent that pass validation, by their message type: a
\* page with candidates or without, the result of a confirmation, an error.
Pages == {"page", "empty"}
Results == {"result"}
Payloads == Pages \cup Results \cup {"error"}

\* What an artifact decodes to: one payload of the assurance agent, text of another.
Decoded(agent) == IF agent = "assurance" THEN Payloads ELSE {"none"}

ObserveArtifact(r) ==
    /\ run[r] = "streaming" /\ stream[r].state \in {"working", "input_required"}
    /\ \E kind \in Decoded(stream[r].agent) : stream' = [stream EXCEPT ![r].content = kind]
    /\ UNCHANGED <<session, user, run, delta, remote, sent, opened>>

Active(r) == run[r] = "streaming" /\ stream[r].state \in {"submitted", "working", "input_required"}

ObserveWorking(r) ==
    /\ Active(r)
    /\ stream' = [stream EXCEPT ![r].state = "working"]
    /\ UNCHANGED <<session, user, run, delta, remote, sent, opened>>

\* input_required of the assurance agent carries a candidate page, or the stream fails.
CarriesPage(r) == Active(r) /\ stream[r].agent = "assurance"

\* Mutant of PageArrives: the task of the session stays as it is.
PageArrivesAnyTask(r) ==
    /\ CarriesPage(r)
    /\ pages' = Append(pages, stream[r].task)
    /\ updateState([agent |-> "assurance", status |-> "input_needed",
                    page |-> Len(pages) + 1, trusted |-> None])
    /\ Close(r)
    /\ UNCHANGED <<user, tasks, sent, opened>>

\* input_required of the assurance agent, with a page for the scan of this call.
PageArrives(r) ==
    /\ CarriesPage(r)
    /\ pages' = Append(pages, stream[r].task)
    /\ updateState([agent |-> "assurance", status |-> "input_needed", task |-> stream[r].task,
                    page |-> Len(pages) + 1, trusted |-> None])
    /\ Close(r)
    /\ UNCHANGED <<user, tasks, sent, opened>>

InputRequired(r) ==
    /\ Active(r) /\ stream[r].agent = "other"
    /\ updateState([agent |-> "other", status |-> "input_needed", task |-> stream[r].task])
    /\ Close(r)
    /\ UNCHANGED <<user, remote, sent, opened>>

(* A scan concludes with an empty page for it, a confirmation with the result of     *)
(* that very confirmation; any other payload fails the call.                         *)
EmptyPage(m) == m.content \in Pages /\ m.content = "empty"
Conclusive(m) == m.agent = "assurance" => IF m.continues THEN m.content \in Results ELSE EmptyPage(m)

\* completed: the conversation starts over.
Completed(r) ==
    /\ Active(r) /\ Conclusive(stream[r])
    /\ session' = Empty
    /\ Close(r)
    /\ UNCHANGED <<user, remote, sent, opened>>

\* failed, canceled or rejected: the task stays the active one.
Failed(r) ==
    /\ Active(r)
    /\ updateState([status |-> "failed"])
    /\ Close(r)
    /\ UNCHANGED <<user, remote, sent, opened>>

send_task(r) == SendScan(r) \/ SendConfirmation(r) \/ SendText(r)

send_streaming_task(r) ==
    \/ StreamFails(r) \/ ObserveTask(r) \/ ObserveArtifact(r) \/ ObserveWorking(r)
    \/ PageArrives(r) \/ InputRequired(r) \/ Completed(r) \/ Failed(r)

Next ==
    \/ \E s \in Sockets : register_socket(s) \/ remove_socket(s)
    \/ \E s \in Sockets, r \in Runs : agui_message(s, r)
    \/ \E s \in Sockets, c \in calls, approved \in BOOLEAN :
          ToolResultFails(s, c, approved) \/ \E r \in Runs : handleToolResult(s, c, approved, r)
    \/ \E r \in Runs : EndRun(r) \/ RequestTaskApproval(r) \/ send_task(r) \/ send_streaming_task(r)
                       \/ Commit(r)

Spec == Init /\ [][Next]_vars
-------------------------------------------------------------------------------
(* A candidate page is decided at most once, however often the run, its stream or   *)
(* the recording of the answer fails and is tried again (host_agent.py, send_task   *)
(* and handleToolResult).                                                           *)
PageDecidedOnce == \A i, j \in DOMAIN sent : sent[i].page = sent[j].page => i = j

(* A confirmation goes to the remote task its page came from, also when another     *)
(* run changed the state of the conversation in between (host_agent.py, send_task). *)
ConfirmationReachesItsTask == \A i \in DOMAIN sent : sent[i].task = pages[sent[i].page]

(* A confirmation carries the user's decision on its page, and no other decision on  *)
(* that page was ever recorded (host_agent.py, _build_trusted_assurance_decision).  *)
ConfirmationIsTheAnswer ==
    \A i \in DOMAIN sent :
        { d \in accepted : d.page = sent[i].page }
            = {[call |-> sent[i].call, approved |-> sent[i].approved, page |-> sent[i].page]}

===============================================================================
