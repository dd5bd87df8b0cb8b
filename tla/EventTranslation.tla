--------------------------- MODULE EventTranslation ---------------------------
(* lib/agent_library/agentmiddleware: event_translator.py turns the events of one *)
(* background run of the agent into AG-UI events, client_proxy_tool.py adds its   *)
(* own, and _run_adk_in_background (adk.py) decides which translation an event    *)
(* gets and when the run ends.  The events go into the run's queue in this order. *)
EXTENDS Naturals, Sequences

CONSTANT MaxEvents  \* bound: events the agent produces in a run

\* What the constants must satisfy.
TranslationAssumption == MaxEvents \in Nat

VARIABLES
    streaming,  \* _is_streaming
    message,    \* the messages begun: _streaming_message_id is the last one
    proxy,      \* a client tool the agent framework is about to call
    queue,      \* what was put into the queue so far
    state,      \* "running", "stopped" at a long-running call, "done" or "failed"
    seen

vars == <<streaming, message, proxy, queue, state, seen>>

(* An event of the agent: whether it has text, is partial, carries usage metadata *)
(* or asks for input, and at most one function call or response.  Partial events  *)
(* carry text only.                                                               *)
Events == { e \in [user: BOOLEAN, text: BOOLEAN, partial: BOOLEAN, usage: BOOLEAN, input: BOOLEAN,
                   part: {"none", "backend", "internal", "client", "response"}] :
              /\ e.partial => e.text /\ e.part = "none"
              /\ e.user => ~e.input /\ e.part = "none" /\ ~e.usage }

\* Event.is_final_response of the agent framework.
Final(e) == e.part = "client" \/ (e.part = "none" /\ ~e.partial)

HasContent(e) == e.text \/ e.part # "none"

Start(m) == [kind |-> "TEXT_MESSAGE_START", of |-> m]
Content(m) == [kind |-> "TEXT_MESSAGE_CONTENT", of |-> m]
End(m) == [kind |-> "TEXT_MESSAGE_END", of |-> m]
ToolCall(id) == << [kind |-> "TOOL_CALL_START", of |-> id], [kind |-> "TOOL_CALL_END", of |-> id] >>

(* A translation is the events it yields and the streaming state it leaves.       *)
Yield(out, s, m) == [out |-> out, streaming |-> s, message |-> m]

force_close_streaming_message(s, m) == Yield(IF s THEN <<End(m)>> ELSE <<>>, FALSE, m)

(* A final text either was streamed, and is closed, or is delivered whole.        *)
FinalText(e, s, m) ==
    IF s
    THEN force_close_streaming_message(s, m)
    ELSE IF ~e.usage /\ ~e.partial
         THEN Yield(<<Start(m + 1), Content(m + 1), End(m + 1)>>, FALSE, m + 1)
         ELSE Yield(<<>>, FALSE, m)

StreamedText(s, m) ==
    IF s THEN Yield(<<Content(m)>>, TRUE, m)
         ELSE Yield(<<Start(m + 1), Content(m + 1)>>, TRUE, m + 1)

_translate_text_content(e, s, m) ==
    IF ~e.text THEN Yield(<<>>, s, m)
    ELSE IF Final(e) \/ e.input THEN FinalText(e, s, m)
    ELSE StreamedText(s, m)

\* Calls of tools the supervisor runs for itself are not shown.
_translate_function_calls(e) == IF e.part \in {"backend", "client"} THEN ToolCall("encoded") ELSE <<>>

\* A response carries the identifier of the agent framework, not the encoded one.
_translate_function_response(e) ==
    IF e.part = "response" THEN << [kind |-> "TOOL_CALL_RESULT", of |-> "raw"] >> ELSE <<>>

\* Mutant of translate: the text is not closed before a function call.
CallInsideMessage(e) ==
    IF e.user THEN Yield(<<>>, streaming, message)
    ELSE LET text == _translate_text_content(e, streaming, message)
         IN Yield(text.out \o _translate_function_calls(e) \o _translate_function_response(e),
                  text.streaming, text.message)

(* Open text is closed before a function call of the event, shown or not.         *)
translate(e) ==
    IF e.user THEN Yield(<<>>, streaming, message)
    ELSE LET text == _translate_text_content(e, streaming, message)
             closed == IF e.part \in {"backend", "internal", "client"}
                       THEN force_close_streaming_message(text.streaming, text.message)
                       ELSE Yield(<<>>, text.streaming, text.message)
         IN Yield(text.out \o closed.out \o _translate_function_calls(e) \o _translate_function_response(e),
                  closed.streaming, closed.message)

\* The call is shown as it comes; open text is left open.
translate_lro_function_calls(e) ==
    Yield(IF e.part = "client" THEN ToolCall("encoded") ELSE <<>>, streaming, message)

Put(t) == /\ queue' = queue \o t.out
          /\ streaming' = t.streaming
          /\ message' = t.message

Init == /\ streaming = FALSE /\ message = 0
        /\ proxy = FALSE
        /\ queue = <<>>
        /\ state = "running"
        /\ seen = 0

AgentEvent(e) ==
    /\ state = "running" /\ ~proxy /\ seen < MaxEvents
    /\ seen' = seen + 1

\* Every event but a final one with usage metadata is translated in full.
TranslateEvent(e) ==
    /\ AgentEvent(e)
    /\ ~Final(e) \/ (~e.usage /\ HasContent(e))
    /\ Put(translate(e))
    /\ proxy' = (e.part = "client")
    /\ UNCHANGED state

\* Of the others only a long-running call is shown, and it ends the run.
LongRunningEvent(e) ==
    /\ AgentEvent(e)
    /\ Final(e) /\ (e.usage \/ ~HasContent(e))
    /\ Put(translate_lro_function_calls(e))
    /\ state' = IF e.part = "client" THEN "stopped" ELSE "running"
    /\ UNCHANGED proxy

\* The proxy of a client tool shows the call under the framework's identifier.
_execute_proxy_tool ==
    /\ state = "running" /\ proxy
    /\ proxy' = FALSE
    /\ queue' = queue \o ToolCall("raw")
    /\ UNCHANGED <<streaming, message, state, seen>>

\* The agent is done: an open message is closed and the completion signal put.
Finish ==
    /\ state = "running" /\ ~proxy
    /\ Put(force_close_streaming_message(streaming, message))
    /\ state' = "done"
    /\ UNCHANGED <<proxy, seen>>

\* The agent raises: the error is put instead.
FailRun ==
    /\ state = "running"
    /\ state' = "failed"
    /\ UNCHANGED <<streaming, message, proxy, queue, seen>>

Next ==
    \/ \E e \in Events : TranslateEvent(e) \/ LongRunningEvent(e)
    \/ _execute_proxy_tool
    \/ Finish
    \/ FailRun

Spec == Init /\ [][Next]_vars
-------------------------------------------------------------------------------
\* The messages a client that read the first n events believes open: started, and
\* not ended since.
Open(q, n) ==
    { q[i].of : i \in { k \in 1..n :
        /\ q[k].kind = "TEXT_MESSAGE_START"
        /\ \A j \in (k + 1)..n : ~(q[j].kind = "TEXT_MESSAGE_END" /\ q[j].of = q[k].of) } }

(* To its reader the stream is a sequence of whole messages, one open at a time:  *)
(* a message starts when none is open, has content only while it is open and ends *)
(* once, across final events that repeat what was streamed, tool calls that cut a *)
(* message and user events (event_translator.py, _translate_text_content,         *)
(* force_close_streaming_message).                                                *)
Bracketed(q) ==
    \A i \in 1..Len(q) :
        /\ q[i].kind = "TEXT_MESSAGE_START"
             => /\ Open(q, i - 1) = {}
                /\ \A j \in 1..(i - 1) : q[j].kind = "TEXT_MESSAGE_START" => q[j].of # q[i].of
        /\ q[i].kind \in {"TEXT_MESSAGE_CONTENT", "TEXT_MESSAGE_END"} => Open(q, i - 1) = {q[i].of}

CallIsOutside(q, i) == q[i].kind = "TOOL_CALL_START" => Open(q, i - 1) = {}

(* No tool call is shown inside a message: the open text is ended first, "Per     *)
(* AG-UI protocol: TEXT_MESSAGE_END must be sent before TOOL_CALL_START"          *)
(* (event_translator.py:107).  The code keeps this but for the long-running call  *)
(* that stops the run: it is translated on a path of its own that ends no text,   *)
(* so after a partial text and a final event with usage metadata the call is      *)
(* shown, and RUN_FINISHED after it, with the message open (adk.py:1054,          *)
(* translate_lro_function_calls).                                                 *)
CallsCutMessages ==
    \A i \in 1..Len(queue) : CallIsOutside(queue, i) \/ (state = "stopped" /\ i = Len(queue) - 1)

\* What a client reads of a run: whole messages, and tool calls between them.
MessagesAreBracketed == Bracketed(queue) /\ CallsCutMessages

(* A run the agent finishes by itself leaves no message open at the client        *)
(* (adk.py, _run_adk_in_background: force_close_streaming_message).  A run that    *)
(* stopped at a long-running call or failed does not promise it.                   *)
FinishedRunIsClosed == state = "done" => Open(queue, Len(queue)) = {}

===============================================================================
