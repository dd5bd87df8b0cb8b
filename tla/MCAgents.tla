------------------------------ MODULE MCAgents ------------------------------
(* The cloud agents and the network operator in one run: executions of the    *)
(* agent middleware, the event stream of one execution, the supervisor's      *)
(* conversation with remote tasks, the topology graph and the VPN services.   *)
(* They run in different processes and share no state that is modelled, so a  *)
(* behaviour lets one of them run.                                            *)
EXTENDS FiniteSets, TLC

CONSTANTS
    Runs, Threads, Home, r3, t1, t2, None, MaxConcurrent, Slow, MaxDisturbances, MaxEvents, Sockets, MaxSends,
    MaxCalls, Resources, MaxFailures, MaxEdits, Sites, Kind, MaxErrors, MaxInstallFailures,
    MaxCrashes, MaxReports, Turns, route, subnet, vpc, parent, Owner, Network, Destinations

VARIABLES
    part, \* the part that runs; its variables follow, those of the others are None
    pc, thread, waitingFor, answers, shownAgent, callsAgent, task, queueAgent, kind,
    complete, aged, active, sessionAgent, fresh, pending, disturbed,
    streaming, message, proxy, queueStream, state, seen,
    sessionSupervisor, sockets, owner, callsSupervisor, lock, run, stream, delta, tasks,
    pages, shownSupervisor, accepted, sent, opened,
    phase, edition, due, nodes, kg, manages, connected, failures, edits,
    spec, service, configmap, generated, edges, current, appliance, vm, tunnel, routes, job,
    events, faults

\* Two requests of one thread and one of another; each may answer a call of either.
MCHome == [r \in Runs |-> IF r = r3 THEN t2 ELSE t1]

\* A route, owned by a service, in a network and leading to a subnetwork.
MCOwner == [r \in Resources |-> IF r = route THEN parent ELSE None]
MCNetwork == [r \in Resources |-> IF r = route THEN vpc ELSE None]
MCDestinations == [r \in Resources |-> IF r = route THEN {subnet} ELSE {}]

Agent == INSTANCE AgentExecution
    WITH shown <- shownAgent, calls <- callsAgent, queue <- queueAgent,
         session <- sessionAgent
Stream == INSTANCE EventTranslation
    WITH queue <- queueStream
Supervisor == INSTANCE SupervisorTask
    WITH Runs <- Turns, session <- sessionSupervisor, calls <- callsSupervisor,
         shown <- shownSupervisor
Topology == INSTANCE TopologyGraph
Vpn == INSTANCE VpnService

ASSUME AgentConstants == Agent!ExecutionAssumption
ASSUME StreamConstants == Stream!TranslationAssumption
ASSUME SupervisorConstants == Supervisor!SupervisorAssumption
ASSUME TopologyConstants == Topology!GraphAssumption
ASSUME VpnConstants == Vpn!VpnAssumption

agentVars == <<pc, thread, waitingFor, answers, shownAgent, callsAgent, task, queueAgent,
               kind, complete, aged, active, sessionAgent, fresh, pending, disturbed>>
streamVars == <<streaming, message, proxy, queueStream, state, seen>>
supervisorVars == <<sessionSupervisor, sockets, owner, callsSupervisor, lock, run, stream,
                    delta, tasks, pages, shownSupervisor, accepted, sent, opened>>
topologyVars == <<phase, edition, due, nodes, kg, manages, connected, failures, edits>>
vpnVars == <<spec, service, configmap, generated, edges, current, appliance, vm, tunnel,
             routes, job, events, faults>>
vars == <<part, agentVars, streamVars, supervisorVars, topologyVars, vpnVars>>

Init ==
    /\ part \in {"agent", "stream", "supervisor", "topology", "vpn"}
    /\ IF part = "agent" THEN Agent!Init
       ELSE /\ pc = None /\ thread = None /\ waitingFor = None /\ answers = None
            /\ shownAgent = None /\ callsAgent = None /\ task = None /\ queueAgent = None
            /\ kind = None /\ complete = None /\ aged = None /\ active = None
            /\ sessionAgent = None /\ fresh = None /\ pending = None /\ disturbed = None
    /\ IF part = "stream" THEN Stream!Init
       ELSE /\ streaming = None /\ message = None /\ proxy = None /\ queueStream = None
            /\ state = None /\ seen = None
    /\ IF part = "supervisor" THEN Supervisor!Init
       ELSE /\ sessionSupervisor = None /\ sockets = None /\ owner = None
            /\ callsSupervisor = None /\ lock = None /\ run = None /\ stream = None
            /\ delta = None /\ tasks = None /\ pages = None /\ shownSupervisor = None /\ accepted = None
            /\ sent = None /\ opened = None
    /\ IF part = "topology" THEN Topology!Init
       ELSE /\ phase = None /\ edition = None /\ due = None /\ nodes = None /\ kg = None
            /\ manages = None /\ connected = None /\ failures = None /\ edits = None
    /\ IF part = "vpn" THEN Vpn!Init
       ELSE /\ spec = None /\ service = None /\ configmap = None /\ generated = None
            /\ edges = None /\ current = None /\ appliance = None /\ vm = None
            /\ tunnel = None /\ routes = None /\ job = None /\ events = None
            /\ faults = None

Next ==
    \/ part = "agent" /\ Agent!Next
       /\ UNCHANGED <<part, streamVars, supervisorVars, topologyVars, vpnVars>>
    \/ part = "stream" /\ Stream!Next
       /\ UNCHANGED <<part, agentVars, supervisorVars, topologyVars, vpnVars>>
    \/ part = "supervisor" /\ Supervisor!Next
       /\ UNCHANGED <<part, agentVars, streamVars, topologyVars, vpnVars>>
    \/ part = "topology" /\ Topology!Next
       /\ UNCHANGED <<part, agentVars, streamVars, supervisorVars, vpnVars>>
    \/ part = "vpn" /\ Vpn!Next
       /\ UNCHANGED <<part, agentVars, streamVars, supervisorVars, topologyVars>>

Spec == Init /\ [][Next]_vars

\* The turns of a conversation are interchangeable.
TurnSymmetry == Permutations(Turns)

----------------------------------------------------------------------------
(* Properties; the modules of the parts state them in detail.                  *)

\* The agent middleware: a tool answer continues a call the server showed in its
\* thread, once, however answers race, a call whose run was reported finished stays
\* answerable, and an idle thread holds a place among the executions only while a
\* call is pending in its session (adk.py, handle_tool_result, the finally of
\* _start_new_execution; session_manager.py, cleanup).
AnswerContinuesOnce ==
    part = "agent" => /\ Agent!AnswerContinuesOnce /\ Agent!FinishedCallIsAnswerable
                      /\ Agent!IdlePlaceAwaitsAnswer

\* The event stream: its reader sees whole messages, one open at a time, tool calls
\* between them but for the long-running call that stops a run, and none open when
\* the agent is done (event_translator.py; adk.py, _run_adk_in_background).
MessagesAreBracketed == part = "stream" => Stream!MessagesAreBracketed /\ Stream!FinishedRunIsClosed

\* The supervisor: a candidate page is decided once, by the user's answer to it,
\* and the confirmation goes to the task the page came from, also when the state a
\* call left in its context is applied over it (host_agent.py, send_task,
\* handleToolResult).
ConfirmationReachesItsTask ==
    part = "supervisor" => /\ Supervisor!PageDecidedOnce /\ Supervisor!ConfirmationReachesItsTask
                           /\ Supervisor!ConfirmationIsTheAnswer

\* The topology graph: a resource with no handler due is in the graph as it is
\* now, and one that is gone has left no node, no owner that manages it and, but for
\* services, no description, whichever statements failed on the way and whichever
\* status was written beside the handlers (graph/lifecycle.py; vpn/utils/status.py).
TopologyIsCurrent == part = "topology" => Topology!SettledIsMapped /\ Topology!GoneIsForgotten

\* The VPN services: both ends of a tunnel carry the keys of the config map, after
\* failing calls and restarts, and a service is shown as Running only when it is
\* installed everywhere (pointtopointservice, updateStatus).
PeersShareKeys == part = "vpn" => Vpn!PeersShareKeys /\ Vpn!RunningServiceIsInstalled
=============================================================================
