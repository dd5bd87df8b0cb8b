----------------------------- MODULE MCProgress -----------------------------
(* What must eventually happen, in the parts whose code promises it: the HTTP *)
(* boundary of the assurance agent, the executions of the agent middleware,   *)
(* the outbox and the VPN services.  A behaviour lets one of them run, under  *)
(* the fairness stated for it below.                                          *)
EXTENDS Integers, FiniteSets, TLC

CONSTANTS
    Posts, Gets, Calls, MaxProbes, None, Runs, Threads, Home, MaxConcurrent, Slow,
    MaxDisturbances, Events, Workers, NoOwner, ClaimLimit, LeaseSeconds, RetryDelay,
    MaxAttempts, MaxTime, Sites, Kind, MaxErrors, MaxInstallFailures, MaxCrashes, MaxReports

VARIABLES
    part, \* the part that runs; its variables follow, those of the others are None
    pcHttp, answer, lease, worker, inflight, op, callbacks, closed, sawLoop, stopping,
    reads, waiting, probes,
    pcAgent, thread, waitingFor, answers, shown, calls, task, queue, kind, complete, aged,
    active, session, fresh, pending, disturbed,
    row, held, call, now,
    spec, service, configmap, generated, edges, current, appliance, vm, tunnel, routes, job,
    events, faults

\* The requests are of one thread.
MCHome == [r \in Runs |-> CHOOSE t \in Threads : TRUE]

Http == INSTANCE LocalHttpBoundary
    WITH pc <- pcHttp
Agent == INSTANCE AgentExecution
    WITH pc <- pcAgent
Box == INSTANCE Outbox
Vpn == INSTANCE VpnService

ASSUME Http!BoundaryAssumption
ASSUME Agent!ExecutionAssumption
ASSUME Box!OutboxAssumption
ASSUME Vpn!VpnAssumption

httpVars == <<pcHttp, answer, lease, worker, inflight, op, callbacks, closed, sawLoop,
              stopping, reads, waiting, probes>>
agentVars == <<pcAgent, thread, waitingFor, answers, shown, calls, task, queue, kind,
               complete, aged, active, session, fresh, pending, disturbed>>
outboxVars == <<row, held, call, now>>
vpnVars == <<spec, service, configmap, generated, edges, current, appliance, vm, tunnel,
             routes, job, events, faults>>
vars == <<part, httpVars, agentVars, outboxVars, vpnVars>>

Init ==
    /\ part \in {"http", "agent", "outbox", "vpn"}
    /\ IF part = "http" THEN Http!Init
       ELSE /\ pcHttp = None /\ answer = None /\ lease = None /\ worker = None
            /\ inflight = None /\ op = None /\ callbacks = None /\ closed = None
            /\ sawLoop = None /\ stopping = None /\ reads = None /\ waiting = None
            /\ probes = None
    /\ IF part = "agent" THEN Agent!Init
       ELSE /\ pcAgent = None /\ thread = None /\ waitingFor = None /\ answers = None
            /\ shown = None /\ calls = None /\ task = None /\ queue = None /\ kind = None
            /\ complete = None /\ aged = None /\ active = None /\ session = None
            /\ fresh = None /\ pending = None /\ disturbed = None
    /\ IF part = "outbox" THEN Box!Init
       ELSE /\ row = None /\ held = None /\ call = None /\ now = None
    /\ IF part = "vpn" THEN Vpn!Init
       ELSE /\ spec = None /\ service = None /\ configmap = None /\ generated = None
            /\ edges = None /\ current = None /\ appliance = None /\ vm = None
            /\ tunnel = None /\ routes = None /\ job = None /\ events = None
            /\ faults = None

Next ==
    \/ part = "http" /\ Http!Next
       /\ UNCHANGED <<part, agentVars, outboxVars, vpnVars>>
    \/ part = "agent" /\ Agent!Next
       /\ UNCHANGED <<part, httpVars, outboxVars, vpnVars>>
    \/ part = "outbox" /\ Box!Next /\ (now' # now => Box!AwaitsClock)
       /\ UNCHANGED <<part, httpVars, agentVars, vpnVars>>
    \/ part = "vpn" /\ Vpn!Next
       /\ UNCHANGED <<part, httpVars, agentVars, outboxVars>>

----------------------------------------------------------------------------
(* Fairness *)

\* The event loop keeps serving an admitted request: bodies and operations have
\* deadlines.  A started thread comes up, and its callbacks and a scheduled stop
\* run.  Nothing is assumed about how long an operation takes.
HttpFairness ==
    /\ \A r \in Http!Requests :
         /\ WF_httpVars(part = "http" /\ pcHttp[r] # "new" /\ Http!LoopStep(r))
         /\ WF_httpVars(part = "http" /\ Http!ClearInflight(r))
    /\ WF_httpVars(part = "http" /\ Http!WorkerReady)
    /\ WF_httpVars(part = "http" /\ Http!WorkerStops)

\* The event loop runs what is ready and time passes; an agent may hang for ever.
AgentFairness ==
    \A r \in Runs : /\ WF_agentVars(part = "agent" /\ Agent!RunStep(r))
                    /\ WF_agentVars(part = "agent" /\ Agent!Age(r))

\* Time passes while a row waits for it, transactions end, and each worker keeps
\* claiming, however often it crashes in between.
OutboxFairness ==
    /\ WF_outboxVars(part = "outbox" /\ Box!Tick /\ Box!AwaitsClock)
    /\ \A w \in Workers : /\ SF_outboxVars(part = "outbox" /\ Box!BeginClaim(w))
                          /\ SF_outboxVars(part = "outbox" /\ Box!CommitClaim(w))
                          /\ WF_outboxVars(part = "outbox" /\ Box!CommitFinish(w))

\* kopf keeps calling a handler that has work, machines boot, installations end.
VpnFairness ==
    /\ WF_vpnVars(part = "vpn" /\ Vpn!CreateService)
    /\ WF_vpnVars(part = "vpn" /\ Vpn!StoreResult)
    /\ \A s \in Sites :
         /\ WF_vpnVars(part = "vpn" /\ Vpn!wireguardappliance(s))
         /\ WF_vpnVars(part = "vpn" /\ Vpn!Boot(s))
         /\ WF_vpnVars(part = "vpn" /\ (Vpn!InstallSucceeds(s) \/ Vpn!InstallFails(s)))
         /\ WF_vpnVars(part = "vpn" /\ Vpn!handle_wireguard_status_change(s))
         /\ WF_vpnVars(part = "vpn" /\ Vpn!servicestatus(s))

FairSpec ==
    /\ Init /\ [][Next]_vars
    /\ HttpFairness /\ AgentFairness /\ OutboxFairness /\ VpnFairness

----------------------------------------------------------------------------
(* Properties *)

\* The admission slot of the boundary always comes back, even if the operation
\* never ends (LocalHttpBoundary, _release).
LeaseComesBack ==
    \A r \in Http!Requests :
        (part = "http" /\ lease = r) ~> (part = "http" /\ lease # r)

\* A consumer that is being streamed to gets to the end of the stream, even when
\* the agent hangs (adk.py, _stream_events and its timeout).
StreamsEnd ==
    \A r \in Runs : (part = "agent" /\ pcAgent[r] = "streaming")
                        ~> (part = "agent" /\ pcAgent[r] = "closed")

\* An enqueued event ends delivered or dead, for good, although its workers crash,
\* let leases expire, ask for retries, finish late or never call back: attempts run
\* out, and no row is passed over for ever (claim, ORDER BY and max_attempts).
EventuallySettled ==
    \A e \in Events :
        (part = "outbox" /\ row[e] # Box!Absent)
            ~> [](part = "outbox" /\ row[e].status \in {"DELIVERED", "DEAD"})

\* The appliances wait for each other's addresses, and still all come up: a valid
\* service ends Running while no call fails and the operator is not restarted
\* (wireguardappliance, servicestatus).
ServiceComesUp ==
    (part = "vpn" /\ spec = "valid") ~> (part = "vpn" /\ current = "Running")
=============================================================================
