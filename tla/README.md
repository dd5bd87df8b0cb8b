# Verification of the NetworkAgent platform

This directory holds TLA+ models of the parts of the repository that carry
state: the incident state machine, the repositories that persist incidents, the
ingestion of fault events, the outbox that triggers the agents, the local
governance gate between an analysis and the action it proposes, the assurance
agent with its HTTP boundary, the replay of recorded faults, the supervisor and
the middleware all agents run on, the network operator, and the tools that back
up the local stack and produce the evidence a release is judged by. TLC checks
them on small instances, TLAPS proves the most important results for every value
of the constants. `PROJECT.json` maps every definition to the lines it models and
lists runs, hazards, findings and theorems.

    tlc -workers 2 -config Outbox.cfg MCOutbox     # one run; see "Runs"
    tlapm OutboxProofs.tla                          # one proof module

## 1. The system

A telecom operator's fault events become *incidents*; agents triage, analyse and
remediate them; every change to the network passes an approval.

    Pub/Sub push --> fault ingress --> event ingest --(one transaction)--> incidents
                                             |                             outbox
                                             |                                |
                                        Inbox (replays)            lease, deliver, retry
                                                                              |
    local lab replay --> fault receiver --> repository <-- agents (assurance, ...)
                                                ^                  ^
                       prepare / decide / execute (local           | A2A tasks
                       governance, behind the HTTP boundary)       |
                                            user -- supervisor (agent middleware)

    Kubernetes resources --> network operator --> machines, tunnels, topology graph
    local-stack and release tools --> workspaces, backups, evidence reports

| part | state it keeps | operations | talks to |
|---|---|---|---|
| incident state machine (`telco_domain/state_machine.py`, `models.py`) | none (pure) | `transition_incident`, `validate_aggregate` | every repository |
| repository contract (`telco_domain/memory.py`, `ports.py`) | incidents, source-event associations, idempotency records, audit trail | `create`, `create_or_correlate`, `import_detected_snapshot`, `transition`, `save`, reads | agents, governance, migration |
| Spanner repository (`telco_cloud/incident_repository.py`) | the same, plus the active-key index | the same, one read-write transaction each | event ingest |
| DuckDB repository (`telco_local/incident_repository.py`) | the same, in one local file | the same, one transaction each | governance, assurance agent |
| event ingest (`telco_cloud/event_ingest.py`) | Inbox rows | `ingest` (shadow or canonical) | Spanner repository, outbox |
| fault ingress (`services/telco-fault-ingress`) | its configured pipeline mode | `process` one push: 204, 400 or 503 | Pub/Sub, event ingest, legacy handler |
| outbox (`telco_cloud/outbox_repository.py`) | outbox rows with leases | `claim`, `mark_delivered`, `retry`, `mark_dead` | delivery workers |
| local governance (`telco_local/governance.py`) | none of its own: all of it is in the incident | `prepare`, `decide`, `execute`, `request_approval`, `resolve_for_execution` | repository, RCA gateway, action gateway |
| migration (`telco_cloud/migration.py`) | a signed bundle | export, import with quarantine | repository import |
| assurance agent (`networkagents/assurance`) | pending confirmations, A2A tasks, one admission slot, one business worker | preview, confirm, recover; admission, deadline, shutdown | DuckDB repository, supervisor |
| telco-lab (`packages/telco-lab`) | replay plan and checkpoint | paced delivery, retry, checkpoint | fault receiver |
| agent middleware (`lib/.../agentmiddleware`) | sessions, running executions, pending tool calls | run, stream, answer, clean up; translation of events | LLM runtime, user interface |
| supervisor (`networkagents/supervisor`) | per conversation: active agent and task, pending candidate page, trusted decision | `send_task`, `handleToolResult`, socket ownership | remote agents, user interface |
| network operator (`src/operator`) | topology graph in Spanner; status, keys and machines of VPN services | kopf handlers, retried until they succeed | Kubernetes, Config Connector, Ansible |
| local stack (`tools/local-stack/local_stack.py`) | marker-owned workspace, backups | init, reset, backup, restore | DuckDB file |
| evidence runners (`tools/local-stack/run_*`, `tools/local-container`) | work trees, reports | run a scenario as child processes, clean up, publish | local stack, docker |
| release evidence (`.github/scripts`, `container_release_evidence.py`, `build_submission_bundle.py`) | evidence files, manifests, bundles | scan, assemble, verify, publish | git, scanners |
| other agents, log collector, UI, MCP service | presentation state | LLM prompts, HTTP, files | each other |

### What is hard about it

* **Concurrency.** Governance calls are chains of repository calls with awaits in
  between; each works on a snapshot that may be old. Outbox workers and push
  handlers run in several processes.
* **Clocks read early.** The Spanner repositories and `decide` read a trusted
  clock *before* the transaction that uses the reading; leases and approvals may
  expire in between.
* **At-least-once delivery.** Pub/Sub pushes an event again after it was recorded,
  in another pipeline mode, or while the first push is still being handled.
* **Crashes between commits.** `prepare` commits four transitions, `execute` two; a
  restart has only the persisted incident.
* **Derived state.** The active-key index must follow incidents through settling,
  correlation and reopening; a wrong row either blocks a correlation key for
  ever or lets in a second active incident.
* **Idempotency.** A retry is answered from an old record and is then checked
  against an incident that has moved on.

* **Work that outlives its caller.** A deadline answers the caller while a worker
  thread, a background execution, an HTTP request or an installation goes on.
* **State read before an await.** The supervisor, the middleware and the operator
  decide from what they read before a stream, a queue or an installation.
* **Files as shared state.** Commands are separate processes that share only the
  file system; another program may exchange a file between two looks at it.
* **Evidence that must not lie.** A report must imply what it says although children
  fail, time out after their effect or answer what is not so.

### What makes each part correct

* State machine: remediation only under an effective approval of exactly the
  current plan; verification only after approved runs; nothing approved is
  silently replaced.
* Repositories: one unsettled incident per correlation key, one owner per source
  event for ever, an audit trail without gaps or forks, retries that answer with
  something that was committed.
* Ingest: exactly one trigger per incident; a replay writes nothing and is
  acknowledged; no event is refused for ever.
* Outbox: a lease holder that lost its lease cannot finish it; settled rows stay.
* Assurance agent: one decision and at most one incident per preview; the slot comes
  back, an uncertain outcome becomes known, nothing runs beside it.
* Replay: the checkpoint never runs ahead of what the receiver made durable.
* Middleware and supervisor: an answer continues its call once; a page is decided
  once, by the answer the user gave, on the task it came from.
* Operator: what handlers report as done is in the graph; the two ends of a tunnel
  share their keys; whatever waits for a peer comes up.
* Tools: a published backup, bundle, report or manifest is complete and true, a
  failure leaves nothing behind or says so, foreign files are kept.
* Governance: at most one run, only under an authorisation that was valid when
  looked up; one workflow owns an incident; nothing stays half done.

## 2. Modules

    IncidentStateMachine            pure operators
      <- IncidentLifecycle          one incident, arbitrary callers
      <- IncidentRepository         the contract (abstract specification)
           <- SpannerIncidentRepository   implements the contract
                <- EventIngest            ingress + ingest, composed with it
      <- LocalGovernance            interleaved calls on one incident
    DuckDbIncidentRepository        the same contract statement by statement, with migration
    Outbox                          lease protocol
    ConfirmationContract            what a confirmation promises (abstract)
      <= AssuranceConfirmation      executor, service and stores implement it
    LocalHttpBoundary               admission slot, worker thread, shutdown
    ReplayDelivery, ReplayPlan      sender, checkpoint, receiver; schedule and budgets
    AgentExecution, EventTranslation  agent middleware
    SupervisorTask                  one conversation with remote agents
    TopologyGraph, VpnService       network operator
    LocalWorkspace                  init, reset, backup, restore
    DefenseEvidence, RecoveryDrill, RuntimeTrace, BubbleRanDefense, GovernanceDemo
                                    evidence runners
    SubmissionBundle, ReleaseRequirements, ReleaseEvidence, ContainerRelease
                                    bundles and release evidence

`X <- Y`: Y EXTENDS X; `X <= Y`: Y implements X (INSTANCE). Where theorems are
proved, a `...Proofs` module extends the component's, or the suite's (`LocalProofs`
extends `MCLocal`, `AgentsProofs` `MCAgents` and `ToolsProofs` `MCTools`);
`RepositoryProofs` holds the contract, the repository that implements it and the
ingestion that calls it. Operators commented "Mutant of" are never used by a specification; they are faulty variants of the definition
that follows, kept to show that the properties can fail.

The instances are in the `MC...` modules. The incident path (lifecycle, repositories,
ingest, outbox, governance) and the assurance confirmation have one each; the contract
is checked through the repository that implements it. The other components share no
memory with each other and are checked in suites:

* `MCLocal`: `LocalHttpBoundary`, `ReplayDelivery`, `ReplayPlan`,
  `DuckDbIncidentRepository`, `LocalWorkspace`;
* `MCTools`: the evidence runners, the bundle and the release evidence;
* `MCAgents`: `AgentExecution`, `EventTranslation`, `SupervisorTask`, `TopologyGraph`,
  `VpnService`;
* `MCProgress`: the liveness of `LocalHttpBoundary`, `AgentExecution`, `Outbox` and
  `VpnService`.

A suite instantiates its components on disjoint variables. The variable `part` is
chosen in the initial state and names the component that moves; the variables of the
others are `None` and stay so. The behaviours of a suite are thus those of its
components, its state space the sum of theirs, and a property `part = "x" => P` says
P of component x. The action properties and invariants a suite's property joins are
stated, each with its own comment, in the component's module.

### IncidentStateMachine, IncidentLifecycle

The transition table, `validate_aggregate`, the guards of `transition_incident`
(append-only fields, frozen recommendations, the per-target validators) and
the successor it builds. `TransitionAllowed` is "does not raise", `Successor` the
returned aggregate. Order-free append-only tuples are sets; an action's content
is a hash, a report's version stands for its id, `eligible` for the report's own
conditions. `IncidentLifecycle` gives the state machine to callers that may
request any transition with any single append, so its properties rely on the
code under `transition_incident` only.

### IncidentRepository

The four tables of the in-memory repository. Every call is atomic (one lock, or
one DuckDB transaction), so an operation is one action; a rejected call and a
replayed call change nothing and are stuttering steps. It is checked as the contract
of the Spanner repository (`RepositoryContract`) and proved about on its own.

### SpannerIncidentRepository

The same operations deciding from the active-key index alone. `Owners`,
`FindsActive`, `Acquire`, `Release` are the `_tx` helpers; `MoveKeys` is the key
part of `_commit_transition_tx`, including the union of stored associations with
the incoming ones that buffered mutations make necessary. `RepositoryContract` is
the contract's `Spec` on the four shared tables (the refinement mapping is the
identity and hides the index).

### EventIngest

Extends the Spanner repository with the Inbox, the outbox's insertions and the
ingress: `Receive` is a push reaching a process with its mode, `Accept`/`Refuse`/
`AcceptLegacy` its answer, `SwitchMode` a deployment, `AgentTransition` what agents
do meanwhile. `Accept` is the whole `process`: replay check or new record,
incident, association, outbox row, then the result check, then the answer, which
may be lost. Assumptions: ingestion is the only creator of incidents here; with
`AgentsAppendSources` agents append only events already associated; payload
parsing and authentication are outside; an event older than the age limit, or one
that meets an incident at its association limit, is answered 400 by design and is
not part of the instance.

### Outbox

A call is two steps, reading the clock and committing, with anything in between.
The delivery worker is not in the repository; it is modelled as the most
permissive caller. It may finish any lease it was handed, late and repeatedly,
crash, or do nothing. `ORDER BY available_at, event_id LIMIT n` is `Selected`.

### LocalGovernance

One action per repository call plus the local computation up to the next await.
A call holds its snapshot `cur` and sometimes a clock reading. `Apply` is
`repository.transition`: commit, exact replay (whose result may be old), or an
exception that ends the call. `Crash` loses a call or its answer, `Abandon` is
another user of the repository. The RCA gateway is reduced to its outcome. A run
records the clock reading that authorised it; the later `started_at` stamp, which no
guard reads, is left out. Report versions never pass 1 because `INVESTIGATING`
occurs once in this workflow.

### DuckDbIncidentRepository

One action per statement of a call: lock, open, read, write, commit or roll back.
The store is new, of version 1.0 (and is migrated on the first call), or of version
1.1 with incidents that never had association rows. A statement may be refused, the
process may die at any point, and the caller repeats its request under the same
idempotency key.

### AssuranceConfirmation, ConfirmationContract

`scan` publishes a preview and its task; `confirm` walks lookup, claim, write,
finish, one commit each, and the clock or a crash may come between any two. Task
states are events the A2A library stores later. The mapping to the contract derives
a preview's outcome from the confirmation row and the incident committed for it.

### LocalHttpBoundary

The event loop, the worker thread and the closing thread; the state lock makes each
action atomic. What an operation does is left to `LocalGovernance`; here it takes
any time, so that a deadline may leave its outcome unknown.

### ReplayDelivery, ReplayPlan

`ReplayDelivery` is two senders on one checkpoint directory, the request in its own
thread, and the receiver with its idempotent repository. `LeftoverIsReported` looks at a
request until the receiver can no longer store it: on the wire, and in the worker after
it was accepted and before it is settled. `ReplayPlan` is what is sent
when: what a plan may be built from, the schedule from the observations, the rate
limit, the backoffs, the total deadline, and the immediate helper with its contiguous
checkpoint.

### AgentExecution, EventTranslation

An execution is a background task and the consumer of its queue. Sessions are those
of the in-memory service that every agent of the repository configures, whose
coroutines do not suspend; a session lives longer than an execution may run, as in
the default timeouts. A stream that finds its task cancelled ends with the task's
`CancelledError` (`StreamBroken`): nothing becomes pending, no end is shown. `Home`
bounds which thread a plain request is for; an answer may name any. `EventTranslation`
runs every short sequence of agent events through the translator and records the AG-UI
events that come out.

### SupervisorTask

One conversation. The language model decides when tools are called, the remote agent
sends anything; the guards of `send_task` and `handleToolResult` are the code's. Two
runs may overlap: tool calls made in parallel, and a run that went on after its
execution timed out. `send_task` writes the conversation's state twice: with
`updateState`, at once, and into the state of its tool context, which the agent
framework applies after the call returned. The second writing is `delta`, and `Commit`
applies it, over whatever the stream made of the state meanwhile. The identifiers of a
scan, which only the comparison of a page reads, are part of the call. Left out: the expiry of the session, and a failed task, which
stays active until the user resets the conversation.

### TopologyGraph, VpnService

`TopologyGraph`: a handler's run is one step in which any of its statements may fail;
resources change between runs. The handlers of a changed status and the monitor of the
appliances write the same rows through `update_network_node`, beside the handlers of
`graph/` and until the finalizer of the resource is gone (`status_update`,
`updateStatus`). `VpnService`: the handlers of a point-to-point or mesh
service and of its appliances. All Kubernetes calls are synchronous, so a handler is
one step up to the installation, which runs in a thread with the peer information
read before it. kopf is external: it calls a failed handler again, stores its result
afterwards, and calls a field handler with the last recorded and the present value.
Two assumptions on time are written as guards: an installation, which takes minutes,
ends after the service's result was stored (`InstallationEnds`), and an appliance is
reported as failed after kopf recorded that it runs (`ReportFailed`).

### LocalWorkspace and the evidence runners

Files and directories are told apart by identity, as the code does by device, inode
and times; contents are values. Other programs may put files of their own under any
name. A child process may fail or time out before or after its effect and answer what
is not so; the runner's checks decide. The wording and layout of reports are left
out, what a report asserts is compared with what happened.

### SubmissionBundle, ReleaseRequirements, ReleaseEvidence, ContainerRelease

Builders and evidence commands as processes over shared files. `ReleaseRequirements`
holds the pure part: versions, specifiers and markers as the code parses them,
against PEP 440's ordering, the marker grammar and reachability. `ReleaseEvidence` and
`ContainerRelease` keep of a file which inputs it was made from, which is what
verification must find out.

## 3. Runs

| run | instance | shows |
|---|---|---|
| `lifecycle` | three actions, four plans, four reports, two requests, clock 0..2 around expiry 2, up to 10 transitions | `RemediatedIsApproved`, `VerifiedIsExecuted`, `RequestedActionsStay`: whatever callers request, remediation is approved, verification follows execution, a requested action stays in the plan |
| `spanner` | 2 incidents, 1 correlation key or none, 2 source events; one incident may go to CLOSED and REOPENED | `ActiveKeysExact`, `OneActivePerCorrelation`, `RepositoryContract`; `LaterCallsSucceed`: nothing is stored that makes a later, legal call fail (a replay that no longer agrees, more associations than can be released) |
| `outbox` | 2 events, 2 workers, 2 attempts, leases of 1 tick, clock 0..2 | `FencingTokenUnique`, `NewestAttemptOwns` |
| `ingest` | 2 events of one key, 4 modes, one push per event and mode in flight | `OneTriggerPerIncident`, `ExactReplayAcknowledged`, `EventuallyAcked` |
| `ingest_appended_sources` | the same with agents appending sources | expected violation, section 6 |
| `governance` | 2 concurrent calls, 3 prepare, 3 decide, 2 execute requests, 1 crash, clock past expiry | `RunAuthorised`, `OneRequestOwns`, `FailureBindingComplete` |
| `governance_liveness` | one decide and one execute request, 2 prepares | `EventuallyGoverned` |
| `assurance` | 2 previews, 2 keys, capacity 1, TTL and retention 1, 4 requests, 1 crash | `CommitsAreAccountedFor`, `ImplementsContract`, `RecoverableIsKept` |
| `local`, boundary | 2 posts, a read, an A2A call, a probe; close at any time | `NothingBesideUnknownOutcome`: one operation at a time, nothing admitted beside an unknown outcome, no effect after a refusal |
| `local`, replay | 2 senders on one checkpoint, 2 events, one backoff | `CheckpointBehindReceiver`, `StoredDataIsKept`; `LeftoverIsReported`: what a run leaves behind at its end is of an event already stored, or the run says so |
| `local`, plan | bundles of up to 3 observations, 5 policies, safe and unsafe workspaces, clock 0..7 | `PacingKeepsSchedule` |
| `local`, DuckDB | 2 callers, 2 incidents, 1 key, 1 source event, 6 stores, 1 crash | `StoreTellsOneStory`, `StoredDataIsKept` |
| `local`, workspace | 2 processes, 5 commands, 1 kill, 2 steps of other programs, writers stopped | `StoreTellsOneStory` (a published backup is complete), `StoredDataIsKept` |
| `tools`, runners | 2 or 3 faults, 2 steps of other programs; 3 windows, 24 events, 1 move of the repository | `ReportsAreTrue`, `LeftoversAreReported`, `ForeignFilesAreKept`, `CalculationsAreExact` (the indicators) |
| `tools`, bundle | 2 builders, 3 commits (one with a broken ledger), 2 faults, 2 moves | `BundleIsCommitBound`, `LeftoversAreReported` |
| `tools`, release | 166 versions, markers of 5 tokens, 3 wheels; one change between the evidence commands; clock 0..3 | `CalculationsAreExact`, `VerifiedIsReleasable` |
| `agents`, middleware | 3 requests, two for one thread and one for another, each of which may answer a call of either; 2 places, one slow execution, 1 disturbance; 4 agent events of every shape | `AnswerContinuesOnce`, `MessagesAreBracketed` |
| `agents`, supervisor | 2 overlapping turns, 3 sends, 1 approval, tool state applied at any time after a call | `ConfirmationReachesItsTask` |
| `agents`, operator | a route, its service, network and subnetwork, 1 edit, 1 failing run, status written at any time; 2 sites, 2 failing calls, 1 failing installation, 1 restart | `TopologyIsCurrent`, `PeersShareKeys` |
| `progress` | 2 posts and an A2A call; 2 slow requests for 1 place; 2 outbox events, 1 worker, 2 attempts, clock 0..7; 2 sites, 1 failing installation, 2 reports | `LeaseComesBack`, `StreamsEnd`, `EventuallySettled`, `ServiceComesUp` |

**Why the bounds are enough.** The properties relate at most two incidents, two
holders of a lease or two calls, and one key; two of each is the smallest
instance in which they can clash. In `outbox` the second attempt is the last, so
takeover and exhaustion both occur within the clock's range. In `spanner`
one incident takes the long way to CLOSED and back while the other competes for
its key; the finer part of the transition graph is left to `lifecycle`. In
`governance` the clock passes the time-to-live once, which is all an expiry
needs. Where a theorem exists, the bounds do not matter; the limit on the keys a settling reads
is one no small instance reaches, so for that part of `LaterCallsSucceed` there is the
theorem `LaterCalls` only.
Faults are bounded by what a property can tell apart: the evidence runners check in
pairs (an effect and its answer, a file and its copy), so two faults are needed to
deceive a check and the third is spare. `Slow` names the executions that may outlive
their timeout: one is enough to leave a task without a place. `MaxSends` 3 is a scan,
its confirmation and one interloper; one approval is enough, since its recording may
fail and be repeated with another answer, and the page may change under it. Two failing
calls and a restart are what new keys for half a service would take. The clock
of the outbox in `progress` advances only while a row waits for it and reaches past the
last lease and delay of two attempts for two events; that it does not stop too early is
part of the property.

`CHECK_DEADLOCK FALSE` is set everywhere: with bounded clocks, revisions, faults and
commands each system may really come to rest, and a service that is up has nothing to do.
Symmetry is used only over interchangeable workers, callers, senders or source events,
and never in a run with a liveness property.

**Mutants.** For every property of a passing run `PROJECT.json` names a change of
one mapped definition (a dropped guard, a stale comparison, a missing key) under
which TLC finds the property violated.

## 4. Fairness

* `ingest`. `WF(Receive)` for unacknowledged events: Pub/Sub redelivers until it
  gets a 204. `SF(Accept(.., TRUE))`: a push that can succeed over and over is not
  met by an outage every single time. A push whose checks raise can never succeed,
  so this fairness does not help it; that is the case `EventuallyAcked` is about.
  The property assumes that the mode finally stays shadow or canonical: `paused`
  refuses by design and legacy acceptance is outside.
* `governance_liveness`. `WF(Step)` for every call: asyncio keeps running a call that
  was not lost. `SF(Begin)` for every request: clients send a request again, which
  the stable idempotency keys are made for. Crashes are finitely many
  (`MaxCrashes`), the clock need not advance.

* `progress`, outbox (`OutboxFairness`). Workers keep claiming: `SF` of a claim's two
  halves, since an eligible row may be taken by the retry of another one in between.
  Time passes while something waits for it. A worker that was handed a lease may never
  finish it; only a finish under way ends.
* `progress`, boundary (`HttpFairness`). The event loop serves what it admitted, a
  started thread comes up and its callbacks run. Nothing is assumed about how long an
  operation takes.
* `progress`, middleware (`AgentFairness`). The event loop runs what is ready and time
  passes; agents may hang.
* `progress`, VPN (`VpnFairness`). kopf calls handlers that have work, machines boot,
  installations end; an installation may fail once, no call fails, and the operator is not
  restarted (an interrupted reinstallation does not recover, section 6).

## 5. Proofs

All theorems hold for arbitrary constants under the named assumptions: any number of
workers, events, incidents, requests, retries and crashes. Each is `Spec => []Inv`, an
action property, or an implementation; the invariants were checked by TLC before they
were proved.

| module | theorem | argument |
|---|---|---|
| `OutboxProofs` | `TypeCorrect`, `Fencing`, `NewestOwns` | `FencingTokenUnique` is not inductive. `TokensIssued`, that every token handed out belongs to an existing row and is at most its attempt counter, makes a claim's fresh token new for everybody; whoever holds the newest one is then the owner named in the row. |
| `IncidentLifecycleProofs` | `TypeCorrect`, `Governed`, `Executed`, `RequestedStay` | `GovernedInv` adds the valid body: the frozen recommendations and the append-only approvals keep an approval valid after it was checked; `VerifiedIsExecuted` needs the approvals of the earlier step. |
| `RepositoryProofs` | `TypeCorrect`, `Exclusive`, `Provenance`, `Ledger` | `Inv` joins both kinds of exclusiveness with provenance. Reactivation looks up the associations stored so far; ownership and provenance make that enough when the transition adds more. `LedgerInv` ties the audit trail, the idempotency records and the imported bundles to the aggregates. |
| `RepositoryProofs` | `IndexExact`, `Implements`, `SpannerExclusive`, `LaterCalls` | `SpannerInv` adds the index, split into source keys and correlation keys, and that a missing incident has no associations. Then a lookup in the index agrees with the contract's scan (`LookupAgrees`) and each transaction is the contract's step, so the contract's ledger carries over. |
| `RepositoryProofs` | `OneTrigger`, `ReplayAcknowledged` | `TriggerInv` relates incidents, Inbox rows and outbox rows on top of `SpannerInv`; `Known` and `BoundInv` say that an Inbox row's incident is still there, with the identity it was created with. `ReplayAcknowledged` assumes `~AgentsAppendSources`; section 6 shows what happens otherwise. |
| `LocalGovernanceProofs` | `AuthorisedRuns`, `OneOwner`, `FailureBound` | Calls act on snapshots. Every snapshot is `Past` of the incident: what it shows stays true or can no longer be committed. `Established` says for each step of a call what its earlier steps made true, `Sound` what the incident's parts say of each other, `ResultInv` what a recorded result stands for. |
| `AssuranceConfirmationProofs` | `AccountedFor`, `Kept`, `Implements` | `LoopInv`: from the claim on, the record is the claim the event loop works on. `RecordInv` says what each state of a record means for its claim and result, `CommitInv` that a commit is the one of its preview's claim; the tables stay finite and within capacity. Every step of the executor, crash, sweep or eviction is then a step of `ConfirmationContract` or leaves the mapped state alone. |
| `LocalProofs` | `Boundary` | `LeaseHeld`: who is past admission holds the lease. `SlotHeld`: the slot belongs to the unsettled operation, also when its client or the time limit gave it up, and only the callback of a future that is done clears it. |
| `LocalProofs` | `Checkpoint`, `Leftover` | `ReplayInv`: `StoredInv` bounds file and runs by what the receiver stored, `NotAhead` a request on the wire by its run, `Answered` says what an answer proves of the wire, `SaverHoldsLock` that only the holder writes. `Reported`: a request of an ended run that is still under way is `Excused`. It holds because a run that goes on has, for its current event, only the request it waits for under way unless it is in doubt, and one that heard a refusal finds that request in the worker or nowhere. |
| `LocalProofs` | `Pacing` | `Ranks`: observations differ in how many come before them, so the order is a permutation of the bundle. `SomeSchedule` and `LeastSchedule`: the recursive schedule exists and is the least that grants every `Demand`; both take the smallest event that fails. `PlanInv` adds to the run's properties which helper runs (`OneHelper`) and that the immediate helper keeps exactly the successes beyond its checkpoint (`PrefixKnown`), so that the checkpoint it moves to (`ContiguousEnds`) ends the known prefix. `AttemptKeeps`: an attempt waits one interval after the last one, and so `j - i` intervals after the `i`-th. |
| `LocalProofs` | `OneStory` | `DuckInv`. `Sound` is the story of tables between two transactions; `Drafted` and what refines it say after each statement what the transaction's tables still lack, so that they are `Sound` when the last one is through; `Told` ties an answer to its idempotency row. Two unsettled incidents share an event only by `LateShare` (section 6), which no later write undoes. For the workspace: the directory that is published verified in the step that publishes it. |
| `LocalProofs` | `DataKept` | `WorkspaceInv`: without a state directory there is neither database nor log (`NothingOutside`), an `init` is alone and finds no database (`InitAlone`), and from the checkpoint of a restore to the replacement of the file there is no log (`LogFolded`, where the writers are stopped). |
| `AgentsProofs` | `Bracketing` | `StreamInv`: what was put so far reads well, also for a reader who wants calls outside messages until a long-running call stops the run, and the message being streamed is the only one open. A translation yields its events in their place (`InPlace`, `ReadsOn`), and translations after one another are read one after another (`BothFollow`), so each event of the agent leaves a stream that reads well. |
| `AgentsProofs` | `Continues` | `RunsFit` says what a request has shown, tracked and queued at each step. `SessionsKept`: a stream with events has a session that cleanup spares, so that its calls can be stored; `PendingUnanswered`: a pending call is of a finished run of its thread and nobody has answered it, so that taking it off the list lets one answer through. |
| `AgentsProofs` | `RightTask` | `TasksFit`: the session, and a stream from its first event on, are bound to a task of their agent. `PageOpen`: while the assurance agent awaits an answer, page and task of the session belong together, the page was not confirmed and the decision held is the only one for it; `PagesKnown`: decisions and confirmations are about pages that arrived, so a new page has none. `DeltasFit`: what a call left in its context says that a task runs, so applying it can end the waiting for an answer and never begin it. |
| `AgentsProofs` | `Mapped` | `DueFits`: which handler can be due in which phase of a resource, and an owner is there before what it owns. `Established`: once `create_node` is through, the node and its connection to the owner stay, which `update_node` does not make; `Left`: node and owner do not come back after `delete_node`, whoever writes the row, since only `create_node` makes them; the description of a resource that owns nothing does not either, since nothing but its own handlers writes it then. |
| `AgentsProofs` | `SharedKeys` | `KeysKept`: an appliance carries the keys the config map has held since it was created; `InstalledFirst`: status, unseen change and edge of an appliance say Running only when its tunnel was installed. |
| `ToolsProofs` | `Releasable` | `WheelInv`, `ContainerInv`: an untouched manifest is what its writer would write now, so that whatever was replaced, torn or grown old since is seen by the verification; a verdict is about the files as they are. |
| `ToolsProofs` | `CommitBound` | `BundleInv`: lock, staging and output directory are one builder's between their making and removal (`BuilderHolds`), so nobody else changes the files between their verification and the answer; the manifest is linked second (`BuilderPublishes`). |
| `ToolsProofs` | `ReportsHold`, `LeftoversAreNamed`, `ForeignIsKept` | One invariant for each runner. `DrillInv`: an identity is given once, so what carries the remembered one is the drill's own; what the workspace holds at each stage. `DefenseInv`: how often each branch has executed at each place of the program; `DefenseCommits` keeps the commits the children ran on apart into those of earlier windows and those since the first reading of this one. The recorder only appends, so a graph that matches is the run's. `TraceInv`: once the collector is closed, the file is the trace as long as its length is. `BubbleInv`, `DemoInv`: what each step has established of cases, replays and restarts. |

Assumptions: `OutboxAssumption`, `LifecycleAssumption`, `RepositoryAssumption`,
`SpannerAssumption`, `IngestAssumption`, `GovernanceAssumption`,
`ConfirmationAssumption`, `MarkersAssumption`, `HttpConstants`, `ReplayConstants`,
`PlanConstants`, `DuckConstants`, `WorkspaceConstants`, `AgentConstants`, `SupervisorConstants`, `TopologyConstants`, `VpnConstants`, and of the
tools `DrillConstants`, `DefenseConstants`, `TraceConstants`, `BubbleRanConstants`,
`DemoConstants`, `BundleConstants`, `WheelConstants` and `ContainerConstants`. They
fix types, say that absent keys, owners and times are none of the real ones and that
different kinds of calls have different names; `RepositoryAssumption` makes the source
events of an instance a finite set, which the limit on associations counts, and
`PlanConstants` the observations one, as those of a dataset are. `DuckConstants` takes the
stores found on disk to be what earlier versions of the program leave: the tables agree,
two unsettled incidents share neither key nor event, and a store of version 1.1 passed
its migration. `DataKept` has a hypothesis, `WritersStopped`: the runbook of a restore
asks for stopped writers, and section 6 says what happens beside one. Bounds
(`MaxTime`, `MaxRevision`, retries, crashes) are arbitrary naturals.

**Only model-checked:**

* liveness (`EventuallyAcked`, `EventuallyGoverned`, `MCProgress`), which needs fairness
  and `ENABLED`;
* `CalculationsAreExact`: `ReleaseRequirements` is compared with its reference
  definitions over bounded inputs, and the indicators of an SLO are sums over windows of
  any number, whose proof is an induction over data.

## 6. Findings

**Redelivery after an appended source** (run `ingest_appended_sources`, which TLC must
find violated; `PROJECT.json` quotes the lines that promise otherwise).
`_incident_identity` (`event_ingest.py:507`) compares `source_event_ids` and calls it a
field that "cannot legally change over an Incident lifecycle", while the state
machine and the Spanner repository treat it as append-only and a test grows it.
Two events of one key are ingested, an agent appends
the second to the aggregate, and from then on the exact redelivery of an event
already recorded is answered 503, although the ingress README promises that an exact
durable replay is acknowledged. Run `ingest` shows that all is well as long as
no agent does so.

Observations made while modelling. The models contain these behaviours; the properties
are stated so that they allow them, and no run of its own is kept for them.

* *Recovery window of a confirmation.* `claim` closes a processing record past its
  expiry before it compares the fingerprint, so a request with another decision closes
  a written confirmation that the sweep would keep.
* *Shutdown of the worker.* A close between the start of the worker thread and its first
  instruction finds no loop to stop; the thread stays.
* *Restore beside a writer.* A commit between the checkpoint and the replacement leaves
  its log under the restored file. The runbook demands stopped writers, which is what
  `WritersStopped` stands for in the run.
* *Event of an old incident.* A transition may add an event that another unsettled
  incident, older than the association table and not written since, holds in its payload
  only: `_insert_source_event_associations_locked` (`incident_repository.py:1143`) asks
  for the owner among the association rows, and only creation and correlation look into
  payloads (`_find_active_locked`, `:978`). The two then share an event, although active
  incidents are deduplicated by source-event identity (`telco-domain/README.md:17`); a
  later write of the older one is refused. `EventsHaveOneIncident` allows exactly this.
* *SLO clean-up objective.* A failed clean-up always comes with an empty source, which
  is refused before it could be measured.
* *Alerts of a passing run.* Outside a git checkout a run passes with an alert raised.
* *Concurrency limit.* An execution whose stream ended early runs on and is not counted.
* *Cancelled execution.* The stream of a cancelled task ends with `CancelledError`, which
  passes `except Exception` (`adk.py:700`, `:821`): the client sees no `RUN_FINISHED`, the
  calls shown do not become pending, and a request that waits for the execution ends the
  same way. Nor has that wait a time limit of its own (`adk.py:757`).
* *Backend calls.* `adk.py:793` says that a backend call whose result was seen is not
  tracked as pending. Call and result carry different identifiers (the encoded and the
  framework's), so it stays pending, is answerable, and holds a place among the
  executions.
* *Text before a tool call.* "Per AG-UI protocol: TEXT_MESSAGE_END must be sent before
  TOOL_CALL_START" (`event_translator.py:106`). The translation of the long-running call
  that stops a run (`adk.py:1054`) ends no text: after a partial text the call is shown,
  and `RUN_FINISHED` after it, with the message open. `CallsCutMessages` excepts exactly
  this call.
* *State of the tool context.* `send_task` puts "running" into the state of its tool
  context (`host_agent.py:766`), which is applied after the call returned, over the
  `input_needed` written with a candidate page (`:799`). In a scan that brings a page
  (`SendScan`, `ObserveTask`, `PageArrives`, `Commit`) the page is then held under
  "running": its approval is refused and no confirmation can be sent
  (`_build_trusted_assurance_decision`; `send_task`, `:725`), although the result just
  returned asks the user for the decision (`:808`). The page is not decided wrongly, which is what
  `ConfirmationReachesItsTask` says; that it can be decided is not promised.
* *Description of a deleted service.* An event of an appliance that is handled after
  `delete_node` of its service and before the finalizer is removed inserts the
  description of the service again (`vpn/utils/status.py:107`, `lifecycle_tasks.py:402`).
  It has no foreign key to the node (`spanner.j2:64`) and nothing removes it later.
* *Refused replay request.* A 503 of the receiver may mean that its worker still holds
  the request. The sender takes every refusal for certain (`paced_runner.py:414`;
  `loopback_sink.py:526`), so a run may end with no uncertain event while the request is
  stored afterwards. `LeftoverIsReported` excepts the request whose refusal the run
  ended on, and nothing else.
* *Routes in the graph, dangling connections.* Results are or-ed; a terminating network
  can still be found.
* *Stale approval.* An approval confirms the page that is pending when it is answered,
  not the one it was asked for.
* *Interrupted reinstallation.* The status `Reinstalling` is written first; after a
  restart the handler sees no failure any more.
* *Tunnel without a peer, appliance without a route.* A peer that cannot be read has the
  address `None`; an error while a route is created is only logged.

## 7. Not modelled, and the plan

Out of reach or without state of their own: LLM prompts and tool wrappers of the
agents, the read-only MCP service and telemetry reads, the UI, log collection,
dataset conversion and scoring. Message schemas, redaction and size limits are data
validation without control. The operator's throttler is not applied to any call; its
phased start only orders imports; the 5G and Gitea handlers repeat the shape of the
appliance's. Deletion of a VPN service, the supervisor's registry of remote agents,
its dashboards and push notifications, and the lifecycle projection, a pure check of
a finished chain, are left out as well.

Left for later:

1. The migration driver over `IncidentRepository`'s import, with interrupted and
   repeated bundles.
2. Detector and rule evaluation as operators checked against a reference.
