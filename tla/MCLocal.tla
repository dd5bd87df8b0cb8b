------------------------------ MODULE MCLocal -------------------------------
(* The parts of the local deployment that keep data, or decide whether a      *)
(* request may change it, in one run: the HTTP boundary of the assurance      *)
(* agent, the replay runner and its plan, the DuckDB incident store and the   *)
(* workspace commands.  They share no memory, so a behaviour lets one of them *)
(* run, from its own initial states; the state space is the sum of theirs.    *)
EXTENDS FiniteSets, TLC

CONSTANTS
    Posts, Gets, Calls, MaxProbes, None, PlanLength, Runners, Backoffs, MaxRuns, NoRunner,
    Observations, Policies, Delays, MaxTime, Ids, Sources, Keys, NoCorrelation, Callers, StoreRequests, Stores,
    MaxSources, MaxCrashes, MaxRevision, Nobody,
    Procs, Dests, Values, Corrupt, WritersStopped, MaxCommands, MaxOutside,
    MaxIdentity, i1, i2, s1, k1

VARIABLES
    part, \* the part that runs; its variables follow, those of the others are None
    pc, answerHttp, lease, worker, inflight, opHttp, callbacks, closed, sawLoop, stopping,
    reads, waiting, probes,
    file, lockReplay, run, wire, opReplay, committed, incidents,
    policy, bundle, plan, phase, now, started, deadline, first, at, try, notBefore,
    attempts, selection, ahead,
    db, work, stage, target, lockDuck, call, answerDuck, open, crashesDuck,
    marker, root, state, database, wal, temp, locks, dirs, staging, proc, seq, commands,
    crashesWorkspace, outside

\* Bundles of up to three observations, two of them at the same instant, and
\* policies that speed up, slow down and refuse.
MCObservations ==
    { [id |-> 1, at |-> 0, resource |-> 1], [id |-> 2, at |-> 0, resource |-> 1],
      [id |-> 3, at |-> 4, resource |-> 2] }
Policy(speed, interval, events, duration, resources) ==
    [speed |-> speed, interval |-> interval, maxEvents |-> events, maxDuration |-> duration,
     maxResources |-> resources]
MCPolicies == { Policy(2, 1, 3, 5, 2), Policy(1, 2, 3, 6, 2), Policy(4, 3, 3, 6, 2),
              Policy(4, 3, 3, 5, 2), Policy(1, 1, 2, 4, 1) }

MCDelays == <<1, 2>>

\* A new store, and old stores with a settled or unsettled incident that has no
\* association row, alone or beside one that may gain its event, with two owners
\* for one event, and with an association that lacks its provenance.
Unwritten == [exists |-> FALSE, settled |-> FALSE, rev |-> 0, corr |-> NoCorrelation, srcs |-> {}]
Row(settled) == [exists |-> TRUE, settled |-> settled, rev |-> 0, corr |-> NoCorrelation, srcs |-> {s1}]
Rows(row1, row2) == (i1 :> row1) @@ (i2 :> row2)
Store(version, rows, assoc) ==
    [version |-> version, rows |-> rows, assoc |-> assoc,
     audit |-> { [id |-> i, rev |-> 0] : i \in {j \in Ids : rows[j].exists} },
     idem |-> {}, telemetry |-> FALSE]
Owned(i, complete) == [id |-> i, src |-> s1, complete |-> complete]
MCStores ==
    { Store("none", Rows(Unwritten, Unwritten), {}),
      Store("1.0", Rows(Row(FALSE), Unwritten), {}),
      Store("1.0", Rows(Row(TRUE), Unwritten), {}),
      Store("1.0", Rows([Row(FALSE) EXCEPT !.srcs = {}], Row(FALSE)), {}),
      Store("1.0", Rows(Row(TRUE), Row(FALSE)), {Owned(i1, TRUE), Owned(i2, TRUE)}),
      Store("1.0", Rows(Row(FALSE), Unwritten), {Owned(i1, FALSE)}) }

Request(op, i, ikey, corr, srcs, expected, settled) ==
    [op |-> op, id |-> i, ikey |-> ikey, corr |-> corr, srcs |-> srcs, expected |-> expected,
     settled |-> settled, safe |-> TRUE]
MCRequests ==
    { Request("create_or_correlate", i2, 1, k1, {s1}, 0, FALSE),
      Request("create", i1, 1, k1, {}, 0, FALSE),
      Request("get", i1, 1, k1, {}, 0, FALSE),
      [Request("create", i1, 2, k1, {}, 0, FALSE) EXCEPT !.safe = FALSE],
      Request("transition", i1, 1, NoCorrelation, {}, 0, TRUE),
      Request("transition", i1, 2, NoCorrelation, {}, 1, FALSE),
      Request("transition", i1, 3, NoCorrelation, {}, 0, FALSE),
      Request("transition", i1, 3, NoCorrelation, {s1}, 0, FALSE) }

Http == INSTANCE LocalHttpBoundary
    WITH answer <- answerHttp, op <- opHttp
Replay == INSTANCE ReplayDelivery
    WITH lock <- lockReplay, op <- opReplay
Plan == INSTANCE ReplayPlan
    WITH Backoffs <- Delays
Duck == INSTANCE DuckDbIncidentRepository
    WITH lock <- lockDuck, answer <- answerDuck, crashes <- crashesDuck
Workspace == INSTANCE LocalWorkspace
    WITH crashes <- crashesWorkspace

ASSUME HttpConstants == Http!BoundaryAssumption
ASSUME ReplayConstants == Replay!ReplayAssumption
ASSUME PlanConstants == Plan!PlanAssumption
ASSUME DuckConstants == Duck!DuckDbAssumption
ASSUME WorkspaceConstants == Workspace!WorkspaceAssumption

httpVars == <<pc, answerHttp, lease, worker, inflight, opHttp, callbacks, closed, sawLoop,
              stopping, reads, waiting, probes>>
replayVars == <<file, lockReplay, run, wire, opReplay, committed, incidents>>
planVars == <<policy, bundle, plan, phase, now, started, deadline, first, at, try,
              notBefore, attempts, selection, ahead>>
duckdbVars == <<db, work, stage, target, lockDuck, call, answerDuck, open, crashesDuck>>
workspaceVars == <<marker, root, state, database, wal, temp, locks, dirs, staging, proc,
                   seq, commands, crashesWorkspace, outside>>
vars == <<part, httpVars, replayVars, planVars, duckdbVars, workspaceVars>>

Init ==
    /\ part \in {"http", "replay", "plan", "duckdb", "workspace"}
    /\ IF part = "http" THEN Http!Init
       ELSE /\ pc = None /\ answerHttp = None /\ lease = None /\ worker = None
            /\ inflight = None /\ opHttp = None /\ callbacks = None /\ closed = None
            /\ sawLoop = None /\ stopping = None /\ reads = None /\ waiting = None
            /\ probes = None
    /\ IF part = "replay" THEN Replay!Init
       ELSE /\ file = None /\ lockReplay = None /\ run = None /\ wire = None
            /\ opReplay = None /\ committed = None /\ incidents = None
    /\ IF part = "plan" THEN Plan!Init
       ELSE /\ policy = None /\ bundle = None /\ plan = None /\ phase = None /\ now = None
            /\ started = None /\ deadline = None /\ first = None /\ at = None /\ try = None
            /\ notBefore = None /\ attempts = None /\ selection = None /\ ahead = None
    /\ IF part = "duckdb" THEN Duck!Init
       ELSE /\ db = None /\ work = None /\ stage = None /\ target = None /\ lockDuck = None
            /\ call = None /\ answerDuck = None /\ open = None /\ crashesDuck = None
    /\ IF part = "workspace" THEN Workspace!Init
       ELSE /\ marker = None /\ root = None /\ state = None /\ database = None /\ wal = None
            /\ temp = None /\ locks = None /\ dirs = None /\ staging = None /\ proc = None
            /\ seq = None /\ commands = None /\ crashesWorkspace = None /\ outside = None

Next ==
    \/ part = "http" /\ Http!Next
       /\ UNCHANGED <<part, replayVars, planVars, duckdbVars, workspaceVars>>
    \/ part = "replay" /\ Replay!Next
       /\ UNCHANGED <<part, httpVars, planVars, duckdbVars, workspaceVars>>
    \/ part = "plan" /\ Plan!Next
       /\ UNCHANGED <<part, httpVars, replayVars, duckdbVars, workspaceVars>>
    \/ part = "duckdb" /\ Duck!Next
       /\ UNCHANGED <<part, httpVars, replayVars, planVars, workspaceVars>>
    \/ part = "workspace" /\ Workspace!Next
       /\ UNCHANGED <<part, httpVars, replayVars, planVars, duckdbVars>>

Spec == Init /\ [][Next]_vars

\* The processes of a replay are interchangeable.
RunnerSymmetry == Permutations(Runners)

----------------------------------------------------------------------------
(* Properties, each of the part it names; the modules of the parts state them. *)

\* The HTTP boundary: at most one business operation is unsettled, and while its
\* outcome is unknown no other request is past admission; who was refused may
\* send again, nothing of the request was executed (try_acquire, _submit).
NothingBesideUnknownOutcome ==
    part = "http" => Http!SingleFlight /\ Http!NothingBesideUnknownOutcome /\ Http!RefusedHasNoEffect

\* The replay checkpoint never covers an event the receiver has not stored, and
\* only the holder of the lock saves it (paced_runner, checkpoint_store).
CheckpointBehindReceiver ==
    part = "replay" => Replay!CheckpointBehindReceiver /\ Replay!SaverHoldsLock

\* A request that outlives its run - of the transport thread of a cancelled or timed
\* out attempt, or held by the receiver's worker - is of an event stored already, of
\* the one the run reported as uncertain, or one the receiver refused and has at work
\* (paced_runner.py, event_outcome_uncertain; loopback_sink.py, emit).
LeftoverIsReported == part = "replay" => Replay!LeftoverIsReported

\* Paced delivery: the schedule is the least one that respects source time and
\* rate, no delayed retry causes a burst, nothing is early or past the deadline,
\* and the checkpoint is the longest delivered prefix (replay.py, paced_runner).
PacingKeepsSchedule ==
    part = "plan" => /\ Plan!ScheduleIsLeast /\ Plan!PlanFitsPolicy /\ Plan!NoCatchUpBurst
                     /\ Plan!NeverAheadOfSchedule /\ Plan!NoAttemptPastDeadline
                     /\ Plan!CheckpointIsContiguous

\* The DuckDB store: incident, association, audit and idempotency rows tell one
\* story after every crash, what a caller was told is there, and the same write
\* has one answer (_write_transaction); a published backup of it is complete.
StoreTellsOneStory ==
    /\ part = "duckdb" => /\ Duck!TablesAgree /\ Duck!EventsHaveOneIncident
                          /\ Duck!AnswerIsDurable /\ Duck!SameRequestSameAnswer
    /\ part = "workspace" => Workspace!PublishedBackupVerifies

\* No step loses stored data: migration invents no provenance, a checkpoint goes
\* back only when it is cleared, a restore takes only verified contents and never
\* under the log of another database, and a published backup is not replaced.
StoredDataIsKept ==
    [][/\ part = "duckdb" => Duck!MigrationNeverGuesses
       /\ part = "replay" => Replay!CheckpointNeverRegresses
       /\ part = "workspace" => /\ Workspace!OnlyVerifiedContentsRestored
                                /\ Workspace!LogIsNeverOrphaned
                                /\ Workspace!BackupsAreNotReplaced
                                /\ Workspace!ForeignFilesAreKept]_vars
=============================================================================
