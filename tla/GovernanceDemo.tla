--------------------------- MODULE GovernanceDemo ---------------------------
(* tools/local-container: run_governance_demo.py drives the compose project      *)
(* through both governance branches, a restart and an exact replay;              *)
(* container_entrypoint.py is the command each step runs in the container.  Any  *)
(* docker command may fail before or after its effect, a container may be        *)
(* restarted behind the runner's back, a mounted input may change.               *)
EXTENDS Naturals, Sequences

CONSTANTS
    None,
    MaxFaults  \* bound: failed commands and changes from outside

\* What the constants must satisfy.
DemoAssumption == MaxFaults \in Nat /\ None \notin {"ok", "failed", "cleanup_failed"}

VARIABLES
    branch, step,        \* the outcome under way and its next step
    project,             \* containers or volumes of the project exist
    started,             \* StartedAt of the service container, 0 while there is none
    before,              \* StartedAt seen before the restart
    status, revision,    \* the incident in the workspace, None before it is seeded
    applied,             \* idempotency keys the service has recorded
    runs,                \* action runs executed
    restarts, replays,   \* observations: restarts by the runner, replayed answers
    binding,             \* revision the first prepare returned
    declared,            \* the mounted inputs are those of the manifest
    attempts,            \* cleanups tried
    results, code, faults

service == <<project, started, status, revision, applied, runs>>
vars == <<branch, step, service, before, restarts, replays, binding, declared, attempts, results, code, faults>>

Steps == << "init", "seed", "up", "healthy", "prepare", "decide", "execute", "restart", "healthyAgain",
            "prepareAgain", "decideAgain", "executeAgain", "stop", "verify", "reset" >>
Branches == <<"success", "failure">>

At(s) == step \in 1..Len(Steps) /\ Steps[step] = s
Final == IF branch = 1 THEN "RESOLVED" ELSE "REOPENED"
Settled == {"RESOLVED", "REOPENED"}

\* The keys are digests of the operation and its bindings, alike in every run.
StableKey(op) == op

\* validate_inputs: every mounted input is the regular file the manifest describes,
\* by size and digest, and the directories hold nothing else.
InputsValid == declared

----------------------------------------------------------------------------
Init ==
    /\ branch = 1 /\ step = 1 /\ project = FALSE /\ started = 0 /\ before = 0
    /\ status = None /\ revision = 0 /\ applied = {} /\ runs = 0
    /\ restarts = 0 /\ replays = 0 /\ binding = None /\ declared = TRUE /\ attempts = 0
    /\ results = <<>> /\ code = None /\ faults = 0

Quiet == UNCHANGED <<branch, attempts, results, code>>
Advance == step' = step + 1

\* Any failure of a step goes to the cleanup; the command may have had its effect.
Abort == step' = Len(Steps) + 1 /\ code' = "failed" /\ UNCHANGED <<branch, attempts, results>>

Seed ==
    /\ \/ At("init") /\ project' = TRUE /\ UNCHANGED <<status, revision>>
       \/ At("seed") /\ InputsValid /\ status' = "DETECTED" /\ revision' = 0 /\ UNCHANGED project
    /\ Advance /\ Quiet
    /\ UNCHANGED <<started, applied, runs, before, restarts, replays, binding, declared, faults>>

Up ==
    /\ At("up") /\ started' = started + 1 /\ Advance /\ Quiet
    /\ UNCHANGED <<project, status, revision, applied, runs, before, restarts, replays, binding, declared, faults>>

\* _wait_healthy: the container and its start time, or the deadline.
WaitHealthy ==
    /\ At("healthy") /\ started > 0
    /\ before' = started /\ Advance /\ Quiet
    /\ UNCHANGED <<service, restarts, replays, binding, declared, faults>>

\* The first pass must not be a replay and the second must be one.
Again == step > 9

\* What the three commands accept of an answer.
PrepareAccepts(replayed, s) == IF replayed THEN s \in Settled ELSE s = "AWAITING_APPROVAL"
DecideAccepts(replayed, s, r) ==
    IF replayed THEN s \in Settled /\ r >= binding + 1 ELSE s = "REMEDIATING" /\ r = binding + 1
ExecuteAccepts(s) == s = Final

\* _require_fields of _govern.
RequireFields(replayed, s, expected) == replayed = Again /\ s = (IF Again THEN Final ELSE expected)

\* The service answers a recorded key from its record and applies a new one
\* where the incident allows it.
Answer(op, from, to, more) ==
    LET replayed == StableKey(op) \in applied
    IN /\ replayed \/ status = from
       /\ applied' = applied \cup {StableKey(op)}
       /\ IF replayed THEN UNCHANGED <<status, revision, runs>>
          ELSE status' = to /\ revision' = revision + more /\ runs' = runs + (IF op = "execute" THEN 1 ELSE 0)
       /\ replays' = IF replayed THEN replays + 1 ELSE replays

Prepare ==
    /\ At("prepare") \/ At("prepareAgain")
    /\ InputsValid /\ started > 0
    /\ LET replayed == StableKey("prepare") \in applied
       IN /\ Answer("prepare", "DETECTED", "AWAITING_APPROVAL", 4)
          /\ PrepareAccepts(replayed, status') /\ RequireFields(replayed, status', "AWAITING_APPROVAL")
    /\ binding' = IF Again THEN binding ELSE revision'
    /\ Advance /\ Quiet
    /\ UNCHANGED <<project, started, before, restarts, declared, faults>>

Decide ==
    /\ At("decide") \/ At("decideAgain")
    /\ InputsValid /\ started > 0
    /\ LET replayed == StableKey("decide") \in applied
       IN /\ Answer("decide", "AWAITING_APPROVAL", "REMEDIATING", 1)
          /\ DecideAccepts(replayed, status', revision') /\ RequireFields(replayed, status', "REMEDIATING")
    /\ Advance /\ Quiet
    /\ UNCHANGED <<project, started, before, restarts, binding, declared, faults>>

Execute ==
    /\ At("execute") \/ At("executeAgain")
    /\ InputsValid /\ started > 0
    /\ LET replayed == StableKey("execute") \in applied
       IN /\ Answer("execute", "REMEDIATING", Final, 2)
          /\ ExecuteAccepts(status') /\ RequireFields(replayed, status', Final)
    /\ Advance /\ Quiet
    /\ UNCHANGED <<project, started, before, restarts, binding, declared, faults>>

\* A restart that reports success may have done nothing.
Restart ==
    /\ At("restart")
    /\ \/ started' = started + 1 /\ restarts' = restarts + 1 /\ UNCHANGED faults
       \/ faults < MaxFaults /\ faults' = faults + 1 /\ UNCHANGED <<started, restarts>>
    /\ Advance /\ Quiet
    /\ UNCHANGED <<project, status, revision, applied, runs, before, replays, binding, declared>>

\* _inspect_started_at: the start time of the container tells whether it is another run.
StartedAgain == started > 0 /\ started # before

ObserveRestart ==
    /\ At("healthyAgain") /\ StartedAgain
    /\ Advance /\ Quiet
    /\ UNCHANGED <<service, before, restarts, replays, binding, declared, faults>>

\* _verify_and_reset compares the counts in the workspace, after the stop.
Verify ==
    /\ \/ At("stop") /\ UNCHANGED <<status, revision, runs, applied>>
       \/ At("verify") /\ status = Final /\ revision = 7 /\ runs = 1 /\ UNCHANGED <<status, revision, runs, applied>>
       \/ At("reset") /\ status' = None /\ UNCHANGED <<revision, runs, applied>>
    /\ started' = 0 /\ Advance /\ Quiet
    /\ UNCHANGED <<project, before, restarts, replays, binding, declared, faults>>

\* A step whose command fails, or whose answer is refused.  A governance command
\* of the service may have been applied although its answer was lost.
Fail ==
    /\ step \in 1..Len(Steps) /\ faults < MaxFaults /\ faults' = faults + 1
    /\ \/ UNCHANGED service
       \/ At("init") /\ project' = TRUE /\ UNCHANGED <<started, status, revision, applied, runs>>
       \/ /\ At("prepare") /\ started > 0 /\ Answer("prepare", "DETECTED", "AWAITING_APPROVAL", 4)
          /\ UNCHANGED <<project, started>>
       \/ /\ At("execute") /\ started > 0 /\ Answer("execute", "REMEDIATING", Final, 2)
          /\ UNCHANGED <<project, started>>
       \/ At("up") /\ started' = started + 1 /\ UNCHANGED <<project, status, revision, applied, runs>>
    /\ Abort /\ replays' = replays
    /\ UNCHANGED <<before, restarts, binding, declared>>

\* No step of the program accepts what it finds.
NothingAccepted ==
    ~(ENABLED Seed \/ ENABLED Up \/ ENABLED WaitHealthy \/ ENABLED Prepare \/ ENABLED Decide
      \/ ENABLED Execute \/ ENABLED Restart \/ ENABLED ObserveRestart \/ ENABLED Verify)

Refused ==
    /\ step \in 1..Len(Steps) /\ NothingAccepted
    /\ Abort /\ UNCHANGED <<service, before, restarts, replays, binding, declared, faults>>

\* compose down, tried twice.
Cleanup ==
    /\ step = Len(Steps) + 1
    /\ \/ /\ project' = FALSE /\ started' = 0 /\ status' = None /\ step' = step + 1
          /\ UNCHANGED <<code, attempts, faults>>
       \/ /\ faults < MaxFaults /\ faults' = faults + 1 /\ attempts' = attempts + 1
          /\ IF attempts = 1 THEN code' = "cleanup_failed" /\ step' = step + 1 ELSE UNCHANGED <<code, step>>
          /\ UNCHANGED <<project, started, status>>
    /\ UNCHANGED <<branch, revision, applied, runs, before, restarts, replays, binding, declared, results>>

\* The next branch has a project of its own; an error ends the run.
EndBranch ==
    /\ step = Len(Steps) + 2 /\ code = None
    /\ results' = Append(results, [restarts |-> restarts, replays |-> replays, runs |-> runs, project |-> project])
    /\ IF branch = 1
       THEN /\ branch' = 2 /\ step' = 1 /\ applied' = {} /\ runs' = 0 /\ revision' = 0 /\ restarts' = 0 /\ replays' = 0
            /\ binding' = None /\ attempts' = 0 /\ before' = 0 /\ UNCHANGED code
       ELSE code' = "ok" /\ UNCHANGED <<branch, step, applied, runs, revision, restarts, replays, binding, attempts, before>>
    /\ UNCHANGED <<project, started, status, declared, faults>>

\* Docker restarts the container on its own, or a mounted input changes.
Outside ==
    /\ faults < MaxFaults /\ faults' = faults + 1 /\ step \in 1..Len(Steps)
    /\ \/ started > 0 /\ started' = started + 1 /\ UNCHANGED declared
       \/ declared' = ~declared /\ UNCHANGED started
    /\ UNCHANGED <<branch, step, project, status, revision, applied, runs, before, restarts, replays, binding, attempts, results, code>>

Next ==
    \/ Seed \/ Up \/ WaitHealthy \/ Prepare \/ Decide \/ Execute \/ Restart \/ ObserveRestart \/ Verify
    \/ Fail \/ Refused \/ Cleanup \/ EndBranch \/ Outside

Spec == Init /\ [][Next]_vars

----------------------------------------------------------------------------
(* Properties *)

\* What the runner reports as done was done in both branches: one action run,
\* three answers replayed after it, and no container or volume left.
DemoReportIsTrue ==
    code = "ok" => /\ Len(results) = Len(Branches)
                   /\ \A i \in 1..Len(results) : results[i].runs = 1 /\ results[i].replays = 3 /\ ~results[i].project

\* An exact replay is only claimed across a restart of the service, the runner's
\* own or one it observed by the start time.
ReplayIsAcrossRestart == At("prepareAgain") => started > before \/ restarts > 0

\* A project that is left behind is reported as such.
LeftoverIsReported == step = Len(Steps) + 2 /\ project => code = "cleanup_failed"
=============================================================================
