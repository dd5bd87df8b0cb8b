--------------------------- MODULE DefenseEvidence ---------------------------
(* The layered evidence runners of tools/local-stack.  run_defense_demo drives  *)
(* the local stack through two branches as child processes and always resets    *)
(* both workspaces; run_observability_demo records every child and reports even *)
(* a failed run; run_slo_evidence_demo evaluates three such windows;            *)
(* run_lifecycle_evidence_demo adds a read-only projection to one defense run.  *)
(* A child may fail or time out before or after its effect, answer with other   *)
(* contents than the contract fixes, and the repository may change meanwhile.   *)
EXTENDS Naturals, Sequences, SequencesExt, FiniteSets

CONSTANTS
    None,        \* no error, no value
    Windows,     \* windows of one SLO evaluation, three in the code
    EventLimit,  \* MAX_EVENTS of the recorder
    MaxFaults,   \* bound: failing children, clocks and writes
    MaxMoves     \* bound: commits and edits in the repository meanwhile

\* The codes a run ends with (_ERROR_CLASS_BY_CODE), and those of an evaluation.
Codes ==
    {"command_failed", "evidence_contract_failed", "cleanup_failed", "report_write_failed",
     "observation_contract_failed", "window_contract_failed", "source_binding_failed"}

\* What the constants must satisfy.
EvidenceAssumption ==
    /\ Windows \in Nat \ {0} /\ EventLimit \in Nat \ {0}
    /\ MaxFaults \in Nat /\ MaxMoves \in Nat /\ None \notin Codes

Branches == {"success", "failure"}
BranchOrder == <<"success", "failure">>

Cmd(stage, branch) == [stage |-> stage, branch |-> branch]
Child(stage, branch, attempt) == [stage |-> stage, branch |-> branch, attempt |-> attempt]

\* The children of _run_branch, in order; both branches follow the preflight.
BranchStages ==
    <<"workspace_init", "workspace_status", "governance_preview",
      "approval_execute", "terminal_verify", "approval_execute", "terminal_verify">>

Body ==
    [n \in 1..15 |-> IF n = 1 THEN Cmd("preflight", "none")
                     ELSE IF n <= 8 THEN Cmd(BranchStages[n - 1], "success")
                     ELSE Cmd(BranchStages[n - 8], "failure")]

\* The graph the observer expects, written apart from the program it observes.
BranchGraph(b) ==
    <<Child("workspace_init", b, 1), Child("workspace_status", b, 1), Child("governance_preview", b, 1),
      Child("approval_execute", b, 1), Child("terminal_verify", b, 1),
      Child("approval_execute", b, 2), Child("terminal_verify", b, 2)>>
ExpectedChildGraph ==
    <<Child("source_revision", "none", 1), Child("source_cleanliness", "none", 1),
      Child("preflight", "none", 1)>>
    \o BranchGraph("success") \o BranchGraph("failure")
    \o <<Child("workspace_cleanup", "success", 1), Child("workspace_cleanup", "failure", 1),
         Child("source_revision", "none", 2), Child("source_cleanliness", "none", 2)>>
ExpectedGraph == Append(ExpectedChildGraph, Child("run_finalize", "none", 1))

VARIABLES
    mode,      \* "slo" or "lifecycle", the wrapper that was started
    git,       \* commit and cleanliness of the repository
    pc, i,     \* place in the program, and the child or branch that is next there
    rev,       \* the commit rev-parse just printed, or None
    before, after, \* the two source bindings of the run
    dir,       \* the run directory was created
    ws,        \* workspace of each branch: its progress and the actions it executed
    err,       \* operation_error of the defense run
    dirty,     \* some reset failed
    events, violated, \* what the recorder kept, and whether it objects
    projected, \* branches whose lifecycle projection was accepted
    published, \* reports of the current run directory
    obs,       \* the persisted observation, or None
    windows, sources, \* normalised windows and their sources
    ran,       \* commits the children of all windows ran on
    slo,       \* outcome of the SLO wrapper
    faults, moves

run == <<rev, before, after, dir, ws, err, dirty, events, violated, projected, published, obs>>
vars == <<mode, git, pc, i, run, windows, sources, ran, slo, faults, moves>>

Unavailable == [available |-> FALSE, sha |-> None, clean |-> FALSE]
Absent == [st |-> "absent", runs |-> 0]

FreshRun ==
    /\ rev' = None /\ before' = Unavailable /\ after' = Unavailable
    /\ dir' = FALSE /\ ws' = [b \in Branches |-> Absent] /\ err' = None /\ dirty' = FALSE
    /\ events' = <<>> /\ violated' = FALSE /\ projected' = {} /\ published' = {} /\ obs' = None

Init ==
    /\ mode \in {"slo", "lifecycle"}
    /\ git = [sha |-> 1, clean |-> TRUE]
    /\ pc = "revision" /\ i = 1
    /\ rev = None /\ before = Unavailable /\ after = Unavailable
    /\ dir = FALSE /\ ws = [b \in Branches |-> Absent] /\ err = None /\ dirty = FALSE
    /\ events = <<>> /\ violated = FALSE /\ projected = {} /\ published = {} /\ obs = None
    /\ windows = <<>> /\ sources = <<>> /\ ran = {} /\ slo = "none"
    /\ faults = 0 /\ moves = 0

\* The outcomes of an operation that may go wrong, within the bound.
Outcomes(bad) == {"ok"} \cup (IF faults < MaxFaults THEN bad ELSE {})

\* A child that cannot be started, exits non-zero, writes to stderr, prints too
\* much or overruns its deadline; and one whose answer is not the fixed one.
ChildFailure == {"failed"}
ContractDrift == {"drift"}

\* A report is written under a temporary name and published, or not at all.
WriteFailure == {"failed"}
Charge(o) == faults' = IF o = "ok" THEN faults ELSE faults + 1

\* How often a child was started for a branch.
Times(evs, stage, b) == Len(SelectSeq(evs, LAMBDA e : e.stage = stage /\ e.branch = b))

\* The recorder appends one event per child and never interferes with it.
Attempt(c) == 1 + Times(events, c.stage, c.branch)
Record(c, succeeded) ==
    IF Len(events) >= EventLimit - 1
    THEN violated' = TRUE /\ UNCHANGED events
    ELSE /\ events' = Append(events, [stage |-> c.stage, branch |-> c.branch, attempt |-> Attempt(c),
                                      outcome |-> IF succeeded THEN "SUCCEEDED" ELSE "FAILED"])
         /\ UNCHANGED violated

----------------------------------------------------------------------------
(* run_defense_demo._execute_demo *)

\* _read_source_binding, first child: a raised child ends the reading, a
\* non-zero exit is only looked at after the second child.
GitRevision ==
    /\ pc \in {"revision", "revisionAfter"}
    /\ \E o \in Outcomes({"exit", "raised"}) :
        /\ Charge(o)
        /\ Record(Cmd("source_revision", "none"), o = "ok")
        /\ rev' = IF o = "ok" THEN git.sha ELSE None
        /\ pc' = IF pc = "revision" THEN IF o = "raised" THEN "mkdir" ELSE "status"
                 ELSE IF o = "raised" THEN "write" ELSE "statusAfter"
    /\ UNCHANGED <<mode, git, i, before, after, dir, ws, err, dirty, projected, published, obs,
                   windows, sources, ran, slo, moves>>

GitStatus ==
    /\ pc \in {"status", "statusAfter"}
    /\ \E o \in Outcomes({"exit"}) :
        /\ Charge(o)
        /\ Record(Cmd("source_cleanliness", "none"), o = "ok")
        /\ LET b == IF o = "ok" /\ rev # None
                    THEN [available |-> TRUE, sha |-> rev, clean |-> git.clean]
                    ELSE Unavailable
           IN IF pc = "status" THEN before' = b /\ pc' = "mkdir" /\ UNCHANGED after
              ELSE after' = b /\ pc' = "write" /\ UNCHANGED before
    /\ UNCHANGED <<mode, git, i, rev, dir, ws, err, dirty, projected, published, obs,
                   windows, sources, ran, slo, moves>>

\* A failure here leaves nothing to clean up: the error reaches the wrapper.
CreateRunDirectory ==
    /\ pc = "mkdir"
    /\ \E o \in Outcomes({"failed"}) :
        /\ Charge(o)
        /\ dir' = (o = "ok")
        /\ err' = IF o = "ok" THEN None ELSE "report_write_failed"
        /\ pc' = IF o = "ok" THEN "body" ELSE "finish"
    /\ i' = 1
    /\ UNCHANGED <<mode, git, rev, before, after, ws, dirty, events, violated, projected, published, obs,
                   windows, sources, ran, slo, moves>>

\* What a child does to its workspace.  An approval that was already executed
\* is answered from the record; a child that repeats it is a fault.
Effect(w, stage, repeats) ==
    CASE stage = "workspace_init" -> [w EXCEPT !.st = "new"]
      [] stage = "governance_preview" -> [w EXCEPT !.st = "previewed"]
      [] stage = "approval_execute" ->
           IF w.st = "terminal" /\ ~repeats THEN w
           ELSE [st |-> "terminal", runs |-> w.runs + 1]
      [] OTHER -> w

\* The validators of the answers; demo-verify counts the action runs.
Validates(c, w) == c.stage = "terminal_verify" => w.runs = 1

RunCommand ==
    /\ pc = "body" /\ i <= Len(Body)
    /\ LET c == Body[i]
           b == c.branch
       IN \E o \in Outcomes(ChildFailure \cup ContractDrift \cup {"repeats"}), done \in BOOLEAN :
            /\ o \in {"ok", "repeats"} => done
            /\ o = "repeats" => c.stage = "approval_execute"
            /\ b = "none" => done
            /\ Charge(o)
            /\ Record(c, o # "failed")
            /\ ran' = ran \cup {git.sha}
            /\ ws' = IF done /\ b # "none"
                     THEN [ws EXCEPT ![b] = Effect(ws[b], c.stage, o = "repeats")] ELSE ws
            /\ err' = IF o = "failed" THEN "command_failed"
                      ELSE IF o = "drift" \/ (b # "none" /\ ~Validates(c, ws[b]))
                           THEN "evidence_contract_failed" ELSE None
            /\ IF err' # None THEN pc' = "cleanup" /\ i' = 1
               ELSE pc' = pc /\ i' = i + 1
    /\ UNCHANGED <<mode, git, rev, before, after, dir, dirty, projected, published, obs,
                   windows, sources, slo, moves>>

BodyDone ==
    /\ pc = "body" /\ i > Len(Body)
    /\ pc' = IF mode = "lifecycle" THEN "project" ELSE "cleanup"
    /\ i' = 1
    /\ UNCHANGED <<mode, git, run, windows, sources, ran, slo, faults, moves>>

\* The projection hook of both branches is called, whatever the first one did.
ReadLifecycleProjection ==
    /\ pc = "project" /\ i <= 2
    /\ \E o \in Outcomes(ChildFailure \cup ContractDrift) :
        /\ Charge(o)
        /\ projected' = IF o = "ok" THEN projected \cup {BranchOrder[i]} ELSE projected
        /\ err' = IF err # None \/ o = "ok" THEN err
                  ELSE IF o = "failed" THEN "command_failed" ELSE "evidence_contract_failed"
    /\ ran' = ran \cup {git.sha}
    /\ IF i = 2 THEN pc' = "cleanup" /\ i' = 1 ELSE pc' = pc /\ i' = i + 1
    /\ UNCHANGED <<mode, git, rev, before, after, dir, ws, dirty, events, violated, published, obs,
                   windows, sources, slo, moves>>

\* The finally block: reset of every workspace that exists on disk.
Remains(b) == ws[b].st # "absent"

ResetWorkspace ==
    /\ pc = "cleanup" /\ i <= 2
    /\ LET b == BranchOrder[i] IN
        IF ~Remains(b)
        THEN UNCHANGED <<ws, dirty, events, violated, faults>>
        ELSE \E o \in Outcomes(ChildFailure \cup ContractDrift), done \in BOOLEAN :
                /\ o = "ok" => done
                /\ Charge(o)
                /\ Record(Cmd("workspace_cleanup", b), o # "failed")
                /\ ws' = IF done THEN [ws EXCEPT ![b] = [ws[b] EXCEPT !.st = "absent"]] ELSE ws
                /\ dirty' = (dirty \/ o # "ok")
    /\ i' = i + 1
    /\ UNCHANGED <<mode, git, pc, rev, before, after, dir, err, projected, published, obs,
                   windows, sources, ran, slo, moves>>

\* A failed cleanup replaces whatever went wrong before it.
AfterCleanup(e) == IF dirty THEN "cleanup_failed" ELSE e

CleanupDone ==
    /\ pc = "cleanup" /\ i > 2
    /\ err' = AfterCleanup(err)
    /\ pc' = IF err' = None THEN "revisionAfter" ELSE "finish"
    /\ i' = 1
    /\ UNCHANGED <<mode, git, rev, before, after, dir, ws, dirty, events, violated, projected, published, obs,
                   windows, sources, ran, slo, faults, moves>>

\* _combine_source_bindings.
Source ==
    LET stable == before.available /\ after.available /\ before.sha = after.sha
    IN [stable |-> stable,
        sha |-> IF stable THEN before.sha ELSE None,
        clean |-> before.available /\ after.available /\ before.clean /\ after.clean]

WriteDefenseReport ==
    /\ pc = "write"
    /\ \E o \in Outcomes(WriteFailure) :
        /\ Charge(o)
        /\ published' = IF o = "ok" THEN published \cup {"defense"} ELSE published
        /\ err' = IF o = "ok" THEN None ELSE "report_write_failed"
    /\ pc' = "finish"
    /\ UNCHANGED <<mode, git, i, rev, before, after, dir, ws, dirty, events, violated, projected, obs,
                   windows, sources, ran, slo, moves>>

----------------------------------------------------------------------------
(* run_observability_demo.main after the defense run, and the lifecycle wrapper *)

\* owned_run_directory: only a directory this run created is written to.
OwnedRunDirectory == dir

\* _safe_defense_summary: the outcomes of a defense run that returned.
Business == err = None

\* A clock of the recorder fails or goes back.
RecorderClock ==
    /\ mode = "slo" /\ pc \notin {"done", "collect", "evaluate", "killed"} /\ ~violated /\ faults < MaxFaults
    /\ violated' = TRUE /\ faults' = faults + 1
    /\ UNCHANGED <<mode, git, pc, i, rev, before, after, dir, ws, err, dirty, events, projected,
                   published, obs, windows, sources, ran, slo, moves>>

ErrorClass(code) ==
    CASE code = "command_failed" -> "EXECUTION"
      [] code = "evidence_contract_failed" -> "CONTRACT"
      [] code = "cleanup_failed" -> "CLEANUP"
      [] code = "report_write_failed" -> "ARTIFACT"
      [] code = "observation_contract_failed" -> "OBSERVATION"
      [] OTHER -> "NONE"

Graph(evs) == [k \in DOMAIN evs |-> Child(evs[k].stage, evs[k].branch, evs[k].attempt)]

\* _alerts: the names whose state is ALERT.
Alerts(evs, business, class, objected) ==
    LET failed(k) == evs[k].outcome = "FAILED" /\ evs[k].stage # "run_finalize"
    IN {a \in {"EXECUTION", "CLEANUP", "RETRY", "CONTRACT"} :
          CASE a = "EXECUTION" -> class = "EXECUTION" \/ \E k \in DOMAIN evs : failed(k)
            [] a = "CLEANUP" -> class = "CLEANUP"
                                \/ \E k \in DOMAIN evs : failed(k) /\ evs[k].stage = "workspace_cleanup"
            [] a = "RETRY" -> ~( /\ \A b \in Branches : Times(evs, "approval_execute", b) = 2
                                                       /\ Times(evs, "terminal_verify", b) = 2
                                 /\ business)
            [] OTHER -> class = "CONTRACT" \/ objected}

PrimaryError(objected) ==
    IF err # None THEN err ELSE IF objected THEN "observation_contract_failed" ELSE None

Observation ==
    LET objected == violated \/ (Business /\ Graph(events) # ExpectedChildGraph)
        code == PrimaryError(objected)
        evs == Append(events, [stage |-> "run_finalize", branch |-> "none", attempt |-> 1,
                               outcome |-> IF code = None THEN "SUCCEEDED" ELSE "FAILED"])
    IN [ok |-> code = None, code |-> code,
        source |-> IF Business THEN Source ELSE [stable |-> FALSE, sha |-> None, clean |-> FALSE],
        business |-> Business,
        events |-> evs,
        alerts |-> Alerts(evs, Business, ErrorClass(code), objected)]

\* The report goes into the run directory this run created, failed run or not.
WriteObservation ==
    /\ pc = "finish" /\ mode = "slo"
    /\ \E o \in Outcomes(WriteFailure) :
        /\ Charge(o)
        /\ IF OwnedRunDirectory /\ o = "ok"
           THEN obs' = Observation /\ published' = published \cup {"observation"}
           ELSE UNCHANGED <<obs, published>>
    /\ pc' = "collect"
    /\ UNCHANGED <<mode, git, i, rev, before, after, dir, ws, err, dirty, events, violated, projected,
                   windows, sources, ran, slo, moves>>

\* The projections of both branches were accepted, and the defense result was.
LifecycleProven == projected = Branches /\ Business

\* run_lifecycle_evidence_demo.main: only a defense run without error and with
\* both projections is published.
WriteLifecycle ==
    /\ pc = "finish" /\ mode = "lifecycle"
    /\ \E o \in Outcomes(WriteFailure) :
        /\ Charge(o)
        /\ published' = IF LifecycleProven /\ OwnedRunDirectory /\ o = "ok"
                        THEN published \cup {"lifecycle"} ELSE published
    /\ pc' = "done"
    /\ UNCHANGED <<mode, git, i, rev, before, after, dir, ws, err, dirty, events, violated, projected, obs,
                   windows, sources, ran, slo, moves>>

----------------------------------------------------------------------------
(* run_slo_evidence_demo *)

ValidSource(s) == s.stable /\ s.sha # None

\* The body of a report the child calls ok; its metrics and timings are computed
\* from its events, so they agree with them.
ContractValid(o, matched) ==
    o.ok /\ matched = Len(ExpectedGraph) /\ Len(o.events) = Len(ExpectedGraph) /\ o.business /\ o.alerts = {}

\* _normalize_observation of a persisted child report.
Normalize(o) ==
    LET matches == {k \in DOMAIN ExpectedGraph :
                       /\ k <= Len(o.events)
                       /\ Graph(o.events)[k] = ExpectedGraph[k]
                       /\ o.events[k].outcome = "SUCCEEDED"}
        two == IF o.business THEN 2 ELSE 0
    IN [stages |-> Cardinality(matches), outcomes |-> two, retries |-> two, cleanups |-> two,
        valid |-> ContractValid(o, Cardinality(matches))]

\* The envelope of the child names the report of its run directory.
ChildReport == obs

\* _collect_windows: one window read, the next one started.
Refusal ==
    IF ChildReport = None THEN "window_contract_failed"
    ELSE IF ~ValidSource(obs.source) THEN "source_binding_failed"
    ELSE IF Normalize(obs).cleanups = 2 /\ (\E b \in Branches : Remains(b))
         THEN "window_contract_failed" ELSE None

CollectWindow ==
    /\ pc = "collect"
    /\ IF Refusal # None
       THEN slo' = Refusal /\ pc' = "done" /\ UNCHANGED <<windows, sources, run>>
       ELSE /\ windows' = Append(windows, Normalize(obs))
            /\ sources' = Append(sources, obs.source)
            /\ UNCHANGED slo
            /\ IF Len(windows) + 1 < Windows
               THEN pc' = "revision" /\ FreshRun
               ELSE pc' = "evaluate" /\ UNCHANGED run
    /\ i' = 1
    /\ UNCHANGED <<mode, git, ran, faults, moves>>

\* _evaluate_windows: integer parts per million of each indicator.
Total(field) == FoldLeft(LAMBDA n, w : n + w[field], 0, windows)
Ppm(field, perWindow) == (Total(field) * 1000000) \div (perWindow * Windows)
ValidWindows == Cardinality({k \in DOMAIN windows : windows[k].valid})
Breached ==
    {s \in {"stages", "outcomes", "retries", "cleanups"} :
        Ppm(s, IF s = "stages" THEN Len(ExpectedGraph) ELSE 2) < 1000000}
    \cup (IF (ValidWindows * 1000000) \div Windows < 1000000 THEN {"valid"} ELSE {})

\* _aggregate_source: every window has the source of the first one.
OneSource == \A k \in DOMAIN sources : sources[k] = sources[1]

EvaluateWindows ==
    /\ pc = "evaluate"
    /\ \E o \in Outcomes(WriteFailure) :
        /\ Charge(o)
        /\ slo' = IF ~OneSource THEN "source_binding_failed"
                  ELSE IF o # "ok" THEN "report_write_failed"
                  ELSE IF Breached = {} THEN "OK" ELSE "BREACH"
    /\ pc' = "done"
    /\ UNCHANGED <<mode, git, i, run, windows, sources, ran, moves>>

----------------------------------------------------------------------------
\* Someone commits to the repository or edits a tracked file meanwhile.
RepositoryMoves ==
    /\ pc \notin {"done", "killed"} /\ moves < MaxMoves
    /\ moves' = moves + 1
    /\ git' \in {[sha |-> git.sha + 1, clean |-> git.clean], [git EXCEPT !.clean = FALSE]}
    /\ git' # git
    /\ UNCHANGED <<mode, pc, i, run, windows, sources, ran, slo, faults>>

\* The wrapper is killed: nothing more is cleaned up or published.
KillWrapper ==
    /\ pc \notin {"done", "killed"} /\ faults < MaxFaults
    /\ pc' = "killed" /\ faults' = faults + 1
    /\ UNCHANGED <<mode, git, i, run, windows, sources, ran, slo, moves>>

Next ==
    \/ GitRevision \/ GitStatus \/ CreateRunDirectory \/ RunCommand \/ BodyDone
    \/ ReadLifecycleProjection \/ ResetWorkspace \/ CleanupDone \/ WriteDefenseReport
    \/ RecorderClock \/ WriteObservation \/ WriteLifecycle
    \/ CollectWindow \/ EvaluateWindows \/ RepositoryMoves \/ KillWrapper

Spec == Init /\ [][Next]_vars

----------------------------------------------------------------------------
(* Properties *)

\* A defense or lifecycle report in the run directory means that both workspaces
\* are gone and that each branch executed its action exactly once, although the
\* approval was sent twice.
ReportMeansCleanAndOnce ==
    published \cap {"defense", "lifecycle"} # {} =>
        \A b \in Branches : ~Remains(b) /\ ws[b].runs = 1

\* A run that ends by itself and leaves a workspace behind says so: its error is
\* cleanup_failed and the cleanup alert of a written observation is raised.
LeftoverIsReported ==
    pc \in {"finish", "collect"} /\ (\E b \in Branches : Remains(b)) =>
        /\ err = "cleanup_failed"
        /\ obs # None => "CLEANUP" \in obs.alerts

\* An observation that is not ok raises an alert, one that is ok followed the
\* whole graph.
FailedRunRaisesAlert ==
    obs # None => IF obs.ok THEN Graph(obs.events) = ExpectedGraph ELSE obs.alerts # {}

\* An SLO evaluation is bound to one commit: every child of every window ran on
\* it, while other commits may have been made between the windows.  (A commit is
\* never undone within the three windows.)
SloIsOneCommit ==
    slo \in {"OK", "BREACH"} => ran = {sources[1].sha}

\* With a zero error budget a single miss in any window is a breach, and nothing
\* but a miss is.
SingleMissIsBreach ==
    slo \in {"OK", "BREACH"} =>
        (slo = "OK" <=> \A k \in DOMAIN windows :
                            windows[k] = [stages |-> Len(ExpectedGraph), outcomes |-> 2, retries |-> 2,
                                          cleanups |-> 2, valid |-> TRUE])

=============================================================================
