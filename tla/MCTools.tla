------------------------------ MODULE MCTools -------------------------------
(* The programs around the local stack that publish evidence, in one run.     *)
(* Five drive the stack and report on it: the backup and restore drill, the   *)
(* defense demonstration with its lifecycle and SLO wrappers, the runtime     *)
(* trace, the BubbleRAN defense and the containerised governance              *)
(* demonstration.  Four prepare a release: the submission bundle, the         *)
(* requirements of the wheels, the evidence of a wheel release and that of a  *)
(* container release.  Each is started on its own, so a behaviour is a        *)
(* behaviour of one of them.                                                  *)
EXTENDS Naturals, TLC

CONSTANTS
    None, MaxFaults, MaxOutside, MaxIdentity, Windows, EventLimit, Foreign, Builders,
    Commits, MaxMoves, MaxTokens, Broken, Torn, Wheels, Clean, Deps, Vulnerable, MaxChanges,
    Images, OnBase, Databases, MaxAge, MaxRunAge, Skew, MaxClock, TraceFaults, FirstParty,
    Ledger, Versions, VersionOf, Fits, Fixable,
    c1, c2, c3, good, rebuilt, unclean, old, new, first, second, other, d1, d2

VARIABLES
    part, \* the part that runs; its variables follow, those of the others are None
    dirDrill, known, pcDrill, k, ans, baseDrill, fresh, errDrill, cleanupErr, outcome,
    publishedDrill, seen, seq, faultsDrill, outsideDrill,
    mode, git, pcDefense, i, rev, beforeDefense, after, dirDefense, ws, errDefense,
    dirtyDefense, eventsDefense, violated, projected, publishedDefense, obs, windows,
    sources, ran, slo, faultsDefense, movesDefense,
    pcTrace, thread, request, answered, eventsTrace, file, closed, stamp, workTrace,
    capturedTrace, identity, errTrace, reported, faultsTrace, outsideTrace,
    pcBubbleRan, todo, cases, checkpoint, late, beforeBubbleRan, governed, workBubbleRan,
    capturedBubbleRan, exit, faultsBubbleRan, outsideBubbleRan,
    branch, stepDemo, project, started, beforeDemo, status, revision, applied, runs,
    restarts, replays, binding, declared, attempts, results, codeDemo, faultsDemo,
    head, dirtyBundle, lock, stage, output, pcBundle, codeBundle, snap, recorded, at,
    faultsBundle, movesBundle,
    versionRequirements, required, tokens, edges,
    commit, wheel, env, scan, reqs, inventory, audit, baseWheel, sbomWheel, auditExit,
    sbomExit, stray, manifestWheel, verdictWheel, touchedWheel, changesWheel,
    tag, database, clock, stepContainer, context, inspect, archive, versionContainer,
    metadata, gate, full, sbomContainer, exits, manifestContainer, verdictContainer,
    touchedContainer, changesContainer

\* Two commits with the released ledger and one whose ledger breaks the contract.
MCLedger == (c1 :> {}) @@ (c2 :> {}) @@ (c3 :> {"runs", "pinned"})

\* Releases of one and two numbers, with and without pre, post, development and
\* local parts, and a second epoch.
MCVersions ==
    [epoch : {0}, release : {<<1>>, <<1, 0>>, <<1, 1>>}, pre : {None, <<0, 1>>, <<2, 1>>},
     post : {None, 0, 1}, dev : {None, 0, 1}, local : {None, <<1>>}]
    \cup [epoch : {1}, release : {<<1>>}, pre : {None, <<0, 1>>}, post : {None}, dev : {None, 0}, local : {None}]

\* Three contents of the wheels, one of them unclean, two dependency sets, one of
\* them vulnerable.
MCVersionOf == (good :> 1) @@ (rebuilt :> 2) @@ (unclean :> 1)
MCFits == (good :> {old, new}) @@ (rebuilt :> {new}) @@ (unclean :> {old, new})

\* Two images on the base, one with a finding only the second database knows, and
\* one image on another base.
MCFixable == (first :> {d2}) @@ (second :> {}) @@ (other :> {})

Drill == INSTANCE RecoveryDrill
    WITH dir <- dirDrill, pc <- pcDrill, base <- baseDrill, err <- errDrill,
         published <- publishedDrill, faults <- faultsDrill, outside <- outsideDrill
Defense == INSTANCE DefenseEvidence
    WITH MaxMoves <- 1, pc <- pcDefense, before <- beforeDefense, dir <- dirDefense,
         err <- errDefense, dirty <- dirtyDefense, events <- eventsDefense,
         published <- publishedDefense, faults <- faultsDefense, moves <- movesDefense
Trace == INSTANCE RuntimeTrace
    WITH MaxFaults <- TraceFaults, pc <- pcTrace, events <- eventsTrace, work <- workTrace,
         captured <- capturedTrace, err <- errTrace, faults <- faultsTrace,
         outside <- outsideTrace
BubbleRan == INSTANCE BubbleRanDefense
    WITH pc <- pcBubbleRan, before <- beforeBubbleRan, work <- workBubbleRan,
         captured <- capturedBubbleRan, faults <- faultsBubbleRan,
         outside <- outsideBubbleRan
Demo == INSTANCE GovernanceDemo
    WITH MaxFaults <- TraceFaults, step <- stepDemo, before <- beforeDemo, code <- codeDemo,
         faults <- faultsDemo
Bundle == INSTANCE SubmissionBundle
    WITH dirty <- dirtyBundle, pc <- pcBundle, code <- codeBundle, faults <- faultsBundle,
         moves <- movesBundle
Requirements == INSTANCE ReleaseRequirements
    WITH Wheels <- FirstParty, version <- versionRequirements
Wheel == INSTANCE ReleaseEvidence
    WITH base <- baseWheel, sbom <- sbomWheel, manifest <- manifestWheel,
         verdict <- verdictWheel, touched <- touchedWheel, changes <- changesWheel
Container == INSTANCE ContainerRelease
    WITH step <- stepContainer, version <- versionContainer, sbom <- sbomContainer,
         manifest <- manifestContainer, verdict <- verdictContainer,
         touched <- touchedContainer, changes <- changesContainer

ASSUME DrillConstants == Drill!DrillAssumption
ASSUME DefenseConstants == Defense!EvidenceAssumption
ASSUME TraceConstants == Trace!TraceAssumption
ASSUME BubbleRanConstants == BubbleRan!BubbleRanAssumption
ASSUME DemoConstants == Demo!DemoAssumption
ASSUME BundleConstants == Bundle!BundleAssumption
ASSUME RequirementsConstants == Requirements!RequirementsAssumption
ASSUME WheelConstants == Wheel!ReleaseAssumption
ASSUME ContainerConstants == Container!ContainerAssumption

drillVars == <<dirDrill, known, pcDrill, k, ans, baseDrill, fresh, errDrill, cleanupErr,
               outcome, publishedDrill, seen, seq, faultsDrill, outsideDrill>>
defenseVars == <<mode, git, pcDefense, i, rev, beforeDefense, after, dirDefense, ws,
                 errDefense, dirtyDefense, eventsDefense, violated, projected,
                 publishedDefense, obs, windows, sources, ran, slo, faultsDefense,
                 movesDefense>>
traceVars == <<pcTrace, thread, request, answered, eventsTrace, file, closed, stamp,
               workTrace, capturedTrace, identity, errTrace, reported, faultsTrace,
               outsideTrace>>
bubbleranVars == <<pcBubbleRan, todo, cases, checkpoint, late, beforeBubbleRan, governed,
                   workBubbleRan, capturedBubbleRan, exit, faultsBubbleRan, outsideBubbleRan>>
demoVars == <<branch, stepDemo, project, started, beforeDemo, status, revision, applied,
              runs, restarts, replays, binding, declared, attempts, results, codeDemo,
              faultsDemo>>
bundleVars == <<head, dirtyBundle, lock, stage, output, pcBundle, codeBundle, snap,
                recorded, at, faultsBundle, movesBundle>>
requirementsVars == <<versionRequirements, required, tokens, edges>>
wheelsVars == <<commit, wheel, env, scan, reqs, inventory, audit, baseWheel, sbomWheel,
                auditExit, sbomExit, stray, manifestWheel, verdictWheel, touchedWheel,
                changesWheel>>
containerVars == <<tag, database, clock, stepContainer, context, inspect, archive,
                   versionContainer, metadata, gate, full, sbomContainer, exits,
                   manifestContainer, verdictContainer, touchedContainer, changesContainer>>
vars == <<part, drillVars, defenseVars, traceVars, bubbleranVars, demoVars, bundleVars,
               requirementsVars, wheelsVars, containerVars>>

Init ==
    /\ part \in {"drill", "defense", "trace", "bubbleran", "demo", "bundle", "requirements", "wheels", "container"}
    /\ IF part = "drill" THEN Drill!Init
       ELSE /\ dirDrill = None /\ known = None /\ pcDrill = None /\ k = None /\ ans = None
            /\ baseDrill = None /\ fresh = None /\ errDrill = None /\ cleanupErr = None
            /\ outcome = None /\ publishedDrill = None /\ seen = None /\ seq = None
            /\ faultsDrill = None /\ outsideDrill = None
    /\ IF part = "defense" THEN Defense!Init
       ELSE /\ mode = None /\ git = None /\ pcDefense = None /\ i = None /\ rev = None
            /\ beforeDefense = None /\ after = None /\ dirDefense = None /\ ws = None
            /\ errDefense = None /\ dirtyDefense = None /\ eventsDefense = None
            /\ violated = None /\ projected = None /\ publishedDefense = None /\ obs = None
            /\ windows = None /\ sources = None /\ ran = None /\ slo = None
            /\ faultsDefense = None /\ movesDefense = None
    /\ IF part = "trace" THEN Trace!Init
       ELSE /\ pcTrace = None /\ thread = None /\ request = None /\ answered = None
            /\ eventsTrace = None /\ file = None /\ closed = None /\ stamp = None
            /\ workTrace = None /\ capturedTrace = None /\ identity = None
            /\ errTrace = None /\ reported = None /\ faultsTrace = None
            /\ outsideTrace = None
    /\ IF part = "bubbleran" THEN BubbleRan!Init
       ELSE /\ pcBubbleRan = None /\ todo = None /\ cases = None /\ checkpoint = None
            /\ late = None /\ beforeBubbleRan = None /\ governed = None
            /\ workBubbleRan = None /\ capturedBubbleRan = None /\ exit = None
            /\ faultsBubbleRan = None /\ outsideBubbleRan = None
    /\ IF part = "demo" THEN Demo!Init
       ELSE /\ branch = None /\ stepDemo = None /\ project = None /\ started = None
            /\ beforeDemo = None /\ status = None /\ revision = None /\ applied = None
            /\ runs = None /\ restarts = None /\ replays = None /\ binding = None
            /\ declared = None /\ attempts = None /\ results = None /\ codeDemo = None
            /\ faultsDemo = None
    /\ IF part = "bundle" THEN Bundle!Init
       ELSE /\ head = None /\ dirtyBundle = None /\ lock = None /\ stage = None
            /\ output = None /\ pcBundle = None /\ codeBundle = None /\ snap = None
            /\ recorded = None /\ at = None /\ faultsBundle = None /\ movesBundle = None
    /\ IF part = "requirements" THEN Requirements!Init
       ELSE /\ versionRequirements = None /\ required = None /\ tokens = None
            /\ edges = None
    /\ IF part = "wheels" THEN Wheel!Init
       ELSE /\ commit = None /\ wheel = None /\ env = None /\ scan = None /\ reqs = None
            /\ inventory = None /\ audit = None /\ baseWheel = None /\ sbomWheel = None
            /\ auditExit = None /\ sbomExit = None /\ stray = None /\ manifestWheel = None
            /\ verdictWheel = None /\ touchedWheel = None /\ changesWheel = None
    /\ IF part = "container" THEN Container!Init
       ELSE /\ tag = None /\ database = None /\ clock = None /\ stepContainer = None
            /\ context = None /\ inspect = None /\ archive = None /\ versionContainer = None
            /\ metadata = None /\ gate = None /\ full = None /\ sbomContainer = None
            /\ exits = None /\ manifestContainer = None /\ verdictContainer = None
            /\ touchedContainer = None /\ changesContainer = None

Next ==
    \/ part = "drill" /\ Drill!Next
       /\ UNCHANGED <<part, defenseVars, traceVars, bubbleranVars, demoVars, bundleVars,
                           requirementsVars, wheelsVars, containerVars>>
    \/ part = "defense" /\ Defense!Next
       /\ UNCHANGED <<part, drillVars, traceVars, bubbleranVars, demoVars, bundleVars,
                           requirementsVars, wheelsVars, containerVars>>
    \/ part = "trace" /\ Trace!Next
       /\ UNCHANGED <<part, drillVars, defenseVars, bubbleranVars, demoVars, bundleVars,
                           requirementsVars, wheelsVars, containerVars>>
    \/ part = "bubbleran" /\ BubbleRan!Next
       /\ UNCHANGED <<part, drillVars, defenseVars, traceVars, demoVars, bundleVars,
                           requirementsVars, wheelsVars, containerVars>>
    \/ part = "demo" /\ Demo!Next
       /\ UNCHANGED <<part, drillVars, defenseVars, traceVars, bubbleranVars, bundleVars,
                           requirementsVars, wheelsVars, containerVars>>
    \/ part = "bundle" /\ Bundle!Next
       /\ UNCHANGED <<part, drillVars, defenseVars, traceVars, bubbleranVars, demoVars,
                           requirementsVars, wheelsVars, containerVars>>
    \/ part = "requirements" /\ Requirements!Next
       /\ UNCHANGED <<part, drillVars, defenseVars, traceVars, bubbleranVars, demoVars,
                           bundleVars, wheelsVars, containerVars>>
    \/ part = "wheels" /\ Wheel!Next
       /\ UNCHANGED <<part, drillVars, defenseVars, traceVars, bubbleranVars, demoVars,
                           bundleVars, requirementsVars, containerVars>>
    \/ part = "container" /\ Container!Next
       /\ UNCHANGED <<part, drillVars, defenseVars, traceVars, bubbleranVars, demoVars,
                           bundleVars, requirementsVars, wheelsVars>>

Spec == Init /\ [][Next]_vars

----------------------------------------------------------------------------
(* Properties; the modules of the parts state them in detail.                  *)

\* What a published report claims is what happened, whatever failed, was repeated
\* or was changed by others meanwhile: a recovery, two branches that each executed
\* once, an SLO of one commit, the six events of a trace, a bypass without effect,
\* a replay across a restart (the report writers of the five programs).
ReportsAreTrue ==
    /\ part = "drill" => Drill!ReportProvesRecovery
    /\ part = "defense" => /\ Defense!ReportMeansCleanAndOnce /\ Defense!FailedRunRaisesAlert
                           /\ Defense!SloIsOneCommit
    /\ part = "trace" => Trace!ReportIsTheRun
    /\ part = "bubbleran" => BubbleRan!ReportIsTrue /\ BubbleRan!BypassIsWithoutEffect
    /\ part = "demo" => Demo!DemoReportIsTrue /\ Demo!ReplayIsAcrossRestart

\* A program that ends by itself with something of its own left behind says
\* cleanup_failed, whatever went wrong before (their finally blocks); only one
\* bundle builder at a time works on the directories that are cleaned up.
LeftoversAreReported ==
    /\ part = "drill" => Drill!LeftoverIsCleanupFailed
    /\ part = "defense" => Defense!LeftoverIsReported
    /\ part = "trace" => Trace!LeftoverIsCleanupFailed
    /\ part = "demo" => Demo!LeftoverIsReported
    /\ part = "bundle" => Bundle!OneBuilder /\ Bundle!FailureLeavesNothing

\* Clean-up removes only what the program made and captured: never the directory
\* of another program, nor a file that arrived later (_capture_tree,
\* _remove_backup_directory, _remove_captured_tree).
ForeignFilesAreKept ==
    [][/\ part = "drill" => Drill!ForeignDirectoriesKept
       /\ part = "trace" => Trace!OnlyCapturedRemoved
       /\ part = "bubbleran" => BubbleRan!NothingUnknownRemoved]_vars

\* A builder answers ok only for a complete output rendered from the commit that
\* is still checked out, and the manifest never marks an incomplete bundle, with
\* two builders, crashes and commits in between (build_submission_bundle.py).
BundleIsCommitBound == [][part = "bundle" => Bundle!OkIsCommitBound /\ Bundle!ManifestIsLast]_vars

\* What is computed is what is defined: versions are ordered, specifiers satisfied
\* and markers evaluated as PEP 440 and PEP 508 have it, a dependency cycle among
\* the wheels is refused (release_evidence.py, _version_key, _version_satisfies,
\* _evaluate_marker), and the indicators of an SLO are breached by a single miss and
\* by nothing else (run_slo_evidence_demo.py, _evaluate_windows).
CalculationsAreExact ==
    /\ part = "requirements" => /\ Requirements!OrderIsPep440 /\ Requirements!SpecifiersArePep440
                                /\ Requirements!MarkerIsGrammar /\ Requirements!CyclesAreFound
    /\ part = "defense" => Defense!SingleMissIsBreach

\* What the verification of a manifest passes is one release: clean, current and
\* of one commit or image, however old the files are and whatever was changed in
\* between, and it passes every untouched one (verify-manifest of both tools).
VerifiedIsReleasable ==
    /\ part = "wheels" => Wheel!VerifiedIsReleasable /\ Wheel!GateAndVerificationAgree
    /\ part = "container" => /\ Container!VerifiedIsOneCleanImage /\ Container!VerifiedDatabaseIsFresh
                             /\ Container!OnlyAgeInvalidates
=============================================================================
