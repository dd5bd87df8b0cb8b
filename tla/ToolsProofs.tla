----------------------------- MODULE ToolsProofs -----------------------------
(* Proofs about the programs around the local stack that MCTools runs: for    *)
(* each of them its inductive invariant, that it holds at the start and is    *)
(* kept by every step, and what follows from it; at the end the theorems      *)
(* about all of them.                                                         *)
EXTENDS MCTools, Integers, Sequences, SequenceTheorems, TLAPS

----------------------------------------------------------------------------
(* The release of the wheels *)

\* What the audit says of the dependencies it names is true, and a bill of
\* materials has its three parts.
WheelFiles ==
    /\ audit \notin Wheel!Missing => (audit.vulns <=> audit.dep \in Vulnerable)
    /\ sbomWheel \notin Wheel!Missing =>
         sbomWheel = [commit |-> sbomWheel.commit, wheel |-> sbomWheel.wheel, dep |-> sbomWheel.dep]

\* An answer is about the files as they are.
WheelVerdict == verdictWheel = "PASS" => Wheel!VerifyAccepts

\* An untouched manifest is what would be written now.
WheelManifest ==
    manifestWheel \notin Wheel!Missing /\ ~touchedWheel =>
        /\ Wheel!EvidenceComplete
        /\ manifestWheel = [commit |-> commit, files |-> Wheel!EvidenceFiles,
                            audit |-> Wheel!AuditAccepted, sbom |-> Wheel!SbomAccepted,
                            inventory |-> Wheel!InventoryAccepted,
                            scan |-> (scan \notin Wheel!Missing /\ scan.passed),
                            failures |-> Wheel!Failures]

WheelInv == WheelFiles /\ WheelVerdict /\ WheelManifest

LEMMA WheelStart == Wheel!Init => WheelInv
BY WheelConstants DEF Wheel!ReleaseAssumption, Wheel!Init, WheelInv, WheelFiles, WheelVerdict,
   WheelManifest, Wheel!Missing

LEMMA WheelFrame ==
    ASSUME WheelInv, UNCHANGED wheelsVars PROVE WheelInv'
<1>1. WheelFiles'
  BY DEF wheelsVars, WheelInv, WheelFiles, Wheel!Missing
<1>2. WheelVerdict'
  BY DEF wheelsVars, WheelInv, WheelVerdict, Wheel!Missing, Wheel!VerifyAccepts,
     Wheel!EvidenceComplete, Wheel!EvidenceFiles, Wheel!AuditAccepted, Wheel!SbomAccepted,
     Wheel!InventoryAccepted, Wheel!ScanAccepted, Wheel!RuntimeDependencies,
     Wheel!DependencyEdges, Wheel!ScanWheel
<1>3. WheelManifest'
  BY DEF wheelsVars, WheelInv, WheelManifest, Wheel!Missing, Wheel!EvidenceComplete,
     Wheel!EvidenceFiles, Wheel!AuditAccepted, Wheel!SbomAccepted, Wheel!InventoryAccepted,
     Wheel!ScanAccepted, Wheel!Failures, Wheel!RuntimeDependencies, Wheel!DependencyEdges,
     Wheel!ScanWheel
<1> QED  BY <1>1, <1>2, <1>3 DEF WheelInv

LEMMA WheelStep ==
    ASSUME WheelInv, Wheel!Next PROVE WheelInv'
<1> USE WheelConstants DEF Wheel!ReleaseAssumption
\* A command that writes evidence, and a change, void the answer and the manifest.
<1>1. ASSUME verdictWheel' = None, touchedWheel' = TRUE, WheelFiles' PROVE WheelInv'
  BY <1>1 DEF WheelInv, WheelVerdict, WheelManifest
<1>2. CASE Wheel!ScanWheels
  BY <1>1, <1>2 DEF Wheel!ScanWheels, Wheel!Written, WheelInv, WheelFiles, Wheel!Missing
<1>3. CASE Wheel!BuildRuntimeInventory
  BY <1>1, <1>3 DEF Wheel!BuildRuntimeInventory, Wheel!Written, WheelInv, WheelFiles, Wheel!Missing
<1>4. CASE Wheel!PipAudit
  <2>1. \/ audit' = [dep |-> reqs, vulns |-> reqs \in Vulnerable]
        \/ audit' \in {audit, Torn}
    BY <1>4 DEF Wheel!PipAudit
  <2>2. audit' \notin Wheel!Missing => (audit'.vulns <=> audit'.dep \in Vulnerable)
    <3>1. CASE audit' = [dep |-> reqs, vulns |-> reqs \in Vulnerable]
      <4>1. audit'.dep = reqs
        BY <3>1
      <4>2. audit'.vulns = (reqs \in Vulnerable)
        BY <3>1, Zenon
      <4> QED  BY <4>1, <4>2
    <3>2. CASE audit' \in {audit, Torn}
      BY <3>2 DEF WheelInv, WheelFiles, Wheel!Missing
    <3> QED  BY <2>1, <3>1, <3>2
  <2> QED
    BY <1>1, <1>4, <2>2 DEF Wheel!PipAudit, Wheel!Written, WheelInv, WheelFiles, Wheel!Missing
<1>5. CASE Wheel!CycloneDx
  BY <1>1, <1>5 DEF Wheel!CycloneDx, Wheel!Written, WheelInv, WheelFiles, Wheel!Missing
<1>6. CASE Wheel!FinalizeSbom
  BY <1>1, <1>6 DEF Wheel!FinalizeSbom, Wheel!Written, WheelInv, WheelFiles, Wheel!Missing
<1>7. CASE Wheel!Change
  BY <1>1, <1>7 DEF Wheel!Change, Wheel!evidence, WheelInv, WheelFiles, Wheel!Missing
<1>8. CASE Wheel!BuildManifest
  <2>1. /\ UNCHANGED <<commit, wheel, env, scan, reqs, inventory, audit, sbomWheel, auditExit,
                       sbomExit, stray>>
        /\ verdictWheel' = None /\ Wheel!EvidenceComplete
    BY <1>8 DEF Wheel!BuildManifest, Wheel!inputs, Wheel!evidence
  <2>2. WheelFiles' /\ WheelVerdict'
    BY <2>1 DEF WheelInv, WheelFiles, WheelVerdict, Wheel!Missing
  <2>3. WheelManifest'
    BY <1>8, <2>1 DEF Wheel!BuildManifest, WheelManifest, Wheel!Missing,
       Wheel!EvidenceComplete, Wheel!EvidenceFiles, Wheel!AuditAccepted, Wheel!SbomAccepted,
       Wheel!InventoryAccepted, Wheel!ScanAccepted, Wheel!Failures, Wheel!RuntimeDependencies,
       Wheel!DependencyEdges, Wheel!ScanWheel
  <2> QED  BY <2>2, <2>3 DEF WheelInv
<1>9. CASE Wheel!VerifyManifest
  <2>1. /\ UNCHANGED <<commit, wheel, env, scan, reqs, inventory, audit, sbomWheel, auditExit,
                       sbomExit, stray, manifestWheel, touchedWheel>>
        /\ verdictWheel' = "PASS" => Wheel!VerifyAccepts
    BY <1>9 DEF Wheel!VerifyManifest, Wheel!inputs, Wheel!evidence
  <2>2. WheelFiles'
    BY <2>1 DEF WheelInv, WheelFiles, Wheel!Missing
  <2>3. Wheel!VerifyAccepts => Wheel!VerifyAccepts'
    BY <2>1 DEF Wheel!VerifyAccepts, Wheel!Missing, Wheel!EvidenceComplete,
       Wheel!EvidenceFiles, Wheel!AuditAccepted, Wheel!SbomAccepted, Wheel!InventoryAccepted,
       Wheel!ScanAccepted, Wheel!RuntimeDependencies, Wheel!DependencyEdges, Wheel!ScanWheel
  <2>4. WheelManifest'
    BY <2>1 DEF WheelInv, WheelManifest, Wheel!Missing, Wheel!EvidenceComplete,
       Wheel!EvidenceFiles, Wheel!AuditAccepted, Wheel!SbomAccepted, Wheel!InventoryAccepted,
       Wheel!ScanAccepted, Wheel!Failures, Wheel!RuntimeDependencies, Wheel!DependencyEdges,
       Wheel!ScanWheel
  <2> QED  BY <2>1, <2>2, <2>3, <2>4 DEF WheelInv, WheelVerdict
<1> QED
  BY <1>2, <1>3, <1>4, <1>5, <1>6, <1>7, <1>8, <1>9 DEF Wheel!Next

LEMMA WheelFacts ==
    ASSUME WheelInv PROVE Wheel!VerifiedIsReleasable /\ Wheel!GateAndVerificationAgree
<1>1. Wheel!VerifiedIsReleasable
  <2> SUFFICES ASSUME verdictWheel = "PASS"
               PROVE  /\ wheel \in Clean
                      /\ inventory.dep \in Fits[wheel] \ Vulnerable
                      /\ inventory.version = VersionOf[wheel]
                      /\ sbomWheel = [commit |-> commit, wheel |-> wheel, dep |-> inventory.dep]
    BY DEF Wheel!VerifiedIsReleasable
  <2>1. /\ inventory \notin Wheel!Missing /\ audit \notin Wheel!Missing /\ sbomWheel \notin Wheel!Missing
        /\ Wheel!ScanWheel(wheel) /\ inventory.version = VersionOf[wheel]
        /\ ~audit.vulns /\ audit.dep = inventory.dep
        /\ sbomWheel.commit = commit /\ sbomWheel.wheel = wheel /\ sbomWheel.dep = inventory.dep
        /\ sbomWheel.dep \in Fits[wheel]
    BY DEF WheelInv, WheelVerdict, Wheel!VerifyAccepts, Wheel!ScanAccepted,
       Wheel!InventoryAccepted, Wheel!AuditAccepted, Wheel!SbomAccepted,
       Wheel!RuntimeDependencies, Wheel!DependencyEdges
  <2> QED  BY <2>1 DEF WheelInv, WheelFiles, Wheel!ScanWheel
<1>2. Wheel!GateAndVerificationAgree
  <2> SUFFICES ASSUME manifestWheel \notin Wheel!Missing, ~touchedWheel
               PROVE  manifestWheel.failures = {} <=> Wheel!VerifyAccepts
    BY DEF Wheel!GateAndVerificationAgree
  <2>1. Wheel!VerifyAccepts => manifestWheel.failures = {}
    BY DEF Wheel!VerifyAccepts
  <2>2. ASSUME manifestWheel.failures = {} PROVE Wheel!VerifyAccepts
    <3>1. Wheel!Failures = {}
      BY <2>2 DEF WheelInv, WheelManifest
    <3>2. /\ Wheel!InventoryAccepted /\ Wheel!AuditAccepted
          /\ Wheel!SbomAccepted /\ Wheel!ScanAccepted
      BY <3>1 DEF Wheel!Failures
    <3>3. /\ inventory # Torn /\ audit # Torn /\ sbomWheel # Torn /\ scan # Torn
          /\ auditExit = 0 /\ sbomExit = 0 /\ scan \notin Wheel!Missing
          /\ scan.passed = Wheel!ScanWheel(wheel) /\ Wheel!ScanWheel(wheel)
      BY <3>2 DEF Wheel!InventoryAccepted, Wheel!AuditAccepted, Wheel!SbomAccepted,
         Wheel!ScanAccepted, Wheel!Missing
    <3>4. /\ Wheel!EvidenceComplete /\ manifestWheel.commit = commit
          /\ manifestWheel.files = Wheel!EvidenceFiles
          /\ manifestWheel.audit = Wheel!AuditAccepted /\ manifestWheel.sbom = Wheel!SbomAccepted
          /\ manifestWheel.inventory = Wheel!InventoryAccepted
          /\ manifestWheel.scan = (scan \notin Wheel!Missing /\ scan.passed)
      BY DEF WheelInv, WheelManifest
    <3> QED  BY <2>2, <3>2, <3>3, <3>4 DEF Wheel!VerifyAccepts
  <2> QED  BY <2>1, <2>2
<1> QED  BY <1>1, <1>2

----------------------------------------------------------------------------
(* The release of the container *)

Dated(f) == f \notin Container!Missing => f.at \in Int

ContainerTypes ==
    /\ clock \in Int /\ stepContainer \in 1..10
    /\ database.updated \in Int /\ database.downloaded \in Int
    /\ Dated(context) /\ Dated(gate) /\ Dated(full) /\ Dated(sbomContainer)
    /\ metadata \notin Container!Missing => metadata.updated \in Int /\ metadata.downloaded \in Int

\* The manifest and its verification come last, and a run has a past.
ContainerOrder ==
    /\ stepContainer < 10 => manifestContainer = None /\ verdictContainer = None
    /\ context # Torn /\ (context # None => context.at <= clock)

\* An answer is about the files and the time as they are.
ContainerVerdict == verdictContainer = "PASS" => Container!VerifyAccepts

\* What stays true of accepted evidence while time passes.
Lasting(m) ==
    /\ Container!ImageAccepted
    /\ versionContainer \notin Container!Missing /\ metadata \notin Container!Missing /\ versionContainer = metadata
    /\ metadata.updated <= clock + Skew /\ Container!InRun(metadata.downloaded)
    /\ Container!GatePassed /\ Container!FullPassed /\ Container!ScansAgree
    /\ Container!SbomAccepted /\ Container!Timeline(m)

\* An untouched manifest is of these files.
ContainerManifest ==
    manifestContainer \notin Container!Missing /\ ~touchedContainer =>
        /\ Container!EvidenceRoot
        /\ manifestContainer = [at |-> manifestContainer.at, files |-> Container!files,
                                exits |-> exits, passed |-> manifestContainer.passed]
        /\ manifestContainer.passed \in BOOLEAN
        /\ manifestContainer.at \in Int /\ manifestContainer.at <= clock
        /\ context.at <= manifestContainer.at
        /\ manifestContainer.passed => Lasting(manifestContainer.at)

ContainerInv == ContainerTypes /\ ContainerOrder /\ ContainerVerdict /\ ContainerManifest

LEMMA ContainerNumbers ==
    /\ Skew \in Nat /\ MaxAge \in Nat /\ MaxRunAge \in Nat /\ MaxClock \in Nat
    /\ None # "PASS" /\ None # Torn
BY ContainerConstants DEF Container!ContainerAssumption

LEMMA LastCommands ==
    ASSUME NEW n \in 1..10
    PROVE  /\ Container!Commands[n] = "done" <=> n = 10
           /\ Container!Commands[n] = "manifest" <=> n = 9
           /\ Container!Commands[n] = "initialize" <=> n = 1
BY DEF Container!Commands

LEMMA ContainerStart == Container!Init => ContainerInv
<1> SUFFICES ASSUME Container!Init PROVE ContainerInv
  OBVIOUS
<1>1. gate \in {None} \cup [image : Images, at : {-Skew - 1}, fixable : {FALSE}]
  BY DEF Container!Init
<1>2. Dated(gate)
  <2>1. -Skew - 1 \in Int
    BY ContainerNumbers
  <2>2. gate # None => gate.at = -Skew - 1
    BY <1>1
  <2> QED  BY <2>1, <2>2 DEF Dated, Container!Missing
<1>3. database.updated = 0 /\ database.downloaded = 0
  BY DEF Container!Init
<1>4. ContainerTypes
  BY <1>2, <1>3 DEF Container!Init, ContainerTypes, Dated, Container!Missing
<1>5. ContainerOrder
  BY <1>4, ContainerNumbers DEF Container!Init, ContainerOrder, ContainerTypes
<1> QED
  BY <1>4, <1>5, ContainerNumbers DEF Container!Init, ContainerInv, ContainerVerdict,
     ContainerManifest, Container!Missing

LEMMA ContainerFrame ==
    ASSUME ContainerInv, UNCHANGED containerVars PROVE ContainerInv'
<1>1. ContainerTypes' /\ ContainerOrder'
  BY DEF containerVars, ContainerInv, ContainerTypes, ContainerOrder, Dated, Container!Missing
<1>2. Container!EvidenceRoot' = Container!EvidenceRoot /\ Container!files' = Container!files
  BY DEF containerVars, Container!EvidenceRoot, Container!files
<1>3. ContainerVerdict'
  BY <1>2 DEF containerVars, ContainerInv, ContainerVerdict, Container!VerifyAccepts,
     Container!ValidGeneratedAt, Container!Assemble, Container!Passed,
     Container!ContextAccepted, Container!ImageAccepted, Container!Inspected,
     Container!ArchiveIsInspected, Container!DatabaseAccepted, Container!Fresh,
     Container!GatePassed, Container!FullPassed, Container!ScansAgree, Container!SbomAccepted,
     Container!ScanAccepted, Container!Timeline, Container!InRun, Container!Missing
<1>4. ContainerManifest'
  BY <1>2 DEF containerVars, ContainerInv, ContainerManifest, Lasting,
     Container!ImageAccepted, Container!Inspected, Container!ArchiveIsInspected,
     Container!GatePassed, Container!FullPassed, Container!ScansAgree, Container!SbomAccepted,
     Container!ScanAccepted, Container!Timeline, Container!InRun, Container!Missing
<1> QED  BY <1>1, <1>3, <1>4 DEF ContainerInv

LEMMA AssembledPassed ==
    ASSUME NEW m, NEW x, x = Container!Assemble(m) PROVE x.passed = Container!Passed(m)
BY Zenon DEF Container!Assemble

\* What the manifest was assembled from is still accepted when only time has passed.
LEMMA TimePasses ==
    ASSUME ContainerInv, NEW m \in Int, Lasting(m), clock' \in Int, clock <= clock',
           UNCHANGED <<context, inspect, archive, versionContainer, metadata, gate, full,
                       sbomContainer, exits>>
    PROVE  Lasting(m)'
<1> USE ContainerNumbers
<1>1. /\ metadata \notin Container!Missing /\ gate \notin Container!Missing
      /\ full \notin Container!Missing /\ sbomContainer \notin Container!Missing
  BY DEF Lasting, Container!GatePassed, Container!FullPassed, Container!SbomAccepted,
     Container!ScanAccepted
<1>2. /\ metadata.updated \in Int /\ metadata.downloaded \in Int
      /\ gate.at \in Int /\ full.at \in Int /\ sbomContainer.at \in Int /\ clock \in Int
  BY <1>1 DEF ContainerInv, ContainerTypes, Dated
<1>3. \A t \in Int : context.at - Skew <= t /\ t <= clock + Skew
                     => context'.at - Skew <= t /\ t <= clock' + Skew
  <2>1. context'.at = context.at
    OBVIOUS
  <2>2. PICK c \in Int, d \in Int, skew \in Nat : c = clock /\ d = clock' /\ skew = Skew
    BY <1>2
  <2>3. c + skew <= d + skew
    <3>1. c <= d
      BY <2>2
    <3>2. c \in Int /\ d \in Int /\ skew \in Int
      BY <2>2
    <3> QED  BY <3>1, <3>2
  <2>4. \A t \in Int : t <= c + skew => t <= d + skew
    BY <2>3
  <2> QED  BY <2>1, <2>2, <2>4
<1>4. Container!InRun(metadata.downloaded)' /\ metadata'.updated <= clock' + Skew
  BY <1>2, <1>3 DEF Lasting, Container!InRun
<1>5. Container!GatePassed' /\ Container!FullPassed' /\ Container!SbomAccepted'
  BY <1>2, <1>3 DEF Lasting, Container!InRun, Container!GatePassed, Container!FullPassed,
     Container!SbomAccepted, Container!ScanAccepted, Container!Missing
<1>6. Container!ImageAccepted' /\ Container!ScansAgree' /\ Container!Timeline(m)'
  BY DEF Lasting, Container!ImageAccepted, Container!Inspected, Container!ArchiveIsInspected,
     Container!ScansAgree, Container!Timeline, Container!Missing
<1> QED  BY <1>4, <1>5, <1>6 DEF Lasting, Container!Missing

LEMMA ContainerStep ==
    ASSUME ContainerInv, Container!Next PROVE ContainerInv'
<1> USE ContainerNumbers
<1> stepContainer \in 1..10
  BY DEF ContainerInv, ContainerTypes
\* Before the manifest there is nothing to verify.
<1>1. ASSUME stepContainer < 9, stepContainer' = stepContainer + 1, Container!Rest, ContainerTypes',
             context' # Torn, context' # None => context'.at <= clock
      PROVE  ContainerInv'
  <2>1. manifestContainer' = None /\ verdictContainer' = None /\ clock' = clock
    BY <1>1 DEF Container!Rest, ContainerInv, ContainerOrder
  <2> QED
    BY <1>1, <2>1 DEF ContainerInv, ContainerOrder, ContainerVerdict, ContainerManifest,
       Container!Missing
<1>2. ASSUME NEW c, Container!Runs(c), c \notin {"manifest", "done"}
      PROVE  stepContainer < 9 /\ stepContainer' = stepContainer + 1 /\ stepContainer' \in 1..10
  BY <1>2, LastCommands DEF Container!Runs
<1>3. CASE Container!Initialize
  <2>1. context' = [at |-> clock]
    BY <1>3 DEF Container!Initialize
  <2>2. ContainerTypes'
    BY <1>2, <1>3, <2>1 DEF Container!Initialize, Container!outside, Container!Rest, ContainerInv,
       ContainerTypes, Dated, Container!Missing
  <2>3. context' # None /\ context' # Torn
    <3>1. context' \in [at : Int]
      BY <2>1 DEF ContainerInv, ContainerTypes
    <3> QED  BY <3>1, ContainerConstants DEF Container!ContainerAssumption
  <2> QED
    BY <1>1, <1>2, <1>3, <2>1, <2>2, <2>3 DEF Container!Initialize, ContainerInv, ContainerTypes
<1>4. CASE Container!Inspect
  <2>1. ContainerTypes'
    BY <1>2, <1>4 DEF Container!Inspect, Container!outside, Container!Rest, ContainerInv,
       ContainerTypes, Dated, Container!Missing
  <2> QED
    BY <1>1, <1>2, <1>4, <2>1 DEF Container!Inspect, ContainerInv, ContainerOrder
<1>5. CASE Container!Archive
  <2>1. ContainerTypes'
    BY <1>2, <1>5 DEF Container!Archive, Container!outside, Container!Rest, ContainerInv,
       ContainerTypes, Dated, Container!Missing
  <2> QED
    BY <1>1, <1>2, <1>5, <2>1 DEF Container!Archive, ContainerInv, ContainerOrder
<1>6. CASE Container!DownloadDatabase
  <2>1. database'.updated \in Int /\ database'.downloaded \in Int
    BY <1>6 DEF Container!DownloadDatabase, ContainerInv, ContainerTypes
  <2>2. ContainerTypes'
    BY <1>2, <1>6, <2>1 DEF Container!DownloadDatabase, Container!files, Container!Rest,
       ContainerInv, ContainerTypes, Dated, Container!Missing
  <2> QED
    BY <1>1, <1>2, <1>6, <2>2 DEF Container!DownloadDatabase, Container!files, ContainerInv,
       ContainerOrder
<1>7. CASE Container!ReadDatabaseMetadata
  <2>1. ContainerTypes'
    BY <1>2, <1>7 DEF Container!ReadDatabaseMetadata, Container!outside, Container!Rest,
       ContainerInv, ContainerTypes, Dated, Container!Missing
  <2> QED
    BY <1>1, <1>2, <1>7, <2>1 DEF Container!ReadDatabaseMetadata, ContainerInv, ContainerOrder
<1>8. CASE Container!GateScan
  <2>1. Dated(gate)'
    BY <1>8 DEF Container!GateScan, Container!Report, Dated, Container!Missing, ContainerInv,
       ContainerTypes
  <2>2. ContainerTypes'
    BY <1>2, <1>8, <2>1 DEF Container!GateScan, Container!outside, Container!Rest,
       ContainerInv, ContainerTypes, Dated, Container!Missing
  <2> QED
    BY <1>1, <1>2, <1>8, <2>2 DEF Container!GateScan, ContainerInv, ContainerOrder
<1>9. CASE Container!FullScan
  <2>1. Dated(full)'
    BY <1>9 DEF Container!FullScan, Container!Report, Dated, Container!Missing, ContainerInv,
       ContainerTypes
  <2>2. ContainerTypes'
    BY <1>2, <1>9, <2>1 DEF Container!FullScan, Container!outside, Container!Rest,
       ContainerInv, ContainerTypes, Dated, Container!Missing
  <2> QED
    BY <1>1, <1>2, <1>9, <2>2 DEF Container!FullScan, ContainerInv, ContainerOrder
<1>10. CASE Container!GenerateSbom
  <2>1. Dated(sbomContainer)'
    BY <1>10 DEF Container!GenerateSbom, Dated, Container!Missing, ContainerInv, ContainerTypes
  <2>2. ContainerTypes'
    BY <1>2, <1>10, <2>1 DEF Container!GenerateSbom, Container!outside, Container!Rest,
       ContainerInv, ContainerTypes, Dated, Container!Missing
  <2> QED
    BY <1>1, <1>2, <1>10, <2>2 DEF Container!GenerateSbom, ContainerInv, ContainerOrder
<1>11. CASE Container!BuildManifest
  <2>1. stepContainer = 9 /\ stepContainer' = 10
    BY <1>11, LastCommands DEF Container!BuildManifest, Container!Runs
  <2>2. /\ UNCHANGED <<tag, database, clock, context, inspect, archive, versionContainer, metadata,
                       gate, full, sbomContainer, exits>>
        /\ manifestContainer = None /\ verdictContainer' = None
        /\ manifestContainer' = None \/ (Container!EvidenceRoot /\ manifestContainer' = Container!Assemble(clock))
    BY <1>11, <2>1 DEF Container!BuildManifest, Container!outside, Container!files, ContainerInv,
       ContainerOrder
  <2>3. ContainerTypes' /\ ContainerOrder'
    BY <2>1, <2>2 DEF ContainerInv, ContainerTypes, ContainerOrder, Dated, Container!Missing
  <2>4. ContainerManifest'
    <3> SUFFICES ASSUME Container!EvidenceRoot, manifestContainer' = Container!Assemble(clock)
                 PROVE  ContainerManifest'
      BY <2>2 DEF ContainerManifest, Container!Missing
    <3>1. PICK m : m = manifestContainer'
      OBVIOUS
    <3>2. Container!EvidenceRoot' /\ Container!files' = Container!files
      BY <2>2 DEF Container!EvidenceRoot, Container!files
    <3>3. m.at = clock /\ m = [at |-> m.at, files |-> Container!files, exits |-> exits, passed |-> m.passed]
      BY <3>1 DEF Container!Assemble
    <3>4. m.passed = Container!Passed(clock)
      BY <3>1, AssembledPassed
    <3>5. m.passed \in BOOLEAN
      BY <3>4 DEF Container!Passed
    <3>6. clock \in Int /\ context.at <= clock
      BY DEF ContainerInv, ContainerTypes, ContainerOrder, Container!EvidenceRoot
    <3>7. Container!Passed(clock) => Lasting(clock)
      BY DEF Container!Passed, Lasting, Container!DatabaseAccepted, Container!Fresh
    <3>8. Lasting(clock) => Lasting(clock)'
      BY <2>2, <3>6, TimePasses
    <3>9. m.passed => Lasting(m.at)'
      BY <2>2, <3>3, <3>4, <3>7, <3>8
    <3> QED
      BY <2>2, <3>1, <3>2, <3>3, <3>5, <3>6, <3>9 DEF ContainerManifest
  <2> QED  BY <2>2, <2>3, <2>4 DEF ContainerInv, ContainerVerdict
<1>12. CASE Container!VerifyManifest
  <2>1. /\ UNCHANGED <<tag, database, clock, stepContainer, context, inspect, archive,
                       versionContainer, metadata, gate, full, sbomContainer, exits,
                       manifestContainer, touchedContainer, changesContainer>>
        /\ stepContainer = 10
        /\ verdictContainer' = "PASS" => Container!VerifyAccepts
    BY <1>12, LastCommands DEF Container!VerifyManifest, Container!outside, Container!files
  <2>2. ContainerTypes' /\ ContainerOrder'
    BY <2>1 DEF ContainerInv, ContainerTypes, ContainerOrder, Dated, Container!Missing
  <2>3. Container!VerifyAccepts => Container!VerifyAccepts'
    BY <2>1 DEF Container!VerifyAccepts, Container!EvidenceRoot, Container!files,
       Container!ValidGeneratedAt, Container!Assemble, Container!Passed,
       Container!ContextAccepted, Container!ImageAccepted, Container!Inspected,
       Container!ArchiveIsInspected, Container!DatabaseAccepted, Container!Fresh,
       Container!GatePassed, Container!FullPassed, Container!ScansAgree, Container!SbomAccepted,
       Container!ScanAccepted, Container!Timeline, Container!InRun, Container!Missing
  <2>4. ContainerManifest'
    BY <2>1 DEF ContainerInv, ContainerManifest, Lasting, Container!EvidenceRoot, Container!files,
       Container!ImageAccepted, Container!Inspected, Container!ArchiveIsInspected,
       Container!GatePassed, Container!FullPassed, Container!ScansAgree, Container!SbomAccepted,
       Container!ScanAccepted, Container!Timeline, Container!InRun, Container!Missing
  <2> QED  BY <2>1, <2>2, <2>3, <2>4 DEF ContainerInv, ContainerVerdict
<1>13. CASE Container!Change
  <2>1. /\ UNCHANGED <<clock, stepContainer, context, inspect, versionContainer, metadata, full, exits>>
        /\ verdictContainer' = None /\ touchedContainer'
        /\ manifestContainer = None => manifestContainer' = None
    BY <1>13 DEF Container!Change, Container!Missing
  <2>2. database'.updated \in Int /\ database'.downloaded \in Int
    <3>1. database' = database \/ database' \in [content : Databases, updated : {clock}, downloaded : {clock}]
      BY <1>13 DEF Container!Change, Container!outside
    <3> QED  BY <3>1 DEF ContainerInv, ContainerTypes
  <2>3. Dated(gate)' /\ Dated(sbomContainer)'
    <3>1. gate' = gate
      BY <1>13 DEF Container!Change, Container!outside
    <3>2. \/ sbomContainer' = sbomContainer
          \/ sbomContainer \notin Container!Missing /\ sbomContainer' \in [image : Images, at : {sbomContainer.at}]
      BY <1>13 DEF Container!Change
    <3> QED  BY <3>1, <3>2 DEF ContainerInv, ContainerTypes, Dated, Container!Missing
  <2>4. ContainerTypes' /\ ContainerOrder'
    BY <2>1, <2>2, <2>3 DEF ContainerInv, ContainerTypes, ContainerOrder, Dated, Container!Missing
  <2> QED  BY <2>1, <2>4 DEF ContainerInv, ContainerVerdict, ContainerManifest
<1>14. CASE Container!Tick
  <2>1. /\ UNCHANGED <<tag, database, stepContainer, context, inspect, archive, versionContainer,
                       metadata, gate, full, sbomContainer, exits, manifestContainer,
                       touchedContainer, changesContainer>>
        /\ clock' = clock + 1 /\ verdictContainer' = None /\ clock \in Int
    BY <1>14 DEF Container!Tick, Container!outside, Container!files, ContainerInv, ContainerTypes
  <2>2. ContainerTypes' /\ ContainerOrder'
    BY <2>1 DEF ContainerInv, ContainerTypes, ContainerOrder, Dated, Container!Missing
  <2>3. ContainerManifest'
    <3> SUFFICES ASSUME manifestContainer \notin Container!Missing, ~touchedContainer
                 PROVE  ContainerManifest'
      BY <2>1 DEF ContainerManifest, Container!Missing
    <3>1. PICK m : m = manifestContainer.at
      OBVIOUS
    <3>2. Container!EvidenceRoot' /\ Container!files' = Container!files
      BY <2>1 DEF ContainerInv, ContainerManifest, Container!EvidenceRoot, Container!files
    <3>3. m \in Int /\ (manifestContainer.passed => Lasting(m)')
      BY <2>1, <3>1, TimePasses DEF ContainerInv, ContainerManifest
    <3> QED
      BY <2>1, <3>1, <3>2, <3>3 DEF ContainerInv, ContainerManifest
  <2> QED  BY <2>1, <2>2, <2>3 DEF ContainerInv, ContainerVerdict
<1> QED
  BY <1>3, <1>4, <1>5, <1>6, <1>7, <1>8, <1>9, <1>10, <1>11, <1>12, <1>13, <1>14
  DEF Container!Next

LEMMA ContainerFacts ==
    ASSUME ContainerInv
    PROVE  /\ Container!VerifiedIsOneCleanImage /\ Container!VerifiedDatabaseIsFresh
           /\ Container!OnlyAgeInvalidates
<1> USE ContainerNumbers
<1>1. ASSUME verdictContainer = "PASS" PROVE Container!Passed(manifestContainer.at)
  <2>1. Container!VerifyAccepts
    BY <1>1 DEF ContainerInv, ContainerVerdict
  <2>2. manifestContainer.passed = Container!Passed(manifestContainer.at)
    BY <2>1, AssembledPassed DEF Container!VerifyAccepts
  <2> QED  BY <2>1, <2>2 DEF Container!VerifyAccepts
<1>2. Container!VerifiedIsOneCleanImage
  <2> SUFFICES ASSUME verdictContainer = "PASS"
               PROVE  /\ {inspect, archive, gate.image, full.image, sbomContainer.image} = {inspect}
                      /\ inspect \in OnBase /\ ~gate.fixable /\ ~full.fixable
                      /\ \A t \in {gate.at, full.at, sbomContainer.at} : t >= context.at - Skew
    BY DEF Container!VerifiedIsOneCleanImage
  <2>1. /\ archive = inspect /\ inspect \in OnBase
        /\ gate \notin Container!Missing /\ gate.image = inspect /\ Container!InRun(gate.at)
        /\ full \notin Container!Missing /\ full.image = inspect /\ Container!InRun(full.at)
        /\ sbomContainer \notin Container!Missing /\ sbomContainer.image = inspect
        /\ Container!InRun(sbomContainer.at)
        /\ ~gate.fixable /\ full.fixable = gate.fixable /\ context \notin Container!Missing
    BY <1>1 DEF Container!Passed, Container!ImageAccepted, Container!ArchiveIsInspected,
       Container!GatePassed, Container!FullPassed, Container!ScanAccepted, Container!ScansAgree,
       Container!SbomAccepted, Container!ContextAccepted
  <2>2. /\ gate.at \in Int /\ full.at \in Int /\ sbomContainer.at \in Int /\ context.at \in Int
    BY <2>1 DEF ContainerInv, ContainerTypes, Dated
  <2> QED  BY <2>1, <2>2 DEF Container!InRun
<1>3. Container!VerifiedDatabaseIsFresh
  <2> SUFFICES ASSUME verdictContainer = "PASS" PROVE clock - metadata.updated <= MaxAge
    BY DEF Container!VerifiedDatabaseIsFresh
  <2>1. metadata \notin Container!Missing /\ clock - MaxAge <= metadata.updated
    BY <1>1 DEF Container!Passed, Container!DatabaseAccepted, Container!Fresh
  <2> QED  BY <2>1 DEF ContainerInv, ContainerTypes
<1>4. Container!OnlyAgeInvalidates
  <2> SUFFICES ASSUME manifestContainer \notin Container!Missing, ~touchedContainer,
                      manifestContainer.passed, clock - metadata.updated <= MaxAge,
                      clock - context.at <= MaxRunAge
               PROVE  Container!VerifyAccepts
    BY DEF Container!OnlyAgeInvalidates
  <2>1. PICK m : m = manifestContainer.at
    OBVIOUS
  <2>2. /\ Container!EvidenceRoot /\ m \in Int /\ m <= clock /\ context.at <= m /\ Lasting(m)
        /\ manifestContainer = [at |-> m, files |-> Container!files, exits |-> exits,
                                passed |-> manifestContainer.passed]
        /\ manifestContainer.passed = TRUE
    BY <2>1 DEF ContainerInv, ContainerManifest
  <2>3. /\ context \notin Container!Missing /\ context.at \in Int /\ context.at <= clock
        /\ metadata.updated \in Int /\ clock \in Int
    BY <2>2 DEF Container!EvidenceRoot, ContainerInv, ContainerOrder, ContainerTypes, Dated,
       Container!Missing, Lasting
  <2>4. Container!ContextAccepted
    BY <2>3 DEF Container!ContextAccepted, Container!ValidGeneratedAt
  <2>5. Container!DatabaseAccepted
    BY <2>2, <2>3 DEF Container!DatabaseAccepted, Container!Fresh, Lasting
  <2>6. Container!Passed(m)
    BY <2>2, <2>4, <2>5 DEF Container!Passed, Lasting
  <2>7. Container!Passed(m) = TRUE
    BY <2>6, Zenon DEF Container!Passed
  <2>8. manifestContainer = Container!Assemble(m)
    BY <2>2, <2>7 DEF Container!Assemble
  <2>9. Container!ValidGeneratedAt(m)
    BY <2>2, <2>3 DEF Container!ValidGeneratedAt
  <2> QED  BY <2>1, <2>2, <2>8, <2>9 DEF Container!VerifyAccepts
<1> QED  BY <1>2, <1>3, <1>4

----------------------------------------------------------------------------
(* The submission bundle *)

Working == {"look", "stage", "mkout", "link", "unlink", "verify"}
Preparing == {"start", "render", "lock"}

IsDir(d) == d = [by |-> d.by, files |-> d.files]

BundleTypes ==
    /\ head \in Commits /\ IsDir(stage) /\ IsDir(output)
    /\ pcBundle \in [Builders -> Preparing \cup Working \cup {"cleanup", "return", "done"}]
    /\ codeBundle \in [Builders -> Bundle!Codes \cup {None}]
    /\ snap \in [Builders -> Commits \cup {None}]
    /\ at \in [Builders -> 1..3]

\* A builder that has published, or found its own bundle published.
Succeeding(p) == pcBundle[p] = "return" \/ (pcBundle[p] = "cleanup" /\ codeBundle[p] = None)

\* A builder that fills the output directory, or is about to remove it.
Filling(p) ==
    pcBundle[p] \in {"link", "unlink", "verify"} \/ (pcBundle[p] = "cleanup" /\ codeBundle[p] # None)

EndedWell(p) == pcBundle[p] = "done" /\ codeBundle[p] \notin {"cleanup_failed", "crashed"}

\* The lock and the two directories are a builder's between their making and
\* their removal.
BuilderHolds(p) ==
    /\ pcBundle[p] \in Working \cup {"cleanup"} => lock = p
    /\ pcBundle[p] \in Preparing \cup {"return"} \/ EndedWell(p) => lock # p
    /\ pcBundle[p] \in Preparing \cup {"look"} \/ Succeeding(p) \/ EndedWell(p) => stage.by # p
    /\ pcBundle[p] \in Working \ {"look"} => stage.by = p
    /\ pcBundle[p] \in Preparing \cup {"look", "stage", "mkout"} => output.by # p
    /\ pcBundle[p] \in {"link", "unlink", "verify"} => output.by = p
    /\ pcBundle[p] \notin {"cleanup", "done"} => codeBundle[p] = None

\* The files are published in order, and a success is about these files.
BuilderPublishes(p) ==
    /\ pcBundle[p] \in Preparing \cup {"look", "stage", "link", "unlink"} => at[p] \in 1..2
    /\ pcBundle[p] = "mkout" => at[p] = 1
    /\ pcBundle[p] = "link" => DOMAIN output.files = (IF at[p] = 1 THEN {} ELSE {"page"})
    /\ pcBundle[p] = "unlink" => DOMAIN output.files = (IF at[p] = 1 THEN {"page"} ELSE Bundle!Names)
    /\ Succeeding(p) => output.files = Bundle!Rendered(p)
    /\ EndedWell(p) /\ output.by = p => DOMAIN output.files = Bundle!Names

BundleApart == \A p, q \in Builders : Succeeding(p) /\ Filling(q) => output.by # q

BundleInv ==
    /\ BundleTypes /\ BundleApart
    /\ \A p \in Builders : BuilderHolds(p) /\ BuilderPublishes(p)

LEMMA BundleNames ==
    /\ Bundle!Names = {"page", "manifest"} /\ Len(Bundle!OutputFilenames) = 2
    /\ Bundle!OutputFilenames[1] = "page" /\ Bundle!OutputFilenames[2] = "manifest"
    /\ \A n \in 1..2 : Bundle!PublishOrder(n) = Bundle!OutputFilenames[n]
<1>1. /\ Len(Bundle!OutputFilenames) = 2 /\ DOMAIN Bundle!OutputFilenames = 1..2
      /\ Bundle!OutputFilenames[1] = "page" /\ Bundle!OutputFilenames[2] = "manifest"
  BY DEF Bundle!OutputFilenames
<1>2. 1..2 = {1, 2}
  OBVIOUS
<1>3. Bundle!Names = {"page", "manifest"}
  BY <1>1, <1>2 DEF Bundle!Names, Bundle!Range
<1> QED  BY <1>1, <1>3 DEF Bundle!PublishOrder

LEMMA BundleConstantsApart ==
    /\ None \notin Builders /\ Foreign \notin Builders /\ None # Foreign
    /\ None \notin Bundle!Codes
BY BundleConstants DEF Bundle!BundleAssumption

LEMMA BundleStart == Bundle!Init => BundleInv
<1> SUFFICES ASSUME Bundle!Init PROVE BundleInv
  OBVIOUS
<1>1. BundleTypes
  BY DEF Bundle!Init, Bundle!NoDir, IsDir, BundleTypes, Preparing, Working
<1>2. /\ \A p \in Builders : pcBundle[p] = "start" /\ codeBundle[p] = None /\ at[p] = 1
      /\ lock = None /\ stage.by = None /\ output.by = None
  BY DEF Bundle!Init, Bundle!NoDir
<1>3. BundleApart
  BY <1>2 DEF BundleApart, Succeeding
<1>4. ASSUME NEW p \in Builders PROVE BuilderHolds(p) /\ BuilderPublishes(p)
  BY <1>2, BundleConstantsApart DEF BuilderHolds, BuilderPublishes, Succeeding, EndedWell,
     Working, Preparing
<1> QED  BY <1>1, <1>3, <1>4 DEF BundleInv

\* What a step of one builder leaves to the others.
LEMMA OneBuilderMoves ==
    ASSUME BundleInv, BundleTypes', NEW p \in Builders,
           \A q \in Builders \ {p} : /\ pcBundle'[q] = pcBundle[q] /\ codeBundle'[q] = codeBundle[q]
                                     /\ at'[q] = at[q] /\ snap'[q] = snap[q],
           lock' = lock \/ (lock \in {None, p} /\ lock' \in {None, p, Foreign}),
           stage'.by = stage.by \/ (stage.by \in {None, p} /\ stage'.by \in {None, p}),
           output' = output \/ /\ output.by \in {None, p} /\ output'.by \in {None, p}
                               /\ \A q \in Builders \ {p} : ~Succeeding(q),
           (BuilderHolds(p) /\ BuilderPublishes(p))',
           Succeeding(p)' => Succeeding(p) \/ lock = p,
           Filling(p)' => Filling(p) \/ output'.by # p \/ \A q \in Builders \ {p} : ~Succeeding(q)
    PROVE  BundleInv'
<1> USE BundleConstantsApart
<1>1. ASSUME NEW q \in Builders \ {p}
      PROVE  /\ Succeeding(q)' <=> Succeeding(q)
             /\ Filling(q)' <=> Filling(q)
             /\ EndedWell(q)' <=> EndedWell(q)
  BY DEF Succeeding, Filling, EndedWell
<1>2. ASSUME NEW q \in Builders \ {p} PROVE BuilderHolds(q)'
  <2>1. BuilderHolds(q)
    BY DEF BundleInv
  <2>2. lock' = q <=> lock = q
    OBVIOUS
  <2>3. stage'.by = q <=> stage.by = q
    OBVIOUS
  <2>4. output'.by = q <=> output.by = q
    OBVIOUS
  <2> QED  BY <1>1, <2>1, <2>2, <2>3, <2>4 DEF BuilderHolds
<1>3. ASSUME NEW q \in Builders \ {p} PROVE BuilderPublishes(q)'
  <2>1. BuilderPublishes(q) /\ BuilderHolds(q)
    BY DEF BundleInv
  <2>2. Bundle!Rendered(q)' = Bundle!Rendered(q)
    BY DEF Bundle!Rendered
  <2>3. CASE output' = output
    BY <1>1, <2>1, <2>2, <2>3 DEF BuilderPublishes
  <2>4. CASE output' # output
    <3>1. output.by # q /\ output'.by # q /\ ~Succeeding(q)
      BY <2>4
    <3>2. pcBundle[q] \notin {"link", "unlink"}
      BY <2>1, <3>1 DEF BuilderHolds
    <3> QED  BY <1>1, <2>1, <3>1, <3>2 DEF BuilderPublishes
  <2> QED  BY <2>3, <2>4
<1>4. BundleApart'
  <2> SUFFICES ASSUME NEW a \in Builders, NEW b \in Builders, Succeeding(a)', Filling(b)'
               PROVE  output'.by # b
    BY DEF BundleApart
  <2>1. CASE a = b
    BY <2>1 DEF Succeeding, Filling
  <2>2. CASE a = p /\ b # p
    <3>1. Filling(b)
      BY <1>1, <2>2
    <3>2. CASE Succeeding(p)
      <4>1. output.by # b
        BY <2>2, <3>1, <3>2 DEF BundleInv, BundleApart
      <4> QED  BY <2>2, <4>1
    <3>3. CASE lock = p
      <4>1. lock = b
        BY <3>1 DEF BundleInv, BuilderHolds, Filling, Working
      <4> QED  BY <2>2, <3>3, <4>1
    <3> QED  BY <2>2, <3>2, <3>3
  <2>3. CASE a # p /\ b = p
    <3>1. Succeeding(a)
      BY <1>1, <2>3
    <3>2. output' = output
      BY <2>3, <3>1
    <3>3. CASE Filling(p)
      BY <2>3, <3>1, <3>2, <3>3 DEF BundleInv, BundleApart
    <3> QED  BY <2>3, <3>1, <3>3
  <2>4. CASE a # p /\ b # p
    <3>1. Succeeding(a) /\ Filling(b)
      BY <1>1, <2>4
    <3>2. output' = output
      BY <2>4, <3>1
    <3> QED  BY <3>1, <3>2 DEF BundleInv, BundleApart
  <2> QED  BY <2>1, <2>2, <2>3, <2>4
<1>5. ASSUME NEW q \in Builders PROVE (BuilderHolds(q) /\ BuilderPublishes(q))'
  BY <1>2, <1>3
<1> QED  BY <1>4, <1>5 DEF BundleInv

LEMMA LedgerErrors ==
    ASSUME NEW l, Bundle!LedgerError(l) # None
    PROVE  Bundle!LedgerError(l) \in Bundle!Codes \ {"ok", "cleanup_failed", "crashed"}
BY DEF Bundle!LedgerError, Bundle!Codes

\* A builder that ends before it has the lock.
LEMMA EndsEarly ==
    ASSUME BundleInv, NEW p \in Builders, pcBundle[p] \in Preparing, NEW c \in Bundle!Codes,
           Bundle!End(p, c), UNCHANGED <<head, stage, output, at>>,
           snap' = snap \/ snap' = [snap EXCEPT ![p] = head],
           lock' = lock \/ (lock = None /\ lock' = Foreign)
    PROVE  BundleInv'
<1> USE BundleConstantsApart
<1>1. /\ pcBundle'[p] = "done" /\ codeBundle'[p] = c /\ BundleTypes'
      /\ \A q \in Builders \ {p} : /\ pcBundle'[q] = pcBundle[q] /\ codeBundle'[q] = codeBundle[q]
                                    /\ at'[q] = at[q] /\ snap'[q] = snap[q]
  BY DEF BundleInv, BundleTypes, IsDir, Bundle!End, Preparing
<1>2. lock # p /\ stage.by # p /\ output.by # p
  BY DEF BundleInv, BuilderHolds
<1>3. lock' # p /\ stage'.by # p /\ output'.by # p
  BY <1>2
<1>4. ~Succeeding(p)' /\ ~Filling(p)'
  BY <1>1 DEF Succeeding, Filling
<1>5. BuilderHolds(p)' /\ BuilderPublishes(p)'
  BY <1>1, <1>3, <1>4 DEF BuilderHolds, BuilderPublishes, Preparing, Working
<1> QED  BY <1>1, <1>4, <1>5, OneBuilderMoves

\* A builder that goes on with the lock and the directories as they are.
LEMMA GoesOn ==
    ASSUME BundleInv, NEW p \in Builders, NEW to \in {"render", "lock"}, pcBundle[p] \in Preparing,
           Bundle!Go(p, to), UNCHANGED <<head, lock, stage, output, at>>,
           snap' = snap \/ snap' = [snap EXCEPT ![p] = head]
    PROVE  BundleInv'
<1>1. /\ pcBundle'[p] = to /\ codeBundle'[p] = codeBundle[p] /\ at'[p] = at[p] /\ BundleTypes'
      /\ \A q \in Builders \ {p} : /\ pcBundle'[q] = pcBundle[q] /\ codeBundle'[q] = codeBundle[q]
                                    /\ at'[q] = at[q] /\ snap'[q] = snap[q]
  BY DEF BundleInv, BundleTypes, IsDir, Bundle!Go, Preparing
<1>2. ~Succeeding(p)' /\ ~Filling(p)' /\ ~EndedWell(p)'
  BY <1>1 DEF Succeeding, Filling, EndedWell
<1>3. BuilderHolds(p) /\ BuilderPublishes(p)
  BY DEF BundleInv
<1>4. BuilderHolds(p)' /\ BuilderPublishes(p)'
  BY <1>1, <1>2, <1>3 DEF BuilderHolds, BuilderPublishes, Preparing, Working
<1> QED  BY <1>1, <1>2, <1>4, OneBuilderMoves

\* A builder that holds the lock and fails goes to its cleanup.
LEMMA FailsHolding ==
    ASSUME BundleInv, NEW p \in Builders, pcBundle[p] \in Working,
           NEW c \in Bundle!Codes \ {"ok"}, Bundle!Fail(p, c),
           UNCHANGED <<head, lock, output, at, snap>>,
           stage'.by = stage.by \/ (stage.by = p /\ stage'.by = None), IsDir(stage)'
    PROVE  BundleInv'
<1> USE BundleConstantsApart
<1>1. /\ pcBundle'[p] = "cleanup" /\ codeBundle'[p] = c /\ BundleTypes'
      /\ \A q \in Builders \ {p} : /\ pcBundle'[q] = pcBundle[q] /\ codeBundle'[q] = codeBundle[q]
                                    /\ at'[q] = at[q] /\ snap'[q] = snap[q]
  BY DEF BundleInv, BundleTypes, IsDir, Bundle!Fail, Working
<1>2. ~Succeeding(p)' /\ ~EndedWell(p)'
  BY <1>1 DEF Succeeding, EndedWell
<1>3. lock = p
  BY DEF BundleInv, BuilderHolds
<1>4. BuilderHolds(p)' /\ BuilderPublishes(p)'
  BY <1>1, <1>2, <1>3 DEF BuilderHolds, BuilderPublishes, Preparing, Working
<1>5. Filling(p) \/ output'.by # p
  BY DEF BundleInv, BuilderHolds, Filling, Working
<1> QED  BY <1>1, <1>2, <1>4, <1>5, OneBuilderMoves

LEMMA BuilderSteps ==
    ASSUME BundleInv, NEW p \in Builders,
           \/ Bundle!LoadSourceSnapshot(p) \/ Bundle!RenderBundle(p) \/ Bundle!AcquireLock(p)
           \/ Bundle!LookAtWorkspace(p) \/ Bundle!StageFile(p) \/ Bundle!MakeOutput(p)
           \/ Bundle!LinkFile(p) \/ Bundle!UnlinkStaged(p) \/ Bundle!VerifyPublished(p)
           \/ Bundle!Cleanup(p) \/ Bundle!Return(p) \/ Bundle!Crash(p)
    PROVE  BundleInv'
<1> USE BundleConstantsApart
<1>0. /\ BundleTypes /\ BuilderHolds(p) /\ BuilderPublishes(p)
  BY DEF BundleInv
<1>1. CASE Bundle!LoadSourceSnapshot(p)
  <2>1. pcBundle[p] = "start" /\ UNCHANGED <<head, lock, stage, output, at>> /\ snap' = [snap EXCEPT ![p] = head]
    BY <1>1 DEF Bundle!LoadSourceSnapshot, Bundle!repo
  <2>2. CASE Bundle!Go(p, "render")
    BY <2>1, <2>2, GoesOn DEF Preparing
  <2>3. CASE Bundle!End(p, "source_not_clean")
    BY <2>1, <2>3, EndsEarly DEF Preparing, Bundle!Codes
  <2>4. CASE Bundle!LedgerError(Ledger[head]) # None /\ Bundle!End(p, Bundle!LedgerError(Ledger[head]))
    <3>1. PICK c : c = Bundle!LedgerError(Ledger[head])
      OBVIOUS
    <3> QED  BY <2>1, <2>4, <3>1, EndsEarly, LedgerErrors DEF Preparing
  <2> QED  BY <1>1, <2>2, <2>3, <2>4 DEF Bundle!LoadSourceSnapshot
<1>2. CASE Bundle!RenderBundle(p)
  <2>1. pcBundle[p] = "render" /\ UNCHANGED <<head, lock, stage, output, at, snap>>
    BY <1>2 DEF Bundle!RenderBundle, Bundle!repo
  <2>2. CASE Bundle!Go(p, "lock")
    BY <2>1, <2>2, GoesOn DEF Preparing
  <2>3. CASE Bundle!End(p, "bundle_contract_failed") \/ Bundle!End(p, "source_changed")
    BY <2>1, <2>3, EndsEarly DEF Preparing, Bundle!Codes
  <2> QED  BY <1>2, <2>2, <2>3 DEF Bundle!RenderBundle
<1>3. CASE Bundle!AcquireLock(p)
  <2>1. pcBundle[p] = "lock" /\ UNCHANGED <<head, stage, output, at, snap>>
    BY <1>3 DEF Bundle!AcquireLock, Bundle!repo
  <2>2. CASE lock = None /\ lock' = p /\ Bundle!Go(p, "look")
    <3>1. /\ pcBundle'[p] = "look" /\ codeBundle'[p] = codeBundle[p] /\ at'[p] = at[p] /\ BundleTypes'
          /\ \A q \in Builders \ {p} : /\ pcBundle'[q] = pcBundle[q] /\ codeBundle'[q] = codeBundle[q]
                                        /\ at'[q] = at[q] /\ snap'[q] = snap[q]
      BY <1>0, <2>1, <2>2 DEF BundleTypes, IsDir, Bundle!Go, Working
    <3>2. ~Succeeding(p)' /\ ~Filling(p)' /\ ~EndedWell(p)'
      BY <3>1 DEF Succeeding, Filling, EndedWell
    <3>3. BuilderHolds(p)' /\ BuilderPublishes(p)'
      BY <1>0, <2>1, <2>2, <3>1, <3>2 DEF BuilderHolds, BuilderPublishes, Preparing, Working
    <3> QED  BY <2>1, <2>2, <3>1, <3>2, <3>3, OneBuilderMoves
  <2>3. CASE /\ lock' = lock \/ (lock = None /\ lock' = Foreign)
             /\ \E c \in {"cleanup_failed", "workspace_unsafe", "build_in_progress"} : Bundle!End(p, c)
    BY <2>1, <2>3, EndsEarly DEF Preparing, Bundle!Codes
  <2>4. \E o \in {"ok", "torn"} :
           CASE Bundle!LockFree(p) /\ o = "ok" -> lock' = p /\ Bundle!Go(p, "look")
             [] Bundle!LockFree(p) /\ o = "torn" -> lock' = Foreign /\ Bundle!End(p, "cleanup_failed")
             [] ~Bundle!LockFree(p) /\ lock = Foreign -> Bundle!End(p, "workspace_unsafe") /\ UNCHANGED lock
             [] OTHER -> Bundle!End(p, "build_in_progress") /\ UNCHANGED lock
    BY <1>3 DEF Bundle!AcquireLock, Bundle!Outcomes
  <2> QED  BY <2>2, <2>3, <2>4 DEF Bundle!LockFree
<1>4. CASE Bundle!LookAtWorkspace(p)
  <2>1. /\ pcBundle[p] = "look" /\ UNCHANGED <<head, lock, output, at, snap>> /\ lock = p
        /\ stage.by # p /\ output.by # p
    BY <1>0, <1>4 DEF Bundle!LookAtWorkspace, Bundle!repo, BuilderHolds, Working
  <2>2. CASE UNCHANGED stage /\ \E c \in {"workspace_unsafe", "workspace_not_owned", "bundle_contract_failed", "source_changed"} : Bundle!Fail(p, c)
    BY <1>0, <2>1, <2>2, FailsHolding DEF Working, Bundle!Codes, BundleTypes, IsDir
  <2>3. CASE UNCHANGED stage /\ Bundle!Go(p, "cleanup") /\ Bundle!SameBytes(p)
    <3>1. /\ pcBundle'[p] = "cleanup" /\ codeBundle'[p] = codeBundle[p] /\ at'[p] = at[p] /\ BundleTypes'
          /\ \A q \in Builders \ {p} : /\ pcBundle'[q] = pcBundle[q] /\ codeBundle'[q] = codeBundle[q]
                                        /\ at'[q] = at[q] /\ snap'[q] = snap[q]
      BY <1>0, <2>1, <2>3 DEF BundleTypes, IsDir, Bundle!Go, Working
    <3>2. codeBundle[p] = None
      BY <1>0, <2>1 DEF BuilderHolds
    <3>3. Succeeding(p)' /\ ~Filling(p)' /\ ~EndedWell(p)'
      BY <3>1, <3>2 DEF Succeeding, Filling, EndedWell
    <3>4. output.files = Bundle!Rendered(p) /\ Bundle!Rendered(p)' = Bundle!Rendered(p)
      BY <2>1, <2>3 DEF Bundle!SameBytes, Bundle!Rendered
    <3>5. BuilderHolds(p)' /\ BuilderPublishes(p)'
      BY <2>1, <2>3, <3>1, <3>3, <3>4 DEF BuilderHolds, BuilderPublishes, Preparing, Working
    <3> QED  BY <2>1, <2>3, <3>1, <3>3, <3>5, OneBuilderMoves
  <2>4. CASE stage = Bundle!NoDir /\ output = Bundle!NoDir /\ stage' = [by |-> p, files |-> <<>>] /\ Bundle!Go(p, "stage")
    <3>1. /\ pcBundle'[p] = "stage" /\ codeBundle'[p] = codeBundle[p] /\ at'[p] = at[p] /\ BundleTypes'
          /\ \A q \in Builders \ {p} : /\ pcBundle'[q] = pcBundle[q] /\ codeBundle'[q] = codeBundle[q]
                                        /\ at'[q] = at[q] /\ snap'[q] = snap[q]
      BY <1>0, <2>1, <2>4 DEF BundleTypes, IsDir, Bundle!Go, Working
    <3>2. ~Succeeding(p)' /\ ~Filling(p)' /\ ~EndedWell(p)' /\ stage.by = None /\ stage'.by = p
      BY <2>4, <3>1 DEF Succeeding, Filling, EndedWell, Bundle!NoDir
    <3>3. BuilderHolds(p)' /\ BuilderPublishes(p)'
      BY <1>0, <2>1, <3>1, <3>2 DEF BuilderHolds, BuilderPublishes, Preparing, Working
    <3> QED  BY <2>1, <2>4, <3>1, <3>2, <3>3, OneBuilderMoves
  <2> QED
    BY <1>4, <2>2, <2>3, <2>4 DEF Bundle!LookAtWorkspace
<1>5. CASE Bundle!StageFile(p)
  <2>1. PICK o \in {"ok", "failed", "unread"} :
          /\ stage' = IF o = "failed" THEN stage
                      ELSE [stage EXCEPT !.files = [m \in DOMAIN @ \cup {Bundle!OutputFilenames[at[p]]} |-> Bundle!Rendered(p)[m]]]
          /\ IF o = "ok"
             THEN /\ at' = [at EXCEPT ![p] = IF @ = Len(Bundle!OutputFilenames) THEN 1 ELSE @ + 1]
                  /\ Bundle!Go(p, IF at[p] = Len(Bundle!OutputFilenames) THEN "mkout" ELSE "stage")
             ELSE Bundle!Fail(p, "bundle_write_failed") /\ UNCHANGED at
    BY <1>5 DEF Bundle!StageFile, Bundle!Outcomes
  <2>2. pcBundle[p] = "stage" /\ UNCHANGED <<head, lock, output, snap>>
    BY <1>5 DEF Bundle!StageFile, Bundle!repo
  <2>3. IsDir(stage)' /\ stage'.by = stage.by
    BY <1>0, <2>1 DEF BundleTypes, IsDir
  <2>4. CASE o # "ok"
    BY <2>1, <2>2, <2>3, <2>4, FailsHolding DEF Working, Bundle!Codes
  <2>5. CASE o = "ok"
    <3>1. PICK to \in {"mkout", "stage"} :
             /\ Bundle!Go(p, to) /\ at' = [at EXCEPT ![p] = IF to = "mkout" THEN 1 ELSE 2]
      BY <1>0, <2>1, <2>2, <2>5, BundleNames DEF BuilderPublishes, BundleTypes
    <3>2. /\ pcBundle'[p] = to /\ codeBundle'[p] = codeBundle[p] /\ BundleTypes'
          /\ at'[p] = IF to = "mkout" THEN 1 ELSE 2
          /\ \A q \in Builders \ {p} : /\ pcBundle'[q] = pcBundle[q] /\ codeBundle'[q] = codeBundle[q]
                                        /\ at'[q] = at[q] /\ snap'[q] = snap[q]
      BY <1>0, <2>2, <2>3, <3>1 DEF BundleTypes, IsDir, Bundle!Go, Working
    <3>3. ~Succeeding(p)' /\ ~Filling(p)' /\ ~EndedWell(p)'
      BY <3>2 DEF Succeeding, Filling, EndedWell
    <3>4. BuilderHolds(p)' /\ BuilderPublishes(p)'
      BY <1>0, <2>2, <2>3, <3>2, <3>3 DEF BuilderHolds, BuilderPublishes, Preparing, Working
    <3> QED  BY <2>2, <2>3, <3>2, <3>3, <3>4, OneBuilderMoves
  <2> QED  BY <2>4, <2>5
<1>6. CASE Bundle!MakeOutput(p)
  <2>1. pcBundle[p] = "mkout" /\ UNCHANGED <<head, lock, stage, at, snap>>
    BY <1>6 DEF Bundle!MakeOutput, Bundle!repo
  <2>2. CASE UNCHANGED output /\ \E c \in {"unsafe_filesystem", "workspace_not_owned"} : Bundle!Fail(p, c)
    BY <1>0, <2>1, <2>2, FailsHolding DEF Working, Bundle!Codes, BundleTypes, IsDir
  <2>3. CASE output = Bundle!NoDir /\ output' = [by |-> p, files |-> <<>>] /\ Bundle!Go(p, "link")
    <3>1. /\ pcBundle'[p] = "link" /\ codeBundle'[p] = codeBundle[p] /\ at'[p] = at[p] /\ BundleTypes'
          /\ \A q \in Builders \ {p} : /\ pcBundle'[q] = pcBundle[q] /\ codeBundle'[q] = codeBundle[q]
                                        /\ at'[q] = at[q] /\ snap'[q] = snap[q]
      BY <1>0, <2>1, <2>3 DEF BundleTypes, IsDir, Bundle!Go, Working
    <3>2. /\ ~Succeeding(p)' /\ ~EndedWell(p)' /\ output.by = None /\ output'.by = p
          /\ DOMAIN output'.files = {} /\ DOMAIN output.files = {}
      BY <2>3, <3>1 DEF Succeeding, EndedWell, Bundle!NoDir
    <3>3. ASSUME NEW q \in Builders PROVE ~Succeeding(q)
      <4>1. DOMAIN Bundle!Rendered(q) = Bundle!Names
        BY DEF Bundle!Rendered
      <4> QED  BY <3>2, <4>1, BundleNames DEF BundleInv, BuilderPublishes
    <3>4. BuilderHolds(p)' /\ BuilderPublishes(p)'
      BY <1>0, <2>1, <3>1, <3>2 DEF BuilderHolds, BuilderPublishes, Preparing, Working
    <3> QED  BY <2>1, <3>1, <3>2, <3>3, <3>4, OneBuilderMoves
  <2> QED  BY <1>6, <2>2, <2>3 DEF Bundle!MakeOutput
<1>7. CASE Bundle!LinkFile(p)
  <2>1. /\ pcBundle[p] = "link" /\ UNCHANGED <<head, lock, stage, at, snap>> /\ output.by = p
        /\ at[p] \in 1..2
    BY <1>0, <1>7 DEF Bundle!LinkFile, Bundle!repo, BuilderHolds, BuilderPublishes
  <2>2. PICK n : n = Bundle!PublishOrder(at[p])
    OBVIOUS
  <2>3. (at[p] = 1 /\ n = "page") \/ (at[p] = 2 /\ n = "manifest")
    BY <2>1, <2>2, BundleNames
  <2>4. CASE UNCHANGED output /\ \E c \in {"source_changed", "unsafe_filesystem", "workspace_unsafe"} : Bundle!Fail(p, c)
    BY <1>0, <2>1, <2>4, FailsHolding DEF Working, Bundle!Codes, BundleTypes, IsDir
  <2>5. CASE /\ output' = [output EXCEPT !.files = [m \in DOMAIN @ \cup {n} |-> IF m = n THEN stage.files[n] ELSE @[m]]]
             /\ Bundle!Go(p, "unlink")
    <3>1. IsDir(output)' /\ output'.by = p /\ DOMAIN output'.files = DOMAIN output.files \cup {n}
      BY <1>0, <2>1, <2>5 DEF BundleTypes, IsDir
    <3>2. /\ pcBundle'[p] = "unlink" /\ codeBundle'[p] = codeBundle[p] /\ at'[p] = at[p] /\ BundleTypes'
          /\ \A q \in Builders \ {p} : /\ pcBundle'[q] = pcBundle[q] /\ codeBundle'[q] = codeBundle[q]
                                        /\ at'[q] = at[q] /\ snap'[q] = snap[q]
      BY <1>0, <2>1, <2>5, <3>1 DEF BundleTypes, IsDir, Bundle!Go, Working
    <3>3. DOMAIN output'.files = IF at'[p] = 1 THEN {"page"} ELSE Bundle!Names
      BY <1>0, <2>1, <2>3, <3>1, <3>2, BundleNames DEF BuilderPublishes
    <3>4. ~Succeeding(p)' /\ ~EndedWell(p)' /\ Filling(p)
      BY <2>1, <3>2 DEF Succeeding, EndedWell, Filling
    <3>5. BuilderHolds(p)' /\ BuilderPublishes(p)'
      BY <1>0, <2>1, <3>1, <3>2, <3>3, <3>4 DEF BuilderHolds, BuilderPublishes, Preparing, Working
    <3>6. \A q \in Builders \ {p} : ~Succeeding(q)
      BY <2>1, <3>4 DEF BundleInv, BundleApart
    <3> QED  BY <2>1, <3>1, <3>2, <3>4, <3>5, <3>6, OneBuilderMoves
  <2> QED  BY <1>7, <2>2, <2>4, <2>5 DEF Bundle!LinkFile
<1>8. CASE Bundle!UnlinkStaged(p)
  <2>1. PICK o \in {"ok", "kept", "unread"} :
          /\ stage' = IF o = "kept" THEN stage
                      ELSE [stage EXCEPT !.files = [m \in DOMAIN @ \ {Bundle!PublishOrder(at[p])} |-> @[m]]]
          /\ IF o = "ok"
             THEN /\ at' = [at EXCEPT ![p] = @ + 1]
                  /\ Bundle!Go(p, IF at[p] = Len(Bundle!OutputFilenames) THEN "verify" ELSE "link")
             ELSE Bundle!Fail(p, "unsafe_filesystem") /\ UNCHANGED at
    BY <1>8 DEF Bundle!UnlinkStaged, Bundle!ReadBack, Bundle!Outcomes
  <2>2. /\ pcBundle[p] = "unlink" /\ UNCHANGED <<head, lock, output, snap>> /\ output.by = p
        /\ at[p] \in 1..2
    BY <1>0, <1>8 DEF Bundle!UnlinkStaged, Bundle!repo, BuilderHolds, BuilderPublishes
  <2>3. IsDir(stage)' /\ stage'.by = stage.by
    BY <1>0, <2>1 DEF BundleTypes, IsDir
  <2>4. CASE o # "ok"
    BY <2>1, <2>2, <2>3, <2>4, FailsHolding DEF Working, Bundle!Codes
  <2>5. CASE o = "ok"
    <3>1. PICK to \in {"verify", "link"} :
             /\ Bundle!Go(p, to) /\ at[p] = (IF to = "verify" THEN 2 ELSE 1)
             /\ at' = [at EXCEPT ![p] = IF to = "verify" THEN 3 ELSE 2]
      BY <1>0, <2>1, <2>2, <2>5, BundleNames DEF BundleTypes
    <3>2. /\ pcBundle'[p] = to /\ codeBundle'[p] = codeBundle[p] /\ BundleTypes'
          /\ at'[p] = IF to = "verify" THEN 3 ELSE 2
          /\ \A q \in Builders \ {p} : /\ pcBundle'[q] = pcBundle[q] /\ codeBundle'[q] = codeBundle[q]
                                        /\ at'[q] = at[q] /\ snap'[q] = snap[q]
      BY <1>0, <2>2, <2>3, <3>1 DEF BundleTypes, IsDir, Bundle!Go, Working
    <3>3. ~Succeeding(p)' /\ ~EndedWell(p)' /\ Filling(p)
      BY <2>2, <3>2 DEF Succeeding, Filling, EndedWell
    <3>4. BuilderHolds(p)' /\ BuilderPublishes(p)'
      BY <1>0, <2>2, <2>3, <3>1, <3>2, <3>3 DEF BuilderHolds, BuilderPublishes, Preparing, Working
    <3> QED  BY <2>2, <2>3, <3>2, <3>3, <3>4, OneBuilderMoves
  <2> QED  BY <2>4, <2>5
<1>9. CASE Bundle!VerifyPublished(p)
  <2>1. /\ pcBundle[p] = "verify" /\ UNCHANGED <<head, lock, output, at, snap>> /\ stage.by = p
        /\ lock = p /\ output.by = p /\ codeBundle[p] = None
    BY <1>0, <1>9 DEF Bundle!VerifyPublished, Bundle!repo, BuilderHolds, Working
  <2>2. CASE stage' \in {stage, Bundle!NoDir} /\ \E c \in {"unsafe_filesystem", "bundle_contract_failed", "source_changed"} : Bundle!Fail(p, c)
    <3>1. IsDir(stage)' /\ (stage'.by = stage.by \/ stage'.by = None)
      BY <1>0, <2>2 DEF BundleTypes, IsDir, Bundle!NoDir
    <3> QED  BY <2>1, <2>2, <3>1, FailsHolding DEF Working, Bundle!Codes
  <2>3. CASE stage' = Bundle!NoDir /\ Bundle!SameBytes(p) /\ Bundle!Go(p, "cleanup")
    <3>1. /\ pcBundle'[p] = "cleanup" /\ codeBundle'[p] = None /\ at'[p] = at[p] /\ BundleTypes'
          /\ \A q \in Builders \ {p} : /\ pcBundle'[q] = pcBundle[q] /\ codeBundle'[q] = codeBundle[q]
                                        /\ at'[q] = at[q] /\ snap'[q] = snap[q]
      BY <1>0, <2>1, <2>3 DEF BundleTypes, IsDir, Bundle!NoDir, Bundle!Go, Working
    <3>2. Succeeding(p)' /\ ~Filling(p)' /\ ~EndedWell(p)' /\ stage'.by = None
      BY <2>3, <3>1 DEF Succeeding, Filling, EndedWell, Bundle!NoDir
    <3>3. output.files = Bundle!Rendered(p) /\ Bundle!Rendered(p)' = Bundle!Rendered(p)
      BY <2>1, <2>3 DEF Bundle!SameBytes, Bundle!Rendered
    <3>4. BuilderHolds(p)' /\ BuilderPublishes(p)'
      BY <2>1, <3>1, <3>2, <3>3 DEF BuilderHolds, BuilderPublishes, Preparing, Working
    <3> QED  BY <2>1, <3>1, <3>2, <3>4, OneBuilderMoves
  <2> QED  BY <1>9, <2>2, <2>3 DEF Bundle!VerifyPublished
<1>10. CASE Bundle!Cleanup(p)
  <2>1. /\ pcBundle[p] = "cleanup" /\ UNCHANGED <<head, snap, at>> /\ lock = p
    BY <1>0, <1>10 DEF Bundle!Cleanup, Bundle!repo, BuilderHolds
  <2>2. PICK o \in {"ok", "failed"} :
          /\ output' = IF codeBundle[p] # None THEN Bundle!CleanOutput(p) ELSE output
          /\ stage' = IF codeBundle[p] # None THEN Bundle!CleanStage(p) ELSE stage
          /\ lock' = IF lock = p /\ o = "ok" THEN None ELSE lock
          /\ \/ Bundle!End(p, "cleanup_failed")
             \/ /\ o = "ok" /\ codeBundle[p] # None /\ Bundle!End(p, codeBundle[p])
                /\ output.by # p \/ Bundle!Removable(p, output, recorded[p].output)
                /\ stage.by # p \/ (Bundle!Removable(p, stage, recorded[p].stage) /\ ~\E n \in Bundle!Names : Bundle!Linked(p, n))
             \/ o = "ok" /\ codeBundle[p] = None /\ Bundle!Go(p, "return")
    BY <1>10 DEF Bundle!Cleanup, Bundle!Outcomes
  <2>3. Bundle!NoDir.by = None /\ IsDir(Bundle!NoDir)
    BY DEF Bundle!NoDir, IsDir
  <2>4. /\ output' = output \/ (output.by = p /\ output' = Bundle!NoDir /\ codeBundle[p] # None)
        /\ stage' = stage \/ (stage.by = p /\ stage' = Bundle!NoDir)
    BY <2>2 DEF Bundle!CleanOutput, Bundle!CleanStage
  <2>5. IsDir(output)' /\ IsDir(stage)'
    BY <1>0, <2>3, <2>4 DEF BundleTypes, IsDir
  <2>6. /\ output' = output \/ /\ output.by = p /\ output'.by = None
                               /\ \A q \in Builders \ {p} : ~Succeeding(q)
        /\ stage'.by = stage.by \/ (stage.by = p /\ stage'.by = None)
    <3>1. CASE output' # output
      <4>1. Filling(p) /\ output.by = p
        BY <2>1, <2>4, <3>1 DEF Filling
      <4> QED  BY <2>3, <2>4, <3>1, <4>1 DEF BundleInv, BundleApart
    <3> QED  BY <2>3, <2>4, <3>1
  <2>7. CASE \E c \in Bundle!Codes : Bundle!End(p, c)
    <3>1. PICK c \in Bundle!Codes : Bundle!End(p, c)
      BY <2>7
    <3>2. /\ pcBundle'[p] = "done" /\ codeBundle'[p] = c /\ BundleTypes'
          /\ \A q \in Builders \ {p} : /\ pcBundle'[q] = pcBundle[q] /\ codeBundle'[q] = codeBundle[q]
                                        /\ at'[q] = at[q] /\ snap'[q] = snap[q]
      BY <1>0, <2>1, <2>5, <3>1 DEF BundleTypes, Bundle!End
    <3>3. ~Succeeding(p)' /\ ~Filling(p)'
      BY <3>2 DEF Succeeding, Filling
    <3>4. EndedWell(p)' => lock' # p /\ stage'.by # p /\ output'.by # p
      <4> SUFFICES ASSUME EndedWell(p)' PROVE lock' # p /\ stage'.by # p /\ output'.by # p
        OBVIOUS
      <4>1. pcBundle'[p] = "done" /\ codeBundle'[p] # "cleanup_failed"
        BY <3>2 DEF EndedWell
      <4>2. /\ o = "ok" /\ codeBundle[p] # None
            /\ output.by # p \/ Bundle!Removable(p, output, recorded[p].output)
            /\ stage.by # p \/ (Bundle!Removable(p, stage, recorded[p].stage) /\ ~\E n \in Bundle!Names : Bundle!Linked(p, n))
        BY <1>0, <2>2, <4>1 DEF Bundle!End, Bundle!Go, BundleTypes
      <4>3. output' = Bundle!CleanOutput(p) /\ stage' = Bundle!CleanStage(p) /\ lock' = None
        BY <2>1, <2>2, <4>2
      <4> QED  BY <2>3, <4>2, <4>3 DEF Bundle!CleanOutput, Bundle!CleanStage
    <3>5. BuilderHolds(p)' /\ BuilderPublishes(p)'
      BY <3>2, <3>3, <3>4 DEF BuilderHolds, BuilderPublishes, Preparing, Working
    <3> QED  BY <2>1, <2>2, <2>6, <3>2, <3>3, <3>5, OneBuilderMoves
  <2>8. CASE o = "ok" /\ codeBundle[p] = None /\ Bundle!Go(p, "return")
    <3>1. /\ pcBundle'[p] = "return" /\ codeBundle'[p] = None /\ BundleTypes'
          /\ \A q \in Builders \ {p} : /\ pcBundle'[q] = pcBundle[q] /\ codeBundle'[q] = codeBundle[q]
                                        /\ at'[q] = at[q] /\ snap'[q] = snap[q]
      BY <1>0, <2>1, <2>5, <2>8 DEF BundleTypes, Bundle!Go
    <3>2. Succeeding(p) /\ Succeeding(p)' /\ ~Filling(p)' /\ ~EndedWell(p)'
      BY <2>1, <2>8, <3>1 DEF Succeeding, Filling, EndedWell
    <3>3. lock' = None /\ UNCHANGED <<stage, output>>
      BY <2>1, <2>2, <2>8
    <3>4. Bundle!Rendered(p)' = Bundle!Rendered(p)
      BY <2>1 DEF Bundle!Rendered
    <3>5. BuilderHolds(p)' /\ BuilderPublishes(p)'
      BY <1>0, <3>1, <3>2, <3>3, <3>4 DEF BuilderHolds, BuilderPublishes, Preparing, Working
    <3> QED  BY <2>1, <3>1, <3>2, <3>3, <3>5, OneBuilderMoves
  <2>9. "cleanup_failed" \in Bundle!Codes /\ (codeBundle[p] # None => codeBundle[p] \in Bundle!Codes)
    BY <1>0 DEF BundleTypes, Bundle!Codes
  <2> QED  BY <2>2, <2>7, <2>8, <2>9
<1>11. CASE Bundle!Return(p)
  <2>1. /\ pcBundle[p] = "return" /\ UNCHANGED <<head, lock, stage, output, snap, at>>
    BY <1>11 DEF Bundle!Return, Bundle!repo
  <2>2. PICK c \in {"ok", "source_changed"} : Bundle!End(p, c)
    BY <1>11 DEF Bundle!Return
  <2>3. /\ pcBundle'[p] = "done" /\ codeBundle'[p] = c /\ BundleTypes'
        /\ \A q \in Builders \ {p} : /\ pcBundle'[q] = pcBundle[q] /\ codeBundle'[q] = codeBundle[q]
                                      /\ at'[q] = at[q] /\ snap'[q] = snap[q]
    BY <1>0, <2>1, <2>2 DEF BundleTypes, IsDir, Bundle!End, Bundle!Codes
  <2>4. Succeeding(p) /\ ~Succeeding(p)' /\ ~Filling(p)' /\ EndedWell(p)'
    BY <2>1, <2>3 DEF Succeeding, Filling, EndedWell
  <2>5. DOMAIN output.files = Bundle!Names
    BY <1>0, <2>4 DEF BuilderPublishes, Bundle!Rendered
  <2>6. lock # p /\ stage.by # p
    BY <1>0, <2>1, <2>4 DEF BuilderHolds
  <2>7. BuilderHolds(p)' /\ BuilderPublishes(p)'
    BY <2>1, <2>3, <2>4, <2>5, <2>6 DEF BuilderHolds, BuilderPublishes, Preparing, Working
  <2> QED  BY <2>1, <2>3, <2>4, <2>7, OneBuilderMoves
<1>12. CASE Bundle!Crash(p)
  <2>1. /\ UNCHANGED <<head, lock, stage, output, snap, at>> /\ Bundle!End(p, "crashed")
    BY <1>12 DEF Bundle!Crash, Bundle!repo
  <2>2. /\ pcBundle'[p] = "done" /\ codeBundle'[p] = "crashed" /\ BundleTypes'
        /\ \A q \in Builders \ {p} : /\ pcBundle'[q] = pcBundle[q] /\ codeBundle'[q] = codeBundle[q]
                                      /\ at'[q] = at[q] /\ snap'[q] = snap[q]
    BY <1>0, <2>1 DEF BundleTypes, IsDir, Bundle!End, Bundle!Codes
  <2>3. ~Succeeding(p)' /\ ~Filling(p)' /\ ~EndedWell(p)'
    BY <2>2 DEF Succeeding, Filling, EndedWell
  <2>4. BuilderHolds(p)' /\ BuilderPublishes(p)'
    BY <2>2, <2>3 DEF BuilderHolds, BuilderPublishes, Preparing, Working
  <2> QED  BY <2>1, <2>2, <2>3, <2>4, OneBuilderMoves
<1> QED  BY <1>1, <1>2, <1>3, <1>4, <1>5, <1>6, <1>7, <1>8, <1>9, <1>10, <1>11, <1>12

\* Other programs never take what a builder holds.
LEMMA OthersMove ==
    ASSUME BundleInv, UNCHANGED <<pcBundle, codeBundle, snap, recorded, at>>, head' \in Commits,
           lock' = lock \/ (lock = None /\ lock' = Foreign),
           stage' = stage \/ (stage = Bundle!NoDir /\ stage' = [by |-> Foreign, files |-> <<>>]),
           output' = output \/ (output = Bundle!NoDir /\ output' = [by |-> Foreign, files |-> <<>>])
    PROVE  BundleInv'
<1> USE BundleConstantsApart
<1>1. /\ IsDir(stage)' /\ (stage' = stage \/ (stage.by = None /\ stage'.by = Foreign))
      /\ IsDir(output)' /\ (output' = output \/ (output.by = None /\ output'.by = Foreign))
  BY DEF BundleInv, BundleTypes, IsDir, Bundle!NoDir
<1>2. BundleTypes'
  BY <1>1 DEF BundleInv, BundleTypes
<1>3. \A q \in Builders : /\ Succeeding(q)' <=> Succeeding(q)
                          /\ Filling(q)' <=> Filling(q)
                          /\ EndedWell(q)' <=> EndedWell(q)
  BY DEF Succeeding, Filling, EndedWell
<1>4. ASSUME NEW q \in Builders, Succeeding(q) PROVE output' = output
  <2>1. DOMAIN output.files = Bundle!Names
    BY <1>4 DEF BundleInv, BuilderPublishes, Bundle!Rendered
  <2>2. output # Bundle!NoDir
    BY <2>1, BundleNames DEF Bundle!NoDir
  <2> QED  BY <2>2
<1>5. BundleApart'
  BY <1>3, <1>4 DEF BundleInv, BundleApart
<1>6. ASSUME NEW q \in Builders PROVE BuilderHolds(q)' /\ BuilderPublishes(q)'
  <2>1. BuilderHolds(q) /\ BuilderPublishes(q)
    BY DEF BundleInv
  <2>2. BuilderHolds(q)'
    BY <1>1, <1>3, <2>1 DEF BuilderHolds
  <2>3. Bundle!Rendered(q)' = Bundle!Rendered(q)
    BY DEF Bundle!Rendered
  <2>4. CASE output' = output
    BY <1>3, <2>1, <2>2, <2>3, <2>4 DEF BuilderPublishes
  <2>5. CASE output.by = None /\ output'.by = Foreign
    BY <1>3, <1>4, <2>1, <2>2, <2>3, <2>5 DEF BuilderPublishes, BuilderHolds
  <2> QED  BY <1>1, <2>2, <2>4, <2>5
<1> QED  BY <1>2, <1>5, <1>6 DEF BundleInv

LEMMA BundleFrame == ASSUME BundleInv, UNCHANGED bundleVars PROVE BundleInv'
BY OthersMove DEF bundleVars, BundleInv, BundleTypes

LEMMA BundleStep == ASSUME BundleInv, Bundle!Next PROVE BundleInv'
<1>1. CASE Bundle!Move
  BY <1>1, OthersMove DEF Bundle!Move, Bundle!repo, BundleInv, BundleTypes
<1> QED  BY <1>1, BuilderSteps DEF Bundle!Next

LEMMA BundleFacts == ASSUME BundleInv PROVE Bundle!OneBuilder /\ Bundle!FailureLeavesNothing
<1>1. Bundle!OneBuilder
  BY DEF Bundle!OneBuilder, BundleInv, BuilderHolds, Working
<1>2. Bundle!FailureLeavesNothing
  BY DEF Bundle!FailureLeavesNothing, BundleInv, BuilderHolds, BuilderPublishes, EndedWell
<1> QED  BY <1>1, <1>2

LEMMA BundleActions ==
    ASSUME BundleInv, Bundle!Next PROVE Bundle!OkIsCommitBound /\ Bundle!ManifestIsLast
<1>0. BundleInv' /\ BundleTypes
  BY BundleStep DEF BundleInv
<1>1. Bundle!OkIsCommitBound
  <2> SUFFICES ASSUME NEW p \in Builders, codeBundle'[p] = "ok", codeBundle[p] # "ok"
               PROVE  output'.files = Bundle!Rendered(p)' /\ head' = snap'[p] /\ ~dirtyBundle'
    BY DEF Bundle!OkIsCommitBound
  <2>1. Bundle!Return(p)
    <3>1. PICK q \in Builders :
        \/ Bundle!LoadSourceSnapshot(q) \/ Bundle!RenderBundle(q) \/ Bundle!AcquireLock(q)
        \/ Bundle!LookAtWorkspace(q) \/ Bundle!StageFile(q) \/ Bundle!MakeOutput(q)
        \/ Bundle!LinkFile(q) \/ Bundle!UnlinkStaged(q) \/ Bundle!VerifyPublished(q)
        \/ Bundle!Cleanup(q) \/ Bundle!Return(q) \/ Bundle!Crash(q)
      BY DEF Bundle!Next, Bundle!Move
    <3> DEFINE Ends(c) == codeBundle' = [codeBundle EXCEPT ![q] = c]
    <3>2. ASSUME NEW c, Ends(c) PROVE q = p /\ c = "ok"
      BY <1>0, <3>2 DEF BundleTypes
    <3>3. codeBundle' # codeBundle
      OBVIOUS
    <3>4. ~Bundle!LoadSourceSnapshot(q) /\ ~Bundle!RenderBundle(q)
      BY <3>2, <3>3, LedgerErrors DEF Bundle!LoadSourceSnapshot, Bundle!RenderBundle, Bundle!End, Bundle!Go
    <3>5. ~Bundle!AcquireLock(q) /\ ~Bundle!LookAtWorkspace(q)
      BY <3>2, <3>3 DEF Bundle!AcquireLock, Bundle!LookAtWorkspace, Bundle!End, Bundle!Go, Bundle!Fail
    <3>6. ~Bundle!StageFile(q) /\ ~Bundle!MakeOutput(q) /\ ~Bundle!LinkFile(q)
      BY <3>2, <3>3 DEF Bundle!StageFile, Bundle!MakeOutput, Bundle!LinkFile, Bundle!Go, Bundle!Fail
    <3>7. ~Bundle!UnlinkStaged(q) /\ ~Bundle!VerifyPublished(q)
      BY <3>2, <3>3 DEF Bundle!UnlinkStaged, Bundle!VerifyPublished, Bundle!Go, Bundle!Fail
    <3>8. ~Bundle!Cleanup(q) /\ ~Bundle!Crash(q)
      BY <3>2, <3>3 DEF Bundle!Cleanup, Bundle!Crash, Bundle!Go, Bundle!End
    <3>9. Bundle!Return(q)
      BY <3>1, <3>4, <3>5, <3>6, <3>7, <3>8
    <3> QED  BY <3>2, <3>9 DEF Bundle!Return, Bundle!End
  <2>2. /\ Bundle!SourceUnchanged(p) /\ pcBundle[p] = "return"
        /\ UNCHANGED <<head, dirtyBundle, output, snap>>
    BY <1>0, <2>1 DEF Bundle!Return, Bundle!End, Bundle!repo, BundleTypes
  <2>3. output.files = Bundle!Rendered(p)
    BY <2>2 DEF BundleInv, BuilderPublishes, Succeeding
  <2>4. Bundle!Rendered(p)' = Bundle!Rendered(p)
    BY <2>2 DEF Bundle!Rendered
  <2> QED  BY <2>2, <2>3, <2>4 DEF Bundle!SourceUnchanged
<1>2. Bundle!ManifestIsLast
  <2> SUFFICES ASSUME "manifest" \in DOMAIN output'.files, "manifest" \notin DOMAIN output.files
               PROVE  DOMAIN output'.files = Bundle!Names
    BY DEF Bundle!ManifestIsLast
  <2>1. output' # output /\ output'.files # <<>>
    OBVIOUS
  <2>2. PICK p \in Builders : Bundle!LinkFile(p)
    <3>1. ~Bundle!Move
      BY <2>1 DEF Bundle!Move
    <3>2. ASSUME NEW q \in Builders
          PROVE  /\ ~Bundle!LoadSourceSnapshot(q) /\ ~Bundle!RenderBundle(q) /\ ~Bundle!AcquireLock(q)
                 /\ ~Bundle!LookAtWorkspace(q) /\ ~Bundle!StageFile(q) /\ ~Bundle!UnlinkStaged(q)
                 /\ ~Bundle!VerifyPublished(q) /\ ~Bundle!Return(q) /\ ~Bundle!Crash(q)
      BY <2>1 DEF Bundle!LoadSourceSnapshot, Bundle!RenderBundle, Bundle!AcquireLock,
         Bundle!LookAtWorkspace, Bundle!StageFile, Bundle!UnlinkStaged, Bundle!VerifyPublished,
         Bundle!Return, Bundle!Crash
    <3>3. ASSUME NEW q \in Builders PROVE ~Bundle!MakeOutput(q) /\ ~Bundle!Cleanup(q)
      <4>1. output' \notin {output, Bundle!NoDir, [by |-> q, files |-> <<>>]}
        BY <2>1 DEF Bundle!NoDir
      <4> QED  BY <4>1 DEF Bundle!MakeOutput, Bundle!Cleanup, Bundle!CleanOutput
    <3> QED  BY <3>1, <3>2, <3>3 DEF Bundle!Next
  <2>3. pcBundle[p] = "link" /\ pcBundle'[p] = "unlink" /\ at'[p] = at[p]
    BY <1>0, <2>1, <2>2 DEF Bundle!LinkFile, Bundle!Go, BundleTypes
  <2>4. DOMAIN output'.files = IF at[p] = 1 THEN {"page"} ELSE Bundle!Names
    BY <1>0, <2>3 DEF BundleInv, BuilderPublishes
  <2> QED  BY <2>4
<1> QED  BY <1>1, <1>2

----------------------------------------------------------------------------
(* The backup and restore drill *)

DrillNames == {"run", "ws", "bak", "cor"}
Contents == {None, "terminal", "fresh", "corrupt", "foreign"}
Cleaning == {"cleanWs", "cleanBak", "cleanCor", "final"}

DrillTypes ==
    /\ dirDrill \in [DrillNames -> [id : Nat, own : BOOLEAN, db : Contents]]
    /\ known \in [DrillNames -> Nat] /\ seq \in Nat /\ outsideDrill \in Nat
    /\ k \in 1..8
    /\ pcDrill \in {"mkrun", "mkws", "pre", "child", "post", "corrupt", "write", "done"} \cup Cleaning
    /\ seen \in [{"backup", "reject", "restore", "retry"} -> Contents]
    /\ errDrill \in {None} \cup Drill!Failures

\* An identity is given once: what is still under a name with the remembered
\* identity is what the drill made there.
DrillIds ==
    /\ \A n \in DrillNames : /\ dirDrill[n].id <= seq /\ known[n] <= seq
                             /\ dirDrill[n].own => dirDrill[n].id # 0
                             /\ Drill!Owned(n) => dirDrill[n].own
    /\ pcDrill = "post" /\ k = 2 /\ ans.st = "ok" =>
           /\ ans.id \in 1..seq
           /\ dirDrill["bak"].id = ans.id => dirDrill["bak"].own

\* The stages and the places of the program.
DrillPlaces ==
    /\ pcDrill = "mkrun" => \A n \in DrillNames : ~dirDrill[n].own
    /\ pcDrill \in {"mkrun", "mkws"} => k \in {1, 4}
    /\ pcDrill \in {"pre", "child", "post"} => k \in 1..7
    /\ pcDrill = "corrupt" => k = 5
    /\ errDrill = None /\ pcDrill \in Cleaning => k = 8
    /\ pcDrill \notin Cleaning \cup {"done"} => errDrill = None
    /\ pcDrill = "write" => k = 8
    /\ publishedDrill => pcDrill = "done" /\ k = 8 /\ Drill!Empty /\ Drill!Owned("run")

\* What the workspace of the drill holds at each stage, and what was seen of it.
DrillData ==
    /\ (k = 1 /\ pcDrill = "post" /\ ans.st = "ok") \/ (k = 2 /\ pcDrill \in {"pre", "child"}) =>
           (dirDrill["ws"].own => dirDrill["ws"].db = "terminal")
    /\ (k = 4 /\ pcDrill = "post" /\ ans.st = "ok") \/ (k = 5 /\ pcDrill \in {"corrupt", "pre"}) =>
           (dirDrill["ws"].own => dirDrill["ws"].db = "fresh")
    /\ k = 2 /\ pcDrill = "post" /\ ans.st = "ok" => seen["backup"] = "terminal"
    /\ k = 5 /\ pcDrill \in {"child", "post"} => fresh = "fresh"
    /\ pcDrill = "post" /\ dirDrill["ws"].own =>
           /\ k = 5 => seen["reject"] = dirDrill["ws"].db
           /\ k = 6 => seen["restore"] = dirDrill["ws"].db
           /\ k = 7 => seen["retry"] = dirDrill["ws"].db
    /\ k >= 2 => baseDrill = "terminal"
    /\ k >= 3 => seen["backup"] = "terminal"
    /\ k >= 6 => seen["reject"] = "fresh"
    /\ k >= 7 => seen["restore"] = "terminal"
    /\ k >= 8 => seen["retry"] = "terminal"

\* What is left of the drill when its removal has been tried.
DrillLeft ==
    /\ pcDrill \in {"cleanBak", "cleanCor", "final"} /\ dirDrill["ws"].own => cleanupErr
    /\ pcDrill \in {"cleanCor", "final"} /\ dirDrill["bak"].own => cleanupErr
    /\ pcDrill = "final" /\ dirDrill["cor"].own => cleanupErr
    /\ pcDrill = "write" \/ (pcDrill = "done" /\ outcome # "cleanup_failed") =>
           \A n \in {"ws", "bak", "cor"} : ~dirDrill[n].own

DrillInv == DrillTypes /\ DrillIds /\ DrillPlaces /\ DrillData /\ DrillLeft

LEMMA DrillStages ==
    /\ Drill!Program[1] = "branch" /\ Drill!Program[2] = "backup" /\ Drill!Program[3] = "reset"
    /\ Drill!Program[4] = "init" /\ Drill!Program[5] = "reject" /\ Drill!Program[6] = "restore"
    /\ Drill!Program[7] = "retry"
BY DEF Drill!Program

LEMMA DrillNone == None \notin Drill!Failures
BY DrillConstants DEF Drill!DrillAssumption

LEMMA DrillStart == Drill!Init => DrillInv
<1> SUFFICES ASSUME Drill!Init PROVE DrillInv
  OBVIOUS
<1>1. DrillTypes
  <2>1. Drill!Gone \in [id : Nat, own : BOOLEAN, db : Contents]
    BY DEF Drill!Gone, Contents
  <2>2. dirDrill \in [DrillNames -> [id : Nat, own : BOOLEAN, db : Contents]]
    BY <2>1 DEF Drill!Init, DrillNames, Drill!Names
  <2>3. seen \in [{"backup", "reject", "restore", "retry"} -> Contents]
    BY DEF Drill!Init, Contents
  <2>4. known \in [DrillNames -> Nat]
    BY DEF Drill!Init, DrillNames, Drill!Names
  <2>5. /\ k = 1 /\ seq = 0 /\ outsideDrill = 0
        /\ pcDrill = "mkrun" /\ errDrill = None
    BY DEF Drill!Init
  <2> QED  BY <2>2, <2>3, <2>4, <2>5 DEF DrillTypes
<1>2. \A n \in DrillNames : dirDrill[n].id = 0 /\ ~dirDrill[n].own /\ known[n] = 0
  BY DEF Drill!Init, DrillNames, Drill!Names, Drill!Gone
<1>3. DrillIds
  BY <1>2 DEF DrillIds, Drill!Init, Drill!Owned
<1> QED
  BY <1>1, <1>2, <1>3 DEF DrillInv, DrillPlaces, DrillData, DrillLeft, Drill!Init, Cleaning

LEMMA DrillFrame == ASSUME DrillInv, UNCHANGED drillVars PROVE DrillInv'
<1>1. \A n \in DrillNames : Drill!Owned(n)' <=> Drill!Owned(n)
  BY DEF drillVars, Drill!Owned
<1>2. Drill!Empty' <=> Drill!Empty
  BY DEF drillVars, Drill!Empty
<1>3. DrillTypes'
  BY DEF drillVars, DrillInv, DrillTypes
<1>4. DrillIds'
  BY <1>1 DEF drillVars, DrillInv, DrillIds
<1>5. DrillPlaces'
  BY <1>1, <1>2 DEF drillVars, DrillInv, DrillPlaces, DrillNames
<1>6. DrillData'
  BY DEF drillVars, DrillInv, DrillData
<1>7. DrillLeft'
  BY DEF drillVars, DrillInv, DrillLeft
<1> QED  BY <1>3, <1>4, <1>5, <1>6, <1>7 DEF DrillInv

Dirs == [id : Nat, own : BOOLEAN, db : Contents]

LEMMA DrillGone == Drill!Gone \in Dirs /\ Drill!Gone.id = 0 /\ ~Drill!Gone.own
BY DEF Drill!Gone, Dirs, Contents

LEMMA DrillMade ==
    ASSUME NEW n \in Nat, NEW d \in Contents
    PROVE  Drill!Made(n, d) \in Dirs /\ Drill!Made(n, d).id = n /\ Drill!Made(n, d).own /\ Drill!Made(n, d).db = d
BY DEF Drill!Made, Dirs

LEMMA DrillForeign ==
    ASSUME NEW n \in Nat
    PROVE  \E d \in Dirs : d = [id |-> n, own |-> FALSE, db |-> "foreign"] /\ d.id = n /\ ~d.own
<1>1. [id |-> n, own |-> FALSE, db |-> "foreign"] \in Dirs
  BY DEF Dirs, Contents
<1>2. [id |-> n, own |-> FALSE, db |-> "foreign"].id = n
  OBVIOUS
<1>3. ~[id |-> n, own |-> FALSE, db |-> "foreign"].own
  OBVIOUS
<1> QED  BY <1>1, <1>2, <1>3, Zenon

\* One name changes to something the drill made, or to nothing.
LEMMA OneNameChanges ==
    ASSUME DrillTypes, NEW n \in DrillNames, NEW d \in Dirs, dirDrill' = [dirDrill EXCEPT ![n] = d]
    PROVE  /\ dirDrill' \in [DrillNames -> Dirs] /\ dirDrill'[n] = d
           /\ \A m \in DrillNames \ {n} : dirDrill'[m] = dirDrill[m]
BY DEF DrillTypes, Dirs

\* The body fails: the clean-up starts.
LEMMA DrillFails ==
    ASSUME DrillInv, pcDrill \in {"mkws", "pre", "post", "corrupt"}, pcDrill' = "cleanWs",
           errDrill' \in Drill!Failures,
           UNCHANGED <<dirDrill, known, seq, k, baseDrill, cleanupErr, publishedDrill, seen, outsideDrill>>
    PROVE  DrillInv'
<1> USE DrillNone
<1>1. ~publishedDrill
  BY DEF DrillInv, DrillPlaces
<1>2. DrillTypes'
  BY DEF DrillInv, DrillTypes, Cleaning
<1>3. DrillIds'
  BY DEF DrillInv, DrillIds, Drill!Owned
<1>4. DrillPlaces'
  BY <1>1 DEF DrillInv, DrillPlaces, Cleaning
<1>5. DrillData'
  BY DEF DrillInv, DrillData
<1>6. DrillLeft'
  BY DEF DrillLeft
<1> QED  BY <1>2, <1>3, <1>4, <1>5, <1>6 DEF DrillInv

LEMMA DrillCreate ==
    ASSUME DrillInv, Drill!CreateRunDirectory \/ Drill!CreateWorkspaceDirectory PROVE DrillInv'
<1> USE DrillNone
<1>0. DrillTypes /\ seq \in Nat /\ seq + 1 \in Nat /\ None \in Contents
  BY DEF DrillInv, DrillTypes, Contents
<1>1. CASE Drill!CreateRunDirectory /\ dirDrill["run"].id # 0
  <2>1. /\ pcDrill = "mkrun" /\ pcDrill' = "done"
        /\ UNCHANGED <<dirDrill, known, seq, k, ans, baseDrill, fresh, errDrill, cleanupErr, publishedDrill, seen, faultsDrill, outsideDrill>>
    BY <1>1 DEF Drill!CreateRunDirectory
  <2>2. ~publishedDrill
    BY <2>1 DEF DrillInv, DrillPlaces
  <2>3. DrillTypes' /\ DrillIds'
    BY <2>1 DEF DrillInv, DrillTypes, DrillIds, Drill!Owned, Cleaning
  <2>4. DrillPlaces' /\ DrillData' /\ DrillLeft'
    BY <2>1, <2>2 DEF DrillInv, DrillPlaces, DrillData, DrillLeft, Cleaning, DrillNames
  <2> QED  BY <2>3, <2>4 DEF DrillInv
<1>2. ASSUME NEW n \in DrillNames, n = "run" \/ (n = "ws" /\ Drill!Owned("run")),
             dirDrill[n].id = 0, pcDrill = IF n = "run" THEN "mkrun" ELSE "mkws",
             pcDrill' = IF n = "run" THEN "mkws" ELSE "pre",
             seq' = seq + 1, dirDrill' = [dirDrill EXCEPT ![n] = Drill!Made(seq', None)],
             known' = [known EXCEPT ![n] = seq'],
             UNCHANGED <<k, ans, baseDrill, fresh, errDrill, cleanupErr, outcome, publishedDrill, seen, faultsDrill, outsideDrill>>
      PROVE  DrillInv'
  <2>1. PICK d \in Dirs : d = Drill!Made(seq', None) /\ d.id = seq + 1 /\ d.own
    BY <1>0, <1>2, DrillMade
  <2>2. /\ dirDrill' \in [DrillNames -> Dirs] /\ dirDrill'[n] = d
        /\ \A m \in DrillNames \ {n} : dirDrill'[m] = dirDrill[m]
    BY <1>0, <1>2, <2>1, OneNameChanges
  <2>3. /\ known' \in [DrillNames -> Nat] /\ known'[n] = seq + 1
        /\ \A m \in DrillNames \ {n} : known'[m] = known[m]
    BY <1>0, <1>2 DEF DrillTypes
  <2>4. ~publishedDrill /\ errDrill = None /\ k \in {1, 4}
    BY <1>2 DEF DrillInv, DrillPlaces, Cleaning
  <2>5. DrillTypes'
    BY <1>0, <1>2, <2>2, <2>3 DEF DrillTypes, Dirs, Cleaning
  <2>6. DrillIds'
    <3>1. ASSUME NEW m \in DrillNames
          PROVE  /\ dirDrill'[m].id <= seq' /\ known'[m] <= seq'
                 /\ dirDrill'[m].own => dirDrill'[m].id # 0
                 /\ Drill!Owned(m)' => dirDrill'[m].own
      <4>1. CASE m = n
        BY <1>0, <1>2, <2>1, <2>2, <2>3, <4>1
      <4>2. CASE m # n
        <5>1. dirDrill'[m] = dirDrill[m] /\ known'[m] = known[m] /\ (Drill!Owned(m)' => Drill!Owned(m))
          BY <2>2, <2>3, <4>2 DEF Drill!Owned
        <5>2. dirDrill[m].id \in Nat /\ known[m] \in Nat
          BY <1>0 DEF DrillTypes
        <5> QED  BY <1>0, <1>2, <5>1, <5>2 DEF DrillInv, DrillIds
      <4> QED  BY <4>1, <4>2
    <3> QED  BY <1>2, <3>1 DEF DrillIds
  <2>7. DrillPlaces' /\ DrillData' /\ DrillLeft'
    BY <1>2, <2>4 DEF DrillInv, DrillPlaces, DrillData, DrillLeft, Cleaning
  <2> QED  BY <2>5, <2>6, <2>7 DEF DrillInv
<1>3. CASE Drill!CreateRunDirectory /\ dirDrill["run"].id = 0
  BY <1>2, <1>3 DEF Drill!CreateRunDirectory, DrillNames
<1>4. CASE Drill!CreateWorkspaceDirectory /\ Drill!Owned("run") /\ dirDrill["ws"].id = 0
  BY <1>2, <1>4 DEF Drill!CreateWorkspaceDirectory, DrillNames
<1>5. CASE Drill!CreateWorkspaceDirectory /\ ~(Drill!Owned("run") /\ dirDrill["ws"].id = 0)
  <2>1. /\ pcDrill = "mkws" /\ pcDrill' = "cleanWs" /\ errDrill' = "recovery_contract_failed"
        /\ UNCHANGED <<dirDrill, known, seq, k, ans, baseDrill, fresh, cleanupErr, outcome, publishedDrill, seen, faultsDrill, outsideDrill>>
    BY <1>5 DEF Drill!CreateWorkspaceDirectory, Drill!Fail
  <2> QED  BY <2>1, DrillFails DEF Drill!Failures
<1> QED  BY <1>1, <1>3, <1>4, <1>5

LEMMA DrillBefore == ASSUME DrillInv, Drill!BeforeChild PROVE DrillInv'
<1> USE DrillNone
<1>1. /\ pcDrill = "pre" /\ k \in 1..7
      /\ UNCHANGED <<dirDrill, known, k, ans, baseDrill, cleanupErr, outcome, publishedDrill, seen, seq, faultsDrill, outsideDrill>>
  BY DEF Drill!BeforeChild, DrillInv, DrillPlaces
<1>2. CASE ~Drill!WorkspaceOwned
  BY <1>1, <1>2, DrillFails DEF Drill!BeforeChild, Drill!Fail, Drill!Failures
<1>3. CASE Drill!WorkspaceOwned
  <2>1. pcDrill' = "child" /\ errDrill' = errDrill
    BY <1>3 DEF Drill!BeforeChild
  <2>2. dirDrill["ws"].own
    BY <1>3 DEF Drill!WorkspaceOwned, DrillInv, DrillIds, DrillNames
  <2>3. k = 5 => fresh' = "fresh"
    BY <1>1, <2>2, DrillStages DEF Drill!BeforeChild, Drill!Stage, DrillInv, DrillData
  <2>4. ~publishedDrill /\ errDrill = None
    BY <1>1 DEF DrillInv, DrillPlaces, Cleaning
  <2>5. DrillTypes' /\ DrillIds'
    BY <1>1, <2>1 DEF DrillInv, DrillTypes, DrillIds, Drill!Owned
  <2>6. DrillPlaces' /\ DrillLeft'
    BY <1>1, <2>1, <2>4 DEF DrillInv, DrillPlaces, DrillLeft, Cleaning
  <2>7. DrillData'
    BY <1>1, <2>1, <2>3 DEF DrillInv, DrillData
  <2> QED  BY <2>5, <2>6, <2>7 DEF DrillInv
<1> QED  BY <1>2, <1>3

\* What a child does, and what it answers.
LEMMA ChildEffects ==
    ASSUME DrillInv, Drill!RunChild
    PROVE  /\ pcDrill = "child" /\ pcDrill' = "post" /\ k \in 1..7 /\ seq' \in {seq, seq + 1}
           /\ UNCHANGED <<known, k, baseDrill, fresh, errDrill, cleanupErr, outcome, publishedDrill, outsideDrill>>
           /\ dirDrill' \in [DrillNames -> Dirs]
           /\ dirDrill'["run"] = dirDrill["run"] /\ dirDrill'["cor"] = dirDrill["cor"]
           /\ \/ dirDrill'["ws"] = dirDrill["ws"]
              \/ dirDrill["ws"].own /\ dirDrill'["ws"] = Drill!Gone
              \/ /\ dirDrill["ws"].own /\ dirDrill'["ws"].own
                 /\ dirDrill'["ws"].id = dirDrill["ws"].id
           /\ \/ dirDrill'["bak"] = dirDrill["bak"]
              \/ /\ dirDrill["bak"].id = 0 /\ dirDrill'["bak"].id = seq + 1 /\ seq' = seq + 1
                 /\ dirDrill'["bak"].own
           /\ k = 1 /\ ans'.st = "ok" => dirDrill'["ws"].db = "terminal"
           /\ k = 4 /\ ans'.st = "ok" => dirDrill'["ws"].db = "fresh"
           /\ k = 2 /\ ans'.st = "ok" =>
                /\ dirDrill["ws"].own /\ dirDrill'["bak"].own /\ ans'.id = seq + 1 /\ seq' = seq + 1
                /\ seen' = [seen EXCEPT !["backup"] = dirDrill["ws"].db]
           /\ k \in {1, 3, 4} \/ (k = 2 /\ ans'.st # "ok") => seen' = seen
           /\ k = 5 => seen' = [seen EXCEPT !["reject"] = dirDrill'["ws"].db]
           /\ k = 6 => seen' = [seen EXCEPT !["restore"] = dirDrill'["ws"].db]
           /\ k = 7 => seen' = [seen EXCEPT !["retry"] = dirDrill'["ws"].db]
<1>0. DrillTypes /\ seq \in Nat /\ seq + 1 \in Nat
  BY DEF DrillInv, DrillTypes
<1>1. /\ pcDrill = "child" /\ pcDrill' = "post" /\ k \in 1..7
      /\ UNCHANGED <<known, k, baseDrill, fresh, errDrill, cleanupErr, outcome, publishedDrill, outsideDrill>>
  BY DEF Drill!RunChild, DrillInv, DrillPlaces
<1>2. PICK o \in {"ok", "failed", "wrong"}, done \in BOOLEAN :
        /\ o = "ok" => done
        /\ o = "wrong" => done /\ Drill!Stage \in {"reject", "restore", "retry"}
        /\ Drill!StackChild(o, done)
        /\ seen' = CASE Drill!Stage = "backup" /\ ans'.st = "ok" -> [seen EXCEPT !["backup"] = dirDrill'["bak"].db]
                     [] Drill!Stage \in {"reject", "restore", "retry"} -> [seen EXCEPT ![Drill!Stage] = dirDrill'["ws"].db]
                     [] OTHER -> seen
  BY DEF Drill!RunChild, Drill!Outcomes
<1>3. dirDrill \in [DrillNames -> Dirs] /\ dirDrill["ws"] \in Dirs /\ dirDrill["bak"] \in Dirs
  BY <1>0 DEF DrillTypes, Dirs, DrillNames
<1> DEFINE Put(d) == dirDrill' = [dirDrill EXCEPT !["ws"] = [dirDrill["ws"] EXCEPT !.db = d]]
<1>4. ASSUME NEW d \in Contents, Put(d)
      PROVE  /\ dirDrill' \in [DrillNames -> Dirs]
             /\ dirDrill'["run"] = dirDrill["run"] /\ dirDrill'["cor"] = dirDrill["cor"]
             /\ dirDrill'["bak"] = dirDrill["bak"]
             /\ dirDrill["ws"].own => dirDrill'["ws"].own
             /\ dirDrill'["ws"].id = dirDrill["ws"].id /\ dirDrill'["ws"].db = d
  <2>1. PICK w \in Dirs : w = [dirDrill["ws"] EXCEPT !.db = d]
    BY <1>3, <1>4 DEF Dirs
  <2>2. w.own = dirDrill["ws"].own /\ w.id = dirDrill["ws"].id /\ w.db = d
    BY <1>3, <2>1 DEF Dirs
  <2> QED  BY <1>3, <1>4, <2>1, <2>2 DEF DrillNames
<1>5. CASE ~dirDrill["ws"].own
  <2>1. ans'.st = "failed" /\ dirDrill' = dirDrill /\ seq' = seq
    BY <1>2, <1>5 DEF Drill!StackChild
  <2>2. seen' = IF Drill!Stage \in {"reject", "restore", "retry"} THEN [seen EXCEPT ![Drill!Stage] = dirDrill'["ws"].db] ELSE seen
    BY <1>2, <2>1
  <2>3. /\ k \in 1..4 => seen' = seen
        /\ k = 5 => seen' = [seen EXCEPT !["reject"] = dirDrill'["ws"].db]
        /\ k = 6 => seen' = [seen EXCEPT !["restore"] = dirDrill'["ws"].db]
        /\ k = 7 => seen' = [seen EXCEPT !["retry"] = dirDrill'["ws"].db]
    <3>1. k \in 1..4 => k = 1 \/ k = 2 \/ k = 3 \/ k = 4
      OBVIOUS
    <3> QED  BY <2>2, <3>1, DrillStages DEF Drill!Stage
  <2> QED  BY <1>1, <1>3, <2>1, <2>3
<1>6. CASE dirDrill["ws"].own /\ k = 1
  <2>1. Drill!Stage = "branch"
    BY <1>6, DrillStages DEF Drill!Stage
  <2>2. /\ Put("terminal") \/ (~done /\ dirDrill' = dirDrill)
        /\ ans'.st = (IF o = "failed" THEN "failed" ELSE "ok") /\ seq' = seq /\ seen' = seen
    BY <1>2, <1>6, <2>1 DEF Drill!StackChild
  <2>3. ans'.st = "ok" => Put("terminal")
    BY <1>2, <2>1, <2>2
  <2>4. CASE Put("terminal")
    <3>1. "terminal" \in Contents
      BY DEF Contents
    <3> HIDE DEF Put
    <3> QED  BY <1>1, <1>4, <1>6, <2>2, <2>4, <3>1
  <2>5. CASE dirDrill' = dirDrill /\ ans'.st # "ok"
    BY <1>1, <1>3, <1>6, <2>2, <2>5
  <2> QED  BY <2>2, <2>3, <2>4, <2>5
<1>7. CASE dirDrill["ws"].own /\ k = 4
  <2>1. Drill!Stage = "init"
    BY <1>7, DrillStages DEF Drill!Stage
  <2>2. /\ Put("fresh") \/ (~done /\ dirDrill' = dirDrill)
        /\ ans'.st = (IF o = "failed" THEN "failed" ELSE "ok") /\ seq' = seq /\ seen' = seen
    BY <1>2, <1>7, <2>1 DEF Drill!StackChild
  <2>3. ans'.st = "ok" => Put("fresh")
    BY <1>2, <2>1, <2>2
  <2>4. CASE Put("fresh")
    <3>1. "fresh" \in Contents
      BY DEF Contents
    <3> HIDE DEF Put
    <3> QED  BY <1>1, <1>4, <1>7, <2>2, <2>4, <3>1
  <2>5. CASE dirDrill' = dirDrill /\ ans'.st # "ok"
    BY <1>1, <1>3, <1>7, <2>2, <2>5
  <2> QED  BY <2>2, <2>3, <2>4, <2>5
<1>8. CASE dirDrill["ws"].own /\ k = 3
  <2>1. Drill!Stage = "reset"
    BY <1>8, DrillStages DEF Drill!Stage
  <2>2. /\ dirDrill' = [dirDrill EXCEPT !["ws"] = Drill!Gone] \/ dirDrill' = dirDrill
        /\ seq' = seq /\ seen' = seen
    BY <1>2, <1>8, <2>1 DEF Drill!StackChild
  <2> QED  BY <1>1, <1>3, <1>8, <2>2, DrillGone DEF DrillNames
<1>9. CASE dirDrill["ws"].own /\ k = 2
  <2>1. Drill!Stage = "backup"
    BY <1>9, DrillStages DEF Drill!Stage
  <2>2. \/ /\ dirDrill["bak"].id = 0 /\ seq' = seq + 1 /\ ans'.id = seq'
           /\ dirDrill' = [dirDrill EXCEPT !["bak"] = Drill!Made(seq', dirDrill["ws"].db)]
        \/ ans'.st = "failed" /\ dirDrill' = dirDrill /\ seq' = seq
    BY <1>2, <1>9, <2>1 DEF Drill!StackChild
  <2>3. seen' = IF ans'.st = "ok" THEN [seen EXCEPT !["backup"] = dirDrill'["bak"].db] ELSE seen
    BY <1>2, <2>1
  <2>4. CASE seq' = seq + 1 /\ dirDrill' = [dirDrill EXCEPT !["bak"] = Drill!Made(seq', dirDrill["ws"].db)]
    <3>1. PICK d \in Dirs : d = Drill!Made(seq', dirDrill["ws"].db) /\ d.id = seq + 1 /\ d.own /\ d.db = dirDrill["ws"].db
      BY <1>0, <1>3, <2>4, DrillMade DEF Dirs
    <3>2. /\ dirDrill' \in [DrillNames -> Dirs] /\ dirDrill'["bak"] = d /\ dirDrill'["ws"] = dirDrill["ws"]
          /\ dirDrill'["run"] = dirDrill["run"] /\ dirDrill'["cor"] = dirDrill["cor"]
      BY <1>3, <2>4, <3>1 DEF DrillNames
    <3>3. dirDrill["bak"].id = 0 /\ ans'.id = seq + 1 /\ dirDrill'["bak"].id = seq + 1 /\ dirDrill'["bak"].own
      BY <1>0, <2>2, <2>4, <3>1, <3>2
    <3>4. seen' = IF ans'.st = "ok" THEN [seen EXCEPT !["backup"] = dirDrill["ws"].db] ELSE seen
      BY <2>3, <3>1, <3>2
    <3>5. k = 2 /\ dirDrill["ws"].own
      BY <1>9
    <3> QED  BY <1>1, <2>4, <3>2, <3>3, <3>4, <3>5
  <2>5. CASE ans'.st = "failed" /\ dirDrill' = dirDrill /\ seq' = seq
    BY <1>1, <1>3, <1>9, <2>3, <2>5
  <2> QED  BY <2>2, <2>4, <2>5
<1>10. CASE dirDrill["ws"].own /\ k \in 5..7
  <2>1. /\ k = 5 => Drill!Stage = "reject"
        /\ k = 6 => Drill!Stage = "restore"
        /\ k = 7 => Drill!Stage = "retry"
    BY DrillStages DEF Drill!Stage
  <2>2. k = 5 \/ k = 6 \/ k = 7
    BY <1>10
  <2>3. seen' = [seen EXCEPT ![Drill!Stage] = dirDrill'["ws"].db]
    BY <1>2, <2>1, <2>2
  <2>4. (dirDrill' = dirDrill \/ \E d \in Contents : Put(d)) /\ seq' = seq
    <3>1. CASE k = 5
      <4>1. seq' = seq /\ (dirDrill' = dirDrill \/ Put("corrupt"))
        BY <1>2, <1>10, <2>1, <3>1 DEF Drill!StackChild
      <4> QED  BY <4>1 DEF Contents
    <3>2. CASE k = 6 \/ k = 7
      <4>1. seq' = seq /\ (dirDrill' = dirDrill \/ Put("fresh") \/ Put(dirDrill["bak"].db))
        BY <1>2, <1>10, <2>1, <3>2 DEF Drill!StackChild
      <4>2. dirDrill["bak"].db \in Contents
        BY <1>3 DEF Dirs
      <4> QED  BY <4>1, <4>2 DEF Contents
    <3> QED  BY <2>2, <3>1, <3>2
  <2>5. /\ k = 5 => seen' = [seen EXCEPT !["reject"] = dirDrill'["ws"].db]
        /\ k = 6 => seen' = [seen EXCEPT !["restore"] = dirDrill'["ws"].db]
        /\ k = 7 => seen' = [seen EXCEPT !["retry"] = dirDrill'["ws"].db]
    BY <2>1, <2>3
  <2>6. k \notin {1, 2, 3, 4} /\ dirDrill["ws"].own
    BY <1>10
  <2>7. CASE dirDrill' = dirDrill
    BY <1>1, <1>3, <2>4, <2>5, <2>6, <2>7
  <2>8. CASE \E d \in Contents : Put(d)
    <3> HIDE DEF Put
    <3>1. PICK d \in Contents : Put(d)
      BY <2>8
    <3>2. /\ dirDrill' \in [DrillNames -> Dirs]
          /\ dirDrill'["run"] = dirDrill["run"] /\ dirDrill'["cor"] = dirDrill["cor"]
          /\ dirDrill'["bak"] = dirDrill["bak"]
          /\ dirDrill'["ws"].own /\ dirDrill'["ws"].id = dirDrill["ws"].id
      BY <1>4, <2>6, <3>1
    <3> QED  BY <1>1, <2>4, <2>5, <2>6, <3>2
  <2> QED  BY <2>4, <2>7, <2>8
<1> QED  BY <1>1, <1>5, <1>6, <1>7, <1>8, <1>9, <1>10

LEMMA DrillChild == ASSUME DrillInv, Drill!RunChild PROVE DrillInv'
<1> USE DrillNone
<1>0. /\ DrillTypes /\ seq \in Nat /\ pcDrill = "child" /\ errDrill = None /\ ~publishedDrill
      /\ pcDrill' = "post" /\ k \in 1..7 /\ seq' \in {seq, seq + 1} /\ k' = k
      /\ UNCHANGED <<known, baseDrill, fresh, errDrill, cleanupErr, outcome, publishedDrill, outsideDrill>>
      /\ dirDrill' \in [DrillNames -> Dirs]
  BY ChildEffects DEF DrillInv, DrillTypes, DrillPlaces, Cleaning
<1>1. dirDrill'["ws"] \in Dirs /\ dirDrill["ws"] \in Dirs
  BY <1>0 DEF DrillNames, DrillTypes, Dirs
<1>2. DrillTypes'
  <2>1. seen' \in [{"backup", "reject", "restore", "retry"} -> Contents]
    <3>1. k = 1 \/ k = 2 \/ k = 3 \/ k = 4 \/ k = 5 \/ k = 6 \/ k = 7
      BY <1>0
    <3>2. PICK d \in Contents, e \in Contents : d = dirDrill'["ws"].db /\ e = dirDrill["ws"].db
      BY <1>1 DEF Dirs
    <3>3. seen' \in {seen, [seen EXCEPT !["backup"] = e], [seen EXCEPT !["reject"] = d],
                    [seen EXCEPT !["restore"] = d], [seen EXCEPT !["retry"] = d]}
      BY <3>1, <3>2, ChildEffects
    <3> QED  BY <1>0, <3>3 DEF DrillTypes
  <2> QED  BY <1>0, <2>1 DEF DrillTypes, Dirs
<1>3. DrillIds'
  <2>1. ASSUME NEW n \in DrillNames
        PROVE  /\ dirDrill'[n].id <= seq' /\ known'[n] <= seq'
               /\ dirDrill'[n].own => dirDrill'[n].id # 0
               /\ Drill!Owned(n)' => dirDrill'[n].own
    <3>0. /\ dirDrill[n].id \in Nat /\ known[n] \in Nat /\ dirDrill[n].id <= seq /\ known[n] <= seq
          /\ dirDrill[n].own => dirDrill[n].id # 0
          /\ Drill!Owned(n) => dirDrill[n].own
      BY <1>0 DEF DrillTypes, DrillInv, DrillIds
    <3>1. CASE dirDrill'[n] = dirDrill[n]
      BY <1>0, <3>0, <3>1 DEF Drill!Owned
    <3>2. CASE dirDrill'[n] = Drill!Gone
      BY <1>0, <3>0, <3>2, DrillGone DEF Drill!Owned
    <3>3. CASE dirDrill[n].own /\ dirDrill'[n].own /\ dirDrill'[n].id = dirDrill[n].id
      BY <1>0, <3>0, <3>3
    <3>4. CASE seq' = seq + 1 /\ dirDrill'[n].own /\ dirDrill'[n].id = seq + 1
      BY <1>0, <3>0, <3>4
    <3>5. n = "run" \/ n = "ws" \/ n = "bak" \/ n = "cor"
      BY DEF DrillNames
    <3>6. n = "run" \/ n = "cor" => dirDrill'[n] = dirDrill[n]
      BY ChildEffects
    <3>7. n = "ws" => \/ dirDrill'[n] = dirDrill[n]
                      \/ dirDrill'[n] = Drill!Gone
                      \/ dirDrill[n].own /\ dirDrill'[n].own /\ dirDrill'[n].id = dirDrill[n].id
      BY ChildEffects
    <3>8. n = "bak" => \/ dirDrill'[n] = dirDrill[n]
                       \/ seq' = seq + 1 /\ dirDrill'[n].own /\ dirDrill'[n].id = seq + 1
      BY ChildEffects
    <3> QED  BY <3>1, <3>2, <3>3, <3>4, <3>5, <3>6, <3>7, <3>8
  <2>2. k = 2 /\ ans'.st = "ok" => ans'.id \in 1..seq' /\ dirDrill'["bak"].own
    BY <1>0, ChildEffects
  <2> QED  BY <1>0, <2>1, <2>2 DEF DrillIds
<1>4. DrillPlaces' /\ DrillLeft'
  BY <1>0 DEF DrillPlaces, DrillLeft, Cleaning
<1>5. DrillData'
  <2>1. /\ k = 1 /\ ans'.st = "ok" => dirDrill'["ws"].db = "terminal"
        /\ k = 4 /\ ans'.st = "ok" => dirDrill'["ws"].db = "fresh"
    BY ChildEffects
  <2>2. k = 2 /\ ans'.st = "ok" => seen'["backup"] = "terminal"
    <3>1. k = 2 => (dirDrill["ws"].own => dirDrill["ws"].db = "terminal")
      BY <1>0 DEF DrillInv, DrillData
    <3>2. k = 2 /\ ans'.st = "ok" => dirDrill["ws"].own /\ seen' = [seen EXCEPT !["backup"] = dirDrill["ws"].db]
      BY ChildEffects
    <3> QED  BY <1>0, <3>1, <3>2 DEF DrillTypes
  <2>3. /\ k = 5 => seen'["reject"] = dirDrill'["ws"].db
        /\ k = 6 => seen'["restore"] = dirDrill'["ws"].db
        /\ k = 7 => seen'["retry"] = dirDrill'["ws"].db
    BY <1>0, ChildEffects DEF DrillTypes
  <2>4. /\ k >= 3 => seen'["backup"] = seen["backup"]
        /\ k >= 6 => seen'["reject"] = seen["reject"]
        /\ k >= 7 => seen'["restore"] = seen["restore"]
    <3>1. k = 1 \/ k = 2 \/ k = 3 \/ k = 4 \/ k = 5 \/ k = 6 \/ k = 7
      BY <1>0
    <3> QED  BY <1>0, <3>1, ChildEffects DEF DrillTypes
  <2> QED  BY <1>0, <2>1, <2>2, <2>3, <2>4 DEF DrillInv, DrillData
<1> QED  BY <1>2, <1>3, <1>4, <1>5 DEF DrillInv

LEMMA DrillAfter == ASSUME DrillInv, Drill!AfterChild PROVE DrillInv'
<1> USE DrillNone
<1>1. /\ pcDrill = "post" /\ k \in 1..7 /\ DrillTypes /\ errDrill = None /\ ~publishedDrill
      /\ UNCHANGED <<dirDrill, ans, fresh, cleanupErr, outcome, publishedDrill, seen, seq, faultsDrill, outsideDrill>>
  BY DEF Drill!AfterChild, DrillInv, DrillPlaces, Cleaning
<1>2. CASE ~Drill!WorkspaceOwned \/ ~Drill!Accepted
  <2>1. /\ errDrill' \in Drill!Failures /\ pcDrill' = "cleanWs" /\ UNCHANGED <<k, baseDrill, known>>
    BY <1>2 DEF Drill!AfterChild, Drill!Fail, Drill!Failures
  <2> QED  BY <1>1, <2>1, DrillFails
<1>3. CASE Drill!WorkspaceOwned /\ Drill!Accepted
  <2>1. /\ k' = k + 1 /\ errDrill' = errDrill
        /\ baseDrill' = (IF Drill!Stage = "branch" THEN dirDrill["ws"].db ELSE baseDrill)
        /\ known' = (IF Drill!Stage = "backup" THEN [known EXCEPT !["bak"] = dirDrill["bak"].id] ELSE known)
    BY <1>3 DEF Drill!AfterChild, Drill!NextStage
  <2>2. dirDrill["ws"].own
    BY <1>3 DEF Drill!WorkspaceOwned, DrillInv, DrillIds, DrillNames
  <2>3. k # 3
    BY DrillStages DEF Drill!AfterChild, Drill!Stage
  <2>4. /\ k \in {1, 2, 5, 6} => pcDrill' = "pre"
        /\ k = 4 => pcDrill' = "corrupt"
        /\ k = 7 => pcDrill' = "cleanWs"
    <3>1. pcDrill' = CASE Drill!Stage = "reset" -> "mkws"
                       [] Drill!Stage = "init" -> "corrupt"
                       [] Drill!Stage = "retry" -> "cleanWs"
                       [] OTHER -> "pre"
      BY <1>3 DEF Drill!AfterChild, Drill!NextStage
    <3>2. k \in {1, 2, 5, 6} => Drill!Stage \in {"branch", "backup", "reject", "restore"}
      BY DrillStages DEF Drill!Stage
    <3>3. k = 4 => Drill!Stage = "init"
      BY DrillStages DEF Drill!Stage
    <3>4. k = 7 => Drill!Stage = "retry"
      BY DrillStages DEF Drill!Stage
    <3> QED  BY <3>1, <3>2, <3>3, <3>4
  <2>5. /\ k \in {1, 2, 4} => ans.st = "ok"
        /\ k = 2 => dirDrill["bak"].id = ans.id
        /\ k = 5 => dirDrill["ws"].db = fresh
        /\ k \in {6, 7} => dirDrill["ws"].db = baseDrill
    <3>1. /\ k = 1 => Drill!Stage = "branch"
          /\ k = 2 => Drill!Stage = "backup"
          /\ k = 4 => Drill!Stage = "init"
          /\ k = 5 => Drill!Stage = "reject"
          /\ k = 6 => Drill!Stage = "restore"
          /\ k = 7 => Drill!Stage = "retry"
      BY DrillStages DEF Drill!Stage
    <3> QED  BY <1>3, <3>1 DEF Drill!Accepted
  <2>6. /\ k = 1 => baseDrill' = "terminal"
        /\ k >= 2 => baseDrill' = baseDrill
    <3>1. k >= 2 => Drill!Stage # "branch"
      <4>1. k >= 2 => k = 2 \/ k = 3 \/ k = 4 \/ k = 5 \/ k = 6 \/ k = 7
        BY <1>1
      <4> QED  BY <4>1, DrillStages DEF Drill!Stage
    <3>2. k = 1 => Drill!Stage = "branch" /\ dirDrill["ws"].db = "terminal"
      BY <1>1, <2>2, <2>5, DrillStages DEF Drill!Stage, DrillInv, DrillData
    <3> QED  BY <1>1, <2>1, <3>1, <3>2
  <2>7. DrillTypes'
    <3>1. known' \in [DrillNames -> Nat]
      BY <1>1, <2>1 DEF DrillTypes, DrillNames
    <3>2. k = 1 \/ k = 2 \/ k = 3 \/ k = 4 \/ k = 5 \/ k = 6 \/ k = 7
      BY <1>1, <2>1
    <3>3. pcDrill' \in {"pre", "corrupt", "cleanWs"}
      BY <2>3, <2>4, <3>2
    <3>4. k' \in 1..8
      BY <1>1, <2>1
    <3> QED  BY <1>1, <2>1, <3>1, <3>3, <3>4 DEF DrillTypes, Cleaning
  <2>8. DrillIds'
    <3>1. ASSUME NEW n \in DrillNames
          PROVE  known'[n] <= seq /\ (Drill!Owned(n)' => dirDrill[n].own)
      <4>1. CASE known'[n] = known[n]
        BY <1>1, <4>1 DEF DrillInv, DrillIds, Drill!Owned
      <4>2. CASE n = "bak" /\ Drill!Stage = "backup"
        <5>1. k = 2
          <6>1. k = 1 \/ k = 2 \/ k = 3 \/ k = 4 \/ k = 5 \/ k = 6 \/ k = 7
            BY <1>1
          <6> QED  BY <4>2, <6>1, DrillStages DEF Drill!Stage
        <5>2. dirDrill["bak"].own
          BY <1>1, <2>5, <5>1 DEF DrillInv, DrillIds
        <5>3. known'[n] = dirDrill[n].id
          BY <1>1, <2>1, <4>2 DEF DrillTypes
        <5> QED  BY <4>2, <5>2, <5>3 DEF DrillInv, DrillIds
      <4>3. known'[n] = known[n] \/ (n = "bak" /\ Drill!Stage = "backup")
        BY <1>1, <2>1 DEF DrillTypes
      <4> QED  BY <4>1, <4>2, <4>3
    <3>2. pcDrill' # "post"
      <4>1. k = 1 \/ k = 2 \/ k = 3 \/ k = 4 \/ k = 5 \/ k = 6 \/ k = 7
        BY <1>1
      <4> QED  BY <2>3, <2>4, <4>1
    <3> QED  BY <1>1, <3>1, <3>2 DEF DrillInv, DrillIds
  <2>9. DrillPlaces' /\ DrillLeft'
    <3>1. k = 1 \/ k = 2 \/ k = 4 \/ k = 5 \/ k = 6 \/ k = 7
      BY <1>1, <2>3
    <3> QED  BY <1>1, <2>1, <2>4, <3>1 DEF DrillPlaces, DrillLeft, Cleaning
  <2>10. DrillData'
    <3>1. CASE k = 1
      BY <1>1, <2>1, <2>2, <2>4, <2>5, <2>6, <3>1 DEF DrillInv, DrillData
    <3>2. CASE k = 2
      BY <1>1, <2>1, <2>2, <2>4, <2>5, <2>6, <3>2 DEF DrillInv, DrillData
    <3>3. CASE k = 4
      BY <1>1, <2>1, <2>2, <2>4, <2>5, <2>6, <3>3 DEF DrillInv, DrillData
    <3>4. CASE k = 5
      BY <1>1, <2>1, <2>2, <2>4, <2>5, <2>6, <3>4 DEF DrillInv, DrillData
    <3>5. CASE k = 6
      BY <1>1, <2>1, <2>2, <2>4, <2>5, <2>6, <3>5 DEF DrillInv, DrillData
    <3>6. CASE k = 7
      BY <1>1, <2>1, <2>2, <2>4, <2>5, <2>6, <3>6 DEF DrillInv, DrillData
    <3> QED  BY <1>1, <2>3, <3>1, <3>2, <3>3, <3>4, <3>5, <3>6
  <2> QED  BY <2>7, <2>8, <2>9, <2>10 DEF DrillInv
<1> QED  BY <1>2, <1>3

LEMMA DrillReset == ASSUME DrillInv, Drill!AfterReset PROVE DrillInv'
<1> USE DrillNone
<1>1. /\ pcDrill = "post" /\ k = 3 /\ DrillTypes /\ errDrill = None /\ ~publishedDrill
      /\ UNCHANGED <<dirDrill, ans, baseDrill, fresh, cleanupErr, outcome, publishedDrill, seen, seq, faultsDrill, outsideDrill>>
  <2>1. pcDrill = "post" /\ k \in 1..7 /\ Drill!Program[k] = "reset"
    BY DEF Drill!AfterReset, Drill!Stage, DrillInv, DrillPlaces
  <2>2. k = 1 \/ k = 2 \/ k = 3 \/ k = 4 \/ k = 5 \/ k = 6 \/ k = 7
    BY <2>1
  <2>3. k = 3
    BY <2>1, <2>2, DrillStages
  <2> QED  BY <2>1, <2>3 DEF Drill!AfterReset, DrillInv, DrillPlaces, Cleaning
<1>2. CASE /\ pcDrill' = "cleanWs" /\ errDrill' \in Drill!Failures /\ UNCHANGED <<k, known>>
  BY <1>1, <1>2, DrillFails
<1>3. CASE Drill!NextStage /\ known' = [known EXCEPT !["ws"] = 0]
  <2>1. k' = 4 /\ pcDrill' = "mkws" /\ errDrill' = None
    BY <1>1, <1>3, DrillStages DEF Drill!NextStage, Drill!Stage
  <2>2. /\ known' \in [DrillNames -> Nat] /\ known'["ws"] = 0
        /\ \A n \in DrillNames \ {"ws"} : known'[n] = known[n]
    BY <1>1, <1>3 DEF DrillTypes, DrillNames
  <2>3. DrillTypes'
    BY <1>1, <2>1, <2>2 DEF DrillTypes
  <2>4. DrillIds'
    <3>1. ASSUME NEW n \in DrillNames PROVE known'[n] <= seq /\ (Drill!Owned(n)' => dirDrill[n].own)
      BY <1>1, <2>2 DEF DrillInv, DrillIds, Drill!Owned, DrillTypes
    <3> QED  BY <1>1, <2>1, <3>1 DEF DrillInv, DrillIds
  <2>5. DrillPlaces' /\ DrillLeft' /\ DrillData'
    BY <1>1, <2>1 DEF DrillInv, DrillPlaces, DrillLeft, DrillData, Cleaning
  <2> QED  BY <2>3, <2>4, <2>5 DEF DrillInv
<1> QED
  BY <1>2, <1>3 DEF Drill!AfterReset, Drill!Fail, Drill!Failures

LEMMA DrillCorrupt == ASSUME DrillInv, Drill!CopyCorruptBackup PROVE DrillInv'
<1> USE DrillNone
<1>1. /\ pcDrill = "corrupt" /\ k = 5 /\ DrillTypes /\ errDrill = None /\ ~publishedDrill
      /\ seq \in Nat /\ seq + 1 \in Nat
      /\ UNCHANGED <<k, ans, baseDrill, fresh, cleanupErr, outcome, publishedDrill, seen, outsideDrill>>
  BY DEF Drill!CopyCorruptBackup, DrillInv, DrillPlaces, DrillTypes, Cleaning
<1>2. CASE UNCHANGED <<dirDrill, known, seq>> /\ Drill!Fail("recovery_contract_failed")
  BY <1>1, <1>2, DrillFails DEF Drill!Fail, Drill!Failures
<1>3. CASE /\ seq' = seq + 1 /\ dirDrill["cor"].id = 0
           /\ dirDrill' = [dirDrill EXCEPT !["cor"] = Drill!Made(seq', "corrupt")]
           /\ \/ pcDrill' = "pre" /\ known' = [known EXCEPT !["cor"] = seq'] /\ errDrill' = errDrill
              \/ Drill!Fail("recovery_contract_failed") /\ known' = known
  <2>1. PICK d \in Dirs : d = Drill!Made(seq', "corrupt") /\ d.id = seq + 1 /\ d.own
    BY <1>1, <1>3, DrillMade DEF Contents
  <2>2. /\ dirDrill' \in [DrillNames -> Dirs] /\ dirDrill'["cor"] = d
        /\ \A m \in DrillNames \ {"cor"} : dirDrill'[m] = dirDrill[m]
    BY <1>1, <1>3, <2>1, OneNameChanges DEF DrillNames
  <2>3. /\ known' \in [DrillNames -> Nat] /\ known'["cor"] \in {known["cor"], seq + 1}
        /\ \A m \in DrillNames \ {"cor"} : known'[m] = known[m]
    BY <1>1, <1>3 DEF DrillTypes, DrillNames
  <2>4. /\ pcDrill' \in {"pre", "cleanWs"} /\ errDrill' \in {None} \cup Drill!Failures
        /\ pcDrill' = "pre" => errDrill' = None
        /\ pcDrill' = "cleanWs" => errDrill' # None
    BY <1>1, <1>3 DEF Drill!Fail, Drill!Failures
  <2>5. DrillTypes'
    BY <1>1, <1>3, <2>2, <2>3, <2>4 DEF DrillTypes, Dirs, Cleaning
  <2>6. DrillIds'
    <3>1. ASSUME NEW n \in DrillNames
          PROVE  /\ dirDrill'[n].id <= seq' /\ known'[n] <= seq'
                 /\ dirDrill'[n].own => dirDrill'[n].id # 0
                 /\ Drill!Owned(n)' => dirDrill'[n].own
      <4>0. /\ dirDrill[n].id \in Nat /\ known[n] \in Nat /\ dirDrill[n].id <= seq /\ known[n] <= seq
            /\ dirDrill[n].own => dirDrill[n].id # 0
            /\ Drill!Owned(n) => dirDrill[n].own
        BY <1>1 DEF DrillTypes, DrillInv, DrillIds
      <4>1. CASE n = "cor"
        BY <1>1, <1>3, <2>1, <2>2, <2>3, <4>0, <4>1
      <4>2. CASE n # "cor"
        BY <1>1, <1>3, <2>2, <2>3, <4>0, <4>2 DEF Drill!Owned
      <4> QED  BY <4>1, <4>2
    <3> QED  BY <1>1, <3>1 DEF DrillIds
  <2>7. DrillPlaces' /\ DrillLeft'
    BY <1>1, <2>4 DEF DrillPlaces, DrillLeft, Cleaning
  <2>8. dirDrill'["ws"] = dirDrill["ws"]
    BY <2>2 DEF DrillNames
  <2>9. DrillData'
    BY <1>1, <2>4, <2>8 DEF DrillInv, DrillData
  <2> QED  BY <2>5, <2>6, <2>7, <2>9 DEF DrillInv
<1> QED
  BY <1>1, <1>2, <1>3 DEF Drill!CopyCorruptBackup

\* Something the drill made is removed, or nothing is.
LEMMA DrillRemoves ==
    ASSUME DrillInv, NEW n \in DrillNames,
           dirDrill' = dirDrill \/ dirDrill' = [dirDrill EXCEPT ![n] = Drill!Gone],
           UNCHANGED <<known, seq>>
    PROVE  /\ dirDrill' \in [DrillNames -> Dirs]
           /\ \A m \in DrillNames : /\ dirDrill'[m].id <= seq' /\ known'[m] <= seq'
                                    /\ dirDrill'[m].own => dirDrill'[m].id # 0
                                    /\ Drill!Owned(m)' => dirDrill'[m].own
                                    /\ dirDrill'[m].own => dirDrill[m].own
           /\ \A m \in DrillNames \ {n} : dirDrill'[m] = dirDrill[m]
<1>0. DrillTypes
  BY DEF DrillInv
<1>1. /\ dirDrill' \in [DrillNames -> Dirs]
      /\ \A m \in DrillNames \ {n} : dirDrill'[m] = dirDrill[m]
      /\ dirDrill'[n] = dirDrill[n] \/ dirDrill'[n] = Drill!Gone
  BY <1>0, DrillGone, OneNameChanges DEF DrillTypes, Dirs
<1>2. ASSUME NEW m \in DrillNames
      PROVE  /\ dirDrill'[m].id <= seq' /\ known'[m] <= seq'
             /\ dirDrill'[m].own => dirDrill'[m].id # 0
             /\ Drill!Owned(m)' => dirDrill'[m].own
             /\ dirDrill'[m].own => dirDrill[m].own
  <2>0. /\ dirDrill[m].id <= seq /\ known[m] <= seq /\ known[m] \in Nat /\ seq \in Nat
        /\ dirDrill[m].own => dirDrill[m].id # 0
        /\ Drill!Owned(m) => dirDrill[m].own
    BY <1>0 DEF DrillInv, DrillIds, DrillTypes
  <2>1. CASE dirDrill'[m] = dirDrill[m]
    BY <2>0, <2>1 DEF Drill!Owned
  <2>2. CASE dirDrill'[m] = Drill!Gone
    BY <2>0, <2>2, DrillGone DEF Drill!Owned
  <2> QED  BY <1>1, <2>1, <2>2
<1> QED  BY <1>1, <1>2

LEMMA DrillCleans ==
    ASSUME DrillInv, Drill!CleanWorkspace \/ Drill!RemoveBackup("bak") \/ Drill!RemoveBackup("cor")
    PROVE  DrillInv'
<1> USE DrillNone
<1>1. PICK n \in {"ws", "bak", "cor"} :
        /\ pcDrill = (IF n = "ws" THEN "cleanWs" ELSE IF n = "bak" THEN "cleanBak" ELSE "cleanCor")
        /\ pcDrill' = (IF n = "ws" THEN "cleanBak" ELSE IF n = "bak" THEN "cleanCor" ELSE "final")
        /\ dirDrill' = dirDrill \/ dirDrill' = [dirDrill EXCEPT ![n] = Drill!Gone]
        /\ dirDrill'[n].own => cleanupErr'
        /\ n # "ws" => (cleanupErr => cleanupErr')
        /\ UNCHANGED <<known, k, ans, baseDrill, fresh, errDrill, outcome, publishedDrill, seen, seq, outsideDrill>>
  <2>0. /\ dirDrill \in [DrillNames -> Dirs]
        /\ \A n \in DrillNames : dirDrill[n].own => dirDrill[n].id # 0
    BY DEF DrillInv, DrillTypes, DrillIds, Dirs
  <2>1. CASE Drill!CleanWorkspace
    <3>1. /\ pcDrill = "cleanWs" /\ pcDrill' = "cleanBak"
          /\ UNCHANGED <<known, k, ans, baseDrill, fresh, errDrill, outcome, publishedDrill, seen, seq, outsideDrill>>
      BY <2>1 DEF Drill!CleanWorkspace
    <3>2. \/ dirDrill["ws"].id = 0 /\ dirDrill' = dirDrill
          \/ cleanupErr' = TRUE /\ dirDrill' = dirDrill
          \/ \E o \in {"ok", "failed"}, done \in BOOLEAN :
                /\ o = "ok" => done
                /\ dirDrill' = IF done THEN [dirDrill EXCEPT !["ws"] = Drill!Gone] ELSE dirDrill
                /\ cleanupErr' = (o # "ok")
      BY <2>1 DEF Drill!CleanWorkspace, Drill!Outcomes
    <3>3. /\ dirDrill' = dirDrill \/ dirDrill' = [dirDrill EXCEPT !["ws"] = Drill!Gone]
          /\ dirDrill'["ws"].own => cleanupErr'
      <4>1. CASE dirDrill["ws"].id = 0 /\ dirDrill' = dirDrill
        BY <2>0, <4>1 DEF DrillNames
      <4>2. ASSUME NEW o \in {"ok", "failed"}, NEW done \in BOOLEAN, o = "ok" => done,
                   dirDrill' = IF done THEN [dirDrill EXCEPT !["ws"] = Drill!Gone] ELSE dirDrill,
                   cleanupErr' = (o # "ok")
            PROVE  /\ dirDrill' = dirDrill \/ dirDrill' = [dirDrill EXCEPT !["ws"] = Drill!Gone]
                   /\ dirDrill'["ws"].own => cleanupErr'
        <5>1. CASE o = "ok"
          BY <2>0, <4>2, <5>1, DrillGone DEF DrillNames
        <5>2. CASE o # "ok"
          BY <4>2, <5>2
        <5> QED  BY <5>1, <5>2
      <4> QED  BY <3>2, <4>1, <4>2
    <3> QED  BY <3>1, <3>3
  <2>2. ASSUME NEW n \in {"bak", "cor"}, Drill!RemoveBackup(n)
        PROVE  /\ pcDrill = (IF n = "bak" THEN "cleanBak" ELSE "cleanCor")
               /\ pcDrill' = (IF n = "bak" THEN "cleanCor" ELSE "final")
               /\ dirDrill' = dirDrill \/ dirDrill' = [dirDrill EXCEPT ![n] = Drill!Gone]
               /\ dirDrill'[n].own => cleanupErr'
               /\ cleanupErr => cleanupErr'
               /\ UNCHANGED <<known, k, ans, baseDrill, fresh, errDrill, outcome, publishedDrill, seen, seq, outsideDrill>>
    <3>1. /\ dirDrill' = dirDrill \/ dirDrill' = [dirDrill EXCEPT ![n] = Drill!Gone]
          /\ cleanupErr' = (cleanupErr \/ dirDrill'[n].id # 0)
      BY <2>2 DEF Drill!RemoveBackup
    <3>2. dirDrill'[n].own => dirDrill'[n].id # 0
      BY <2>0, <3>1, DrillGone DEF DrillNames
    <3> QED  BY <2>2, <3>1, <3>2 DEF Drill!RemoveBackup
  <2>3. CASE Drill!RemoveBackup("bak")
    BY <2>2, <2>3
  <2>4. CASE Drill!RemoveBackup("cor")
    BY <2>2, <2>4
  <2> QED  BY <2>1, <2>3, <2>4
<1>2. n \in DrillNames
  BY DEF DrillNames
<1>3. /\ dirDrill' \in [DrillNames -> Dirs]
      /\ \A m \in DrillNames : /\ dirDrill'[m].id <= seq' /\ known'[m] <= seq'
                               /\ dirDrill'[m].own => dirDrill'[m].id # 0
                               /\ Drill!Owned(m)' => dirDrill'[m].own
                               /\ dirDrill'[m].own => dirDrill[m].own
  BY <1>1, <1>2, DrillRemoves
<1>4. pcDrill \in Cleaning /\ pcDrill' \in Cleaning \ {"cleanWs"}
  BY <1>1 DEF Cleaning
<1>5. DrillTypes'
  BY <1>1, <1>3, <1>4 DEF DrillInv, DrillTypes, Dirs
<1>6. DrillIds'
  BY <1>3, <1>4 DEF DrillIds, Cleaning
<1>7. ~publishedDrill
  BY <1>4 DEF DrillInv, DrillPlaces, Cleaning
<1>8. DrillPlaces'
  BY <1>1, <1>4, <1>7 DEF DrillInv, DrillPlaces, Cleaning
<1>9. DrillData'
  BY <1>1, <1>4 DEF DrillInv, DrillData, Cleaning
<1>10. DrillLeft'
  <2>1. /\ dirDrill'["ws"].own => dirDrill["ws"].own
        /\ dirDrill'["bak"].own => dirDrill["bak"].own
        /\ dirDrill'["cor"].own => dirDrill["cor"].own
    BY <1>3 DEF DrillNames
  <2>2. pcDrill' \notin {"write", "done"}
    BY <1>4 DEF Cleaning
  <2>3. CASE n = "ws"
    BY <1>1, <2>3 DEF DrillLeft
  <2>4. CASE n = "bak"
    BY <1>1, <2>1, <2>4 DEF DrillInv, DrillLeft
  <2>5. CASE n = "cor"
    BY <1>1, <2>1, <2>5 DEF DrillInv, DrillLeft
  <2> QED  BY <2>3, <2>4, <2>5
<1> QED  BY <1>5, <1>6, <1>8, <1>9, <1>10 DEF DrillInv

LEMMA DrillFinish == ASSUME DrillInv, Drill!Finish \/ Drill!WriteReport PROVE DrillInv'
<1> USE DrillNone
<1>0. /\ DrillTypes /\ dirDrill \in [DrillNames -> Dirs]
      /\ \A n \in DrillNames : dirDrill[n].own => dirDrill[n].id # 0
  BY DEF DrillInv, DrillTypes, DrillIds, Dirs
<1>1. /\ pcDrill \in {"final", "write"} /\ pcDrill' \in {"write", "done"} /\ ~publishedDrill
      /\ UNCHANGED <<known, k, ans, baseDrill, fresh, errDrill, cleanupErr, seen, seq, outsideDrill>>
  BY DEF Drill!Finish, Drill!WriteReport, DrillInv, DrillPlaces
<1>2. dirDrill' = dirDrill \/ dirDrill' = [dirDrill EXCEPT !["run"] = Drill!Gone]
  BY DEF Drill!Finish, Drill!WriteReport, Drill!RemoveRun
<1>3. /\ dirDrill' \in [DrillNames -> Dirs]
      /\ \A m \in DrillNames : /\ dirDrill'[m].id <= seq' /\ known'[m] <= seq'
                               /\ dirDrill'[m].own => dirDrill'[m].id # 0
                               /\ Drill!Owned(m)' => dirDrill'[m].own
                               /\ dirDrill'[m].own => dirDrill[m].own
  <2>1. "run" \in DrillNames
    BY DEF DrillNames
  <2> QED  BY <1>1, <1>2, <2>1, DrillRemoves
<1>4. DrillTypes'
  BY <1>0, <1>1, <1>3 DEF DrillTypes, Dirs
<1>5. DrillIds'
  BY <1>1, <1>3 DEF DrillIds
<1>6. DrillData'
  BY <1>1 DEF DrillInv, DrillData
<1>7. pcDrill' = "write" => /\ pcDrill = "final" /\ dirDrill' = dirDrill /\ publishedDrill' = publishedDrill
                            /\ errDrill = None /\ Drill!Empty
  <2>1. Drill!Verdict = None => errDrill = None /\ Drill!Empty
    BY DEF Drill!Verdict, Drill!Failures
  <2> QED  BY <2>1 DEF Drill!Finish, Drill!WriteReport
<1>8. publishedDrill' => pcDrill = "write" /\ pcDrill' = "done" /\ dirDrill' = dirDrill /\ Drill!Owned("run") /\ Drill!Empty
  BY <1>1 DEF Drill!Finish, Drill!WriteReport
<1>9. DrillPlaces'
  <2>1. errDrill = None /\ pcDrill = "final" => k = 8
    BY DEF DrillInv, DrillPlaces, Cleaning
  <2>2. pcDrill = "write" => k = 8 /\ errDrill = None
    BY DEF DrillInv, DrillPlaces, Cleaning
  <2>3. pcDrill' = "write" => k' = 8 /\ errDrill' = None
    BY <1>1, <1>7, <2>1
  <2>4. publishedDrill' => pcDrill' = "done" /\ k' = 8 /\ Drill!Empty' /\ Drill!Owned("run")'
    BY <1>1, <1>8, <2>2 DEF Drill!Empty, Drill!Owned
  <2> QED  BY <1>1, <2>3, <2>4 DEF DrillPlaces, Cleaning
<1>10. DrillLeft'
  <2>1. /\ dirDrill'["ws"].own => dirDrill["ws"].own
        /\ dirDrill'["bak"].own => dirDrill["bak"].own
        /\ dirDrill'["cor"].own => dirDrill["cor"].own
    BY <1>3 DEF DrillNames
  <2>2. CASE pcDrill' = "write"
    <3>1. ~dirDrill["ws"].own /\ ~dirDrill["bak"].own /\ ~dirDrill["cor"].own
      BY <1>0, <1>7, <2>2 DEF Drill!Empty, DrillNames
    <3> QED  BY <2>1, <2>2, <3>1 DEF DrillLeft
  <2>3. CASE pcDrill = "write"
    BY <1>1, <2>1, <2>3 DEF DrillInv, DrillLeft
  <2>4. CASE pcDrill' = "done" /\ pcDrill = "final"
    <3>1. cleanupErr => outcome' = "cleanup_failed"
      BY <2>4 DEF Drill!Finish, Drill!WriteReport, Drill!Verdict
    <3> QED  BY <2>1, <2>4, <3>1 DEF DrillInv, DrillLeft
  <2> QED  BY <1>1, <2>2, <2>3, <2>4
<1> QED  BY <1>4, <1>5, <1>6, <1>9, <1>10 DEF DrillInv

LEMMA DrillPlant == ASSUME DrillInv, NEW n \in DrillNames, Drill!Plant(n) PROVE DrillInv'
<1> USE DrillNone
<1>1. /\ DrillTypes /\ seq \in Nat /\ seq' = seq + 1 /\ outsideDrill' = outsideDrill + 1 /\ pcDrill # "done"
      /\ UNCHANGED <<known, pcDrill, k, ans, baseDrill, fresh, errDrill, cleanupErr, outcome, publishedDrill, seen, faultsDrill>>
  BY DEF Drill!Plant, DrillInv, DrillTypes
<1>2. PICK d \in Dirs : d = [id |-> seq', own |-> FALSE, db |-> "foreign"] /\ d.id = seq + 1 /\ ~d.own
  <2>1. seq' \in Nat
    BY <1>1
  <2> QED  BY <1>1, <2>1, DrillForeign
<1>3. dirDrill' = [m \in DrillNames |-> IF m = n THEN d ELSE IF n = "run" THEN Drill!Gone ELSE dirDrill[m]]
  BY <1>2 DEF Drill!Plant, DrillNames, Drill!Names
<1>4. /\ dirDrill' \in [DrillNames -> Dirs]
      /\ \A m \in DrillNames : dirDrill'[m] = d \/ dirDrill'[m] = Drill!Gone \/ dirDrill'[m] = dirDrill[m]
  BY <1>1, <1>2, <1>3, DrillGone DEF DrillTypes, Dirs
<1>5. \A m \in DrillNames : dirDrill'[m].own => dirDrill'[m] = dirDrill[m]
  BY <1>2, <1>4, DrillGone
<1>6. DrillTypes'
  BY <1>1, <1>4 DEF DrillTypes, Dirs
<1>7. DrillIds'
  <2>1. ASSUME NEW m \in DrillNames
        PROVE  /\ dirDrill'[m].id <= seq' /\ known'[m] <= seq'
               /\ dirDrill'[m].own => dirDrill'[m].id # 0
               /\ Drill!Owned(m)' => dirDrill'[m].own
    <3>0. /\ dirDrill[m].id \in Nat /\ known[m] \in Nat /\ dirDrill[m].id <= seq /\ known[m] <= seq
          /\ dirDrill[m].own => dirDrill[m].id # 0
          /\ Drill!Owned(m) => dirDrill[m].own
      BY <1>1 DEF DrillTypes, DrillInv, DrillIds
    <3>1. CASE dirDrill'[m] = d
      BY <1>1, <1>2, <3>0, <3>1 DEF Drill!Owned
    <3>2. CASE dirDrill'[m] = Drill!Gone
      BY <1>1, <3>0, <3>2, DrillGone DEF Drill!Owned
    <3>3. CASE dirDrill'[m] = dirDrill[m]
      BY <1>1, <3>0, <3>3 DEF Drill!Owned
    <3> QED  BY <1>4, <3>1, <3>2, <3>3
  <2>2. pcDrill' = "post" /\ k' = 2 /\ ans'.st = "ok" =>
           /\ ans'.id \in 1..seq'
           /\ dirDrill'["bak"].id = ans'.id => dirDrill'["bak"].own
    <3> SUFFICES ASSUME pcDrill' = "post", k' = 2, ans'.st = "ok"
                 PROVE  /\ ans'.id \in 1..seq'
                        /\ dirDrill'["bak"].id = ans'.id => dirDrill'["bak"].own
      OBVIOUS
    <3>1. /\ ans.id \in 1..seq
          /\ dirDrill["bak"].id = ans.id => dirDrill["bak"].own
      BY <1>1 DEF DrillInv, DrillIds
    <3>2. dirDrill'["bak"] = d \/ dirDrill'["bak"] = Drill!Gone \/ dirDrill'["bak"] = dirDrill["bak"]
      BY <1>4 DEF DrillNames
    <3>3. ans'.id \in 1..seq' /\ ans'.id # 0 /\ ans'.id # seq + 1 /\ ans' = ans
      BY <1>1, <3>1
    <3>4. CASE dirDrill'["bak"] = d
      BY <1>2, <3>3, <3>4
    <3>5. CASE dirDrill'["bak"] = Drill!Gone
      BY <3>3, <3>5, DrillGone
    <3>6. CASE dirDrill'["bak"] = dirDrill["bak"]
      BY <3>1, <3>3, <3>6
    <3> QED  BY <3>2, <3>4, <3>5, <3>6
  <2> QED  BY <2>1, <2>2 DEF DrillIds
<1>8. /\ dirDrill'["ws"].own => dirDrill'["ws"] = dirDrill["ws"]
      /\ dirDrill'["bak"].own => dirDrill'["bak"] = dirDrill["bak"]
      /\ dirDrill'["cor"].own => dirDrill'["cor"] = dirDrill["cor"]
  BY <1>5 DEF DrillNames
<1>9. ~publishedDrill
  BY <1>1 DEF DrillInv, DrillPlaces
<1>10. DrillPlaces'
  <2>1. pcDrill = "mkrun" => \A m \in DrillNames : ~dirDrill'[m].own
    BY <1>5 DEF DrillInv, DrillPlaces
  <2> QED  BY <1>1, <1>9, <2>1 DEF DrillInv, DrillPlaces
<1>11. DrillData'
  BY <1>1, <1>8 DEF DrillInv, DrillData
<1>12. DrillLeft'
  BY <1>1, <1>8 DEF DrillInv, DrillLeft
<1> QED  BY <1>6, <1>7, <1>10, <1>11, <1>12 DEF DrillInv

LEMMA DrillStep == ASSUME DrillInv, Drill!Next PROVE DrillInv'
<1>1. CASE Drill!CreateRunDirectory \/ Drill!CreateWorkspaceDirectory
  BY <1>1, DrillCreate
<1>2. CASE Drill!BeforeChild
  BY <1>2, DrillBefore
<1>3. CASE Drill!RunChild
  BY <1>3, DrillChild
<1>4. CASE Drill!AfterChild
  BY <1>4, DrillAfter
<1>5. CASE Drill!AfterReset
  BY <1>5, DrillReset
<1>6. CASE Drill!CopyCorruptBackup
  BY <1>6, DrillCorrupt
<1>7. CASE Drill!CleanWorkspace \/ Drill!RemoveBackup("bak") \/ Drill!RemoveBackup("cor")
  BY <1>7, DrillCleans
<1>8. CASE Drill!Finish \/ Drill!WriteReport
  BY <1>8, DrillFinish
<1>9. CASE \E n \in Drill!Names : Drill!Plant(n)
  BY <1>9, DrillPlant DEF Drill!Names, DrillNames
<1> QED  BY <1>1, <1>2, <1>3, <1>4, <1>5, <1>6, <1>7, <1>8, <1>9 DEF Drill!Next

LEMMA DrillFacts == ASSUME DrillInv PROVE Drill!ReportProvesRecovery /\ Drill!LeftoverIsCleanupFailed
<1>1. Drill!ReportProvesRecovery
  BY DEF DrillInv, DrillPlaces, DrillData, Drill!ReportProvesRecovery
<1>2. Drill!LeftoverIsCleanupFailed
  BY DEF DrillInv, DrillLeft, Drill!LeftoverIsCleanupFailed
<1> QED  BY <1>1, <1>2

\* Only what the drill or its child made, or nothing at all, gives way.
LEMMA DrillKeeps == ASSUME DrillInv, Drill!Next \/ UNCHANGED drillVars PROVE Drill!ForeignDirectoriesKept
<1> SUFFICES ASSUME outsideDrill' = outsideDrill, NEW n \in DrillNames, dirDrill[n].id # 0, ~dirDrill[n].own
             PROVE  dirDrill'[n] = dirDrill[n]
  BY DEF Drill!ForeignDirectoriesKept, Drill!Names, DrillNames
<1>0. DrillTypes /\ dirDrill \in [DrillNames -> Dirs] /\ ~Drill!Owned(n)
  BY DEF DrillInv, DrillTypes, DrillIds, Dirs
<1>1. CASE Drill!CreateRunDirectory \/ Drill!CreateWorkspaceDirectory
  BY <1>0, <1>1 DEF Drill!CreateRunDirectory, Drill!CreateWorkspaceDirectory, DrillNames
<1>2. CASE Drill!BeforeChild \/ Drill!AfterChild \/ Drill!AfterReset \/ UNCHANGED drillVars
  BY <1>2 DEF Drill!BeforeChild, Drill!AfterChild, Drill!AfterReset, drillVars
<1>3. CASE Drill!RunChild
  <2>1. n \in {"run", "cor"} => dirDrill'[n] = dirDrill[n]
    BY <1>3, ChildEffects
  <2>2. n = "ws" => dirDrill'[n] = dirDrill[n]
    BY <1>3, ChildEffects
  <2>3. n = "bak" => dirDrill'[n] = dirDrill[n]
    BY <1>3, ChildEffects
  <2> QED  BY <2>1, <2>2, <2>3 DEF DrillNames
<1>4. CASE Drill!CopyCorruptBackup
  <2>1. dirDrill' = dirDrill \/ (dirDrill["cor"].id = 0 /\ dirDrill' = [dirDrill EXCEPT !["cor"] = Drill!Made(seq', "corrupt")])
    BY <1>4 DEF Drill!CopyCorruptBackup
  <2> QED  BY <1>0, <2>1 DEF DrillNames
<1>5. CASE Drill!CleanWorkspace
  <2>1. dirDrill' = dirDrill \/ (dirDrill["ws"].own /\ dirDrill' = [dirDrill EXCEPT !["ws"] = Drill!Gone])
    BY <1>5 DEF Drill!CleanWorkspace
  <2> QED  BY <1>0, <2>1 DEF DrillNames
<1>6. ASSUME NEW m \in {"bak", "cor"}, Drill!RemoveBackup(m) PROVE dirDrill'[n] = dirDrill[n]
  <2>1. dirDrill' = dirDrill \/ (Drill!Owned(m) /\ dirDrill' = [dirDrill EXCEPT ![m] = Drill!Gone])
    BY <1>6 DEF Drill!RemoveBackup, Drill!RemoveOwned
  <2> QED  BY <1>0, <2>1 DEF DrillNames
<1>7. CASE Drill!Finish \/ Drill!WriteReport
  <2>1. dirDrill' = dirDrill \/ (Drill!Owned("run") /\ dirDrill' = [dirDrill EXCEPT !["run"] = Drill!Gone])
    BY <1>7 DEF Drill!Finish, Drill!WriteReport, Drill!RemoveRun
  <2> QED  BY <1>0, <2>1 DEF DrillNames
<1>8. ~\E m \in Drill!Names : Drill!Plant(m)
  BY <1>0 DEF Drill!Plant, DrillTypes
<1> QED  BY <1>1, <1>2, <1>3, <1>4, <1>5, <1>6, <1>7, <1>8 DEF Drill!Next

----------------------------------------------------------------------------
(* The defence, observability, lifecycle and SLO runners *)

Sides == {"success", "failure"}
Spaces == [st : {"absent", "new", "previewed", "terminal"}, runs : Nat]
Started == {"revision", "status", "mkdir"}
Bound == {"body", "project", "cleanup", "revisionAfter", "statusAfter", "write", "finish", "collect"}
Over == {"finish", "collect", "evaluate", "done", "killed"}

IsSeq(s) == \E S : s \in Seq(S)

\* The workspaces: progress and actions of each branch.
Both == ws["success"].runs = 1 /\ ws["failure"].runs = 1

DefenseSpaces ==
    /\ ws \in [Sides -> Spaces]
    /\ pcDefense \in Started \cup Bound \cup Over
    /\ pcDefense \in Started \cup {"revisionAfter", "statusAfter", "write"} =>
           \A b \in Sides : ws[b].st = "absent"
    /\ pcDefense = "body" => /\ i \in 1..16
                             /\ i >= 9 => ws["success"].runs = 1
                             /\ i >= 16 => ws["failure"].runs = 1
    /\ pcDefense = "project" => Both /\ i \in 1..2
    /\ pcDefense = "cleanup" => /\ i \in 1..3
                                /\ i >= 2 => (ws["success"].st # "absent" => dirtyDefense)
                                /\ i >= 3 => (ws["failure"].st # "absent" => dirtyDefense)
    /\ pcDefense \in {"finish", "collect"} =>
           \A b \in Sides : ws[b].st # "absent" => errDefense = "cleanup_failed"
    /\ pcDefense \in {"cleanup", "finish"} /\ errDefense = None => Both
    /\ pcDefense \in {"revisionAfter", "statusAfter", "write"} => Both
    /\ publishedDefense \cap {"defense", "lifecycle"} # {} =>
           /\ pcDefense \in Over /\ Both
           /\ \A b \in Sides : ws[b].st = "absent"

\* The persisted observation says what the run was.
DefenseObserved ==
    /\ IsSeq(eventsDefense)
    /\ pcDefense \notin {"collect", "evaluate", "done", "killed"} => obs = None
    /\ obs # None =>
           IF obs.ok THEN Defense!Graph(obs.events) = Defense!ExpectedGraph ELSE obs.alerts # {}
    /\ pcDefense = "collect" /\ obs # None =>
           /\ errDefense = "cleanup_failed" => "CLEANUP" \in obs.alerts
           /\ obs.source.stable => /\ errDefense = None /\ beforeDefense.available /\ after.available
                                   /\ beforeDefense.sha = after.sha /\ obs.source.sha = after.sha

\* The commits the children ran on: those of the windows before, and those since
\* the first reading of this one.
Earlier(c) == \E n \in 1..Len(sources) : sources[n].sha = c
AllEarlier == \A c \in ran : Earlier(c)
SinceFirst == \A c \in ran : Earlier(c) \/ beforeDefense.sha <= c
SomeSince == \E c \in ran : beforeDefense.sha <= c
UpTo(x) == \A c \in ran : c <= x
Collected == \A n \in 1..Len(sources) : sources[n].sha \in ran

\* A child of the body of this run has run.
HasRun ==
    \/ pcDefense = "body" /\ i > 1
    \/ pcDefense \in {"cleanup", "finish", "collect"} /\ errDefense = None
    \/ pcDefense \in {"project", "revisionAfter", "statusAfter", "write"}

DefenseCommits ==
    /\ git \in [sha : Nat, clean : BOOLEAN] /\ ran \subseteq Nat /\ UpTo(git.sha)
    /\ IsSeq(sources) /\ Collected
    /\ pcDefense = "status" /\ rev # None => rev \in Nat /\ rev <= git.sha
    /\ pcDefense \in Started \cup {"evaluate"} => AllEarlier
    /\ pcDefense \in {"revision", "status"} => ~beforeDefense.available
    /\ pcDefense \in Bound \cup {"mkdir"} /\ beforeDefense.available =>
           beforeDefense.sha \in Nat /\ beforeDefense.sha <= git.sha /\ SinceFirst
    /\ pcDefense \in Started \cup {"body", "project", "cleanup", "revisionAfter", "statusAfter"} => ~after.available
    /\ pcDefense = "statusAfter" /\ rev # None => rev \in Nat /\ UpTo(rev)
    /\ pcDefense \in {"write", "finish", "collect"} /\ after.available => after.sha \in Nat /\ UpTo(after.sha)
    /\ HasRun /\ beforeDefense.available => SomeSince
    /\ pcDefense = "evaluate" => Len(sources) >= 1
    /\ slo \in {"OK", "BREACH"} => pcDefense = "done" /\ ran = {sources[1].sha}

DefenseInv == DefenseSpaces /\ DefenseObserved /\ DefenseCommits

LEMMA DefenseNone == None \notin Defense!Codes
BY DefenseConstants DEF Defense!EvidenceAssumption

LEMMA DefenseSides == Defense!Branches = Sides /\ "success" \in Sides /\ "failure" \in Sides
BY DEF Defense!Branches, Sides

LEMMA DefenseOrder == Defense!BranchOrder[1] = "success" /\ Defense!BranchOrder[2] = "failure"
BY DEF Defense!BranchOrder

\* The program: the preflight, then seven children for each branch.
LEMMA BodyFacts ==
    /\ Len(Defense!Body) = 15 /\ Defense!Body[1].branch = "none"
    /\ \A n \in 2..8 : Defense!Body[n].branch = "success"
    /\ \A n \in 9..15 : Defense!Body[n].branch = "failure"
    /\ Defense!Body[8].stage = "terminal_verify" /\ Defense!Body[15].stage = "terminal_verify"
<1>1. Len(Defense!Body) = 15
  BY DEF Defense!Body
<1>2. Defense!Body[1].branch = "none"
  BY DEF Defense!Body, Defense!Cmd
<1>3. \A n \in 2..8 : Defense!Body[n].branch = "success"
  BY DEF Defense!Body, Defense!Cmd
<1>4. \A n \in 9..15 : Defense!Body[n].branch = "failure"
  BY DEF Defense!Body, Defense!Cmd
<1>5. Defense!BranchStages[7] = "terminal_verify"
  BY DEF Defense!BranchStages
<1>6. Defense!Body[8].stage = "terminal_verify" /\ Defense!Body[15].stage = "terminal_verify"
  BY <1>5 DEF Defense!Body, Defense!Cmd
<1> QED  BY <1>1, <1>2, <1>3, <1>4, <1>6

\* What a child leaves of its workspace.
LEMMA EffectSpace ==
    ASSUME NEW w \in Spaces, NEW s, NEW r
    PROVE  Defense!Effect(w, s, r) \in Spaces /\ (s = "terminal_verify" => Defense!Effect(w, s, r) = w)
<1>1. w.runs \in Nat /\ w.runs + 1 \in Nat
  BY DEF Spaces
<1>2. /\ [w EXCEPT !.st = "new"] \in Spaces /\ [w EXCEPT !.st = "previewed"] \in Spaces
      /\ [st |-> "terminal", runs |-> w.runs + 1] \in Spaces
  BY <1>1 DEF Spaces
<1>3. CASE s = "workspace_init"
  BY <1>2, <1>3 DEF Defense!Effect
<1>4. CASE s = "governance_preview"
  BY <1>2, <1>4 DEF Defense!Effect
<1>5. CASE s = "approval_execute"
  BY <1>2, <1>5 DEF Defense!Effect
<1>6. CASE s \notin {"workspace_init", "governance_preview", "approval_execute"}
  BY <1>6 DEF Defense!Effect
<1> QED  BY <1>3, <1>4, <1>5, <1>6

LEMMA SpacesStart == Defense!Init => DefenseSpaces
<1> SUFFICES ASSUME Defense!Init PROVE DefenseSpaces
  OBVIOUS
<1>1. Defense!Absent \in Spaces /\ Defense!Absent.st = "absent"
  BY DEF Defense!Absent, Spaces
<1>2. ws \in [Sides -> Spaces] /\ \A b \in Sides : ws[b].st = "absent"
  BY <1>1, DefenseSides DEF Defense!Init
<1> QED  BY <1>2 DEF Defense!Init, DefenseSpaces, Started, Over

LEMMA SpacesFrame ==
    ASSUME DefenseSpaces, UNCHANGED <<ws, pcDefense, i, errDefense, dirtyDefense, publishedDefense>>
    PROVE  DefenseSpaces'
BY DEF DefenseSpaces, Both

\* The places before the body, and those after the clean-up.
LEMMA SpacesReadings == ASSUME DefenseSpaces, Defense!GitRevision \/ Defense!GitStatus PROVE DefenseSpaces'
<1>1. /\ \/ pcDefense \in Started /\ pcDefense' \in Started
         \/ /\ pcDefense \in {"revisionAfter", "statusAfter"}
            /\ pcDefense' \in {"revisionAfter", "statusAfter", "write"}
      /\ UNCHANGED <<ws, i, errDefense, dirtyDefense, publishedDefense>>
  BY DEF Defense!GitRevision, Defense!GitStatus, Started
<1> QED  BY <1>1 DEF DefenseSpaces, Started, Over, Bound, Both

LEMMA SpacesMkdir == ASSUME DefenseSpaces, Defense!CreateRunDirectory PROVE DefenseSpaces'
<1>1. /\ pcDefense = "mkdir" /\ i' = 1 /\ UNCHANGED <<ws, dirtyDefense, publishedDefense>>
      /\ \/ pcDefense' = "body" /\ errDefense' = None
         \/ pcDefense' = "finish" /\ errDefense' = "report_write_failed"
  BY DEF Defense!CreateRunDirectory
<1> QED  BY <1>1, DefenseNone DEF DefenseSpaces, Started, Over, Bound, Both, Defense!Codes

LEMMA SpacesRun == ASSUME DefenseSpaces, Defense!RunCommand PROVE DefenseSpaces'
<1>1. /\ pcDefense = "body" /\ i \in 1..15 /\ UNCHANGED <<dirtyDefense, publishedDefense>>
      /\ publishedDefense \cap {"defense", "lifecycle"} = {}
  BY BodyFacts DEF Defense!RunCommand, DefenseSpaces, Over
<1>2. PICK o \in {"ok", "failed", "drift", "repeats"}, done \in BOOLEAN :
        /\ ws' = IF done /\ Defense!Body[i].branch # "none"
                 THEN [ws EXCEPT ![Defense!Body[i].branch] = Defense!Effect(ws[Defense!Body[i].branch], Defense!Body[i].stage, o = "repeats")] ELSE ws
        /\ errDefense' = IF o = "failed" THEN "command_failed"
                  ELSE IF o = "drift" \/ (Defense!Body[i].branch # "none" /\ ~Defense!Validates(Defense!Body[i], ws[Defense!Body[i].branch]))
                       THEN "evidence_contract_failed" ELSE None
        /\ IF errDefense' # None THEN pcDefense' = "cleanup" /\ i' = 1
           ELSE pcDefense' = pcDefense /\ i' = i + 1
  BY DEF Defense!RunCommand, Defense!Outcomes, Defense!ChildFailure, Defense!ContractDrift
<1>3. PICK b : b = Defense!Body[i].branch
  OBVIOUS
<1>4. PICK s : s = Defense!Body[i].stage
  OBVIOUS
<1>5. /\ i = 1 => b = "none"
      /\ i \in 2..8 => b = "success"
      /\ i \in 9..15 => b = "failure"
      /\ i \in {8, 15} => s = "terminal_verify"
  BY <1>1, <1>3, <1>4, BodyFacts
<1>6. b \in Sides \cup {"none"}
  <2>1. i = 1 \/ i \in 2..8 \/ i \in 9..15
    BY <1>1
  <2> QED  BY <1>5, <2>1 DEF Sides
<1>7. ws \in [Sides -> Spaces]
  BY DEF DefenseSpaces
<1>8. /\ ws' \in [Sides -> Spaces]
      /\ \A d \in Sides \ {b} : ws'[d] = ws[d]
      /\ b \in Sides /\ s = "terminal_verify" => ws'[b] = ws[b]
  <2>1. CASE ws' = ws
    BY <1>7, <2>1
  <2>2. CASE b # "none" /\ ws' = [ws EXCEPT ![b] = Defense!Effect(ws[b], s, o = "repeats")]
    <3>1. b \in Sides /\ ws[b] \in Spaces
      BY <1>6, <1>7, <2>2
    <3>2. PICK e \in Spaces : e = Defense!Effect(ws[b], s, o = "repeats") /\ (s = "terminal_verify" => e = ws[b])
      BY <3>1, EffectSpace
    <3> QED  BY <1>7, <2>2, <3>1, <3>2
  <2> QED  BY <1>2, <1>3, <1>4, <2>1, <2>2
<1>9. CASE errDefense' # None
  <2>1. pcDefense' = "cleanup" /\ i' = 1
    BY <1>2, <1>9
  <2> QED  BY <1>1, <1>8, <1>9, <2>1 DEF DefenseSpaces, Started, Over, Bound
<1>10. CASE errDefense' = None
  <2>1. pcDefense' = "body" /\ i' = i + 1
    BY <1>1, <1>2, <1>10
  <2>2. i \in {8, 15} => ws[b].runs = 1 /\ b \in Sides
    <3> SUFFICES ASSUME i \in {8, 15} PROVE ws[b].runs = 1 /\ b \in Sides
      OBVIOUS
    <3>1. b # "none" /\ s = "terminal_verify" /\ b \in Sides
      BY <1>5 DEF Sides
    <3>2. Defense!Validates(Defense!Body[i], ws[b])
      BY <1>2, <1>3, <1>10, <3>1, DefenseNone DEF Defense!Codes
    <3> QED  BY <1>4, <3>1, <3>2 DEF Defense!Validates
  <2>3. i' >= 9 => ws'["success"].runs = 1
    <3>1. CASE i = 8
      BY <1>5, <1>8, <2>2, <3>1
    <3>2. CASE i \in 9..15
      <4>1. ws["success"].runs = 1
        BY <1>1, <3>2 DEF DefenseSpaces
      <4>2. b = "failure"
        BY <1>5, <3>2
      <4> QED  BY <1>8, <4>1, <4>2 DEF Sides
    <3> QED  BY <1>1, <2>1, <3>1, <3>2
  <2>4. i' >= 16 => ws'["failure"].runs = 1
    <3>1. i' >= 16 => i = 15
      BY <1>1, <2>1
    <3> QED  BY <1>5, <1>8, <2>2, <3>1
  <2>5. i' \in 1..16
    BY <1>1, <2>1
  <2> QED  BY <1>1, <1>8, <2>1, <2>3, <2>4, <2>5 DEF DefenseSpaces, Started, Over, Bound
<1> QED  BY <1>9, <1>10

LEMMA SpacesBody ==
    ASSUME DefenseSpaces, Defense!BodyDone \/ Defense!ReadLifecycleProjection PROVE DefenseSpaces'
<1>1. CASE Defense!BodyDone
  <2>1. /\ pcDefense = "body" /\ i = 16 /\ pcDefense' \in {"project", "cleanup"} /\ i' = 1
        /\ UNCHANGED <<ws, dirtyDefense, publishedDefense, errDefense>>
    BY <1>1, BodyFacts DEF Defense!BodyDone, Defense!run, DefenseSpaces
  <2>2. Both
    BY <2>1 DEF DefenseSpaces, Both
  <2> QED  BY <2>1, <2>2 DEF DefenseSpaces, Both, Started, Over, Bound
<1>2. CASE Defense!ReadLifecycleProjection
  <2>1. /\ pcDefense = "project" /\ i \in 1..2 /\ Both
        /\ UNCHANGED <<ws, dirtyDefense, publishedDefense>>
        /\ \/ pcDefense' = "cleanup" /\ i' = 1
           \/ pcDefense' = "project" /\ i = 1 /\ i' = i + 1
    BY <1>2 DEF Defense!ReadLifecycleProjection, DefenseSpaces
  <2> QED  BY <2>1 DEF DefenseSpaces, Both, Started, Over, Bound
<1> QED  BY <1>1, <1>2

LEMMA SpacesReset == ASSUME DefenseSpaces, Defense!ResetWorkspace PROVE DefenseSpaces'
<1>1. /\ pcDefense = "cleanup" /\ i \in 1..2 /\ i' = i + 1
      /\ UNCHANGED <<pcDefense, errDefense, publishedDefense>>
      /\ ws \in [Sides -> Spaces]
  BY DEF Defense!ResetWorkspace, DefenseSpaces
<1>2. PICK b : b = Defense!BranchOrder[i]
  OBVIOUS
<1>3. b \in Sides /\ (i = 1 => b = "success") /\ (i = 2 => b = "failure")
  BY <1>1, <1>2, DefenseOrder DEF Sides
<1>4. /\ ws' \in [Sides -> Spaces] /\ \A d \in Sides : ws'[d].runs = ws[d].runs
      /\ \A d \in Sides : ws'[d].st # "absent" => ws[d].st # "absent"
  <2>1. CASE ws' = ws
    BY <1>1, <2>1
  <2>2. CASE ws' = [ws EXCEPT ![b] = [ws[b] EXCEPT !.st = "absent"]]
    <3>1. PICK e \in Spaces : e = [ws[b] EXCEPT !.st = "absent"] /\ e.runs = ws[b].runs /\ e.st = "absent"
      <4>1. PICK w \in Spaces : w = ws[b]
        BY <1>1, <1>3
      <4>2. [w EXCEPT !.st = "absent"] \in Spaces
        BY DEF Spaces
      <4>3. [w EXCEPT !.st = "absent"].runs = w.runs /\ [w EXCEPT !.st = "absent"].st = "absent"
        BY DEF Spaces
      <4> QED  BY <4>1, <4>2, <4>3, Zenon
    <3> QED  BY <1>1, <1>3, <2>2, <3>1
  <2> QED  BY <1>2, <2>1, <2>2 DEF Defense!ResetWorkspace
<1>5. (dirtyDefense => dirtyDefense') /\ (ws'[b].st # "absent" => dirtyDefense')
  <2>1. CASE ~Defense!Remains(b)
    BY <1>2, <2>1 DEF Defense!ResetWorkspace, Defense!Remains
  <2>2. CASE Defense!Remains(b)
    <3>1. PICK o \in Defense!Outcomes(Defense!ChildFailure \cup Defense!ContractDrift), done \in BOOLEAN :
              /\ o = "ok" => done
              /\ ws' = IF done THEN [ws EXCEPT ![b] = [ws[b] EXCEPT !.st = "absent"]] ELSE ws
              /\ dirtyDefense' = (dirtyDefense \/ o # "ok")
      BY <1>2, <2>2, Zenon DEF Defense!ResetWorkspace
    <3>2. dirtyDefense => dirtyDefense'
      BY <3>1, Zenon
    <3>3. o # "ok" => dirtyDefense'
      BY <3>1, Zenon
    <3>4. o = "ok" => ws'[b].st = "absent"
      BY <1>1, <1>3, <3>1 DEF Spaces
    <3> QED  BY <3>2, <3>3, <3>4, Zenon
  <2> QED  BY <2>1, <2>2
<1>6. /\ i' >= 2 => (ws'["success"].st # "absent" => dirtyDefense')
      /\ i' >= 3 => (ws'["failure"].st # "absent" => dirtyDefense')
  <2>1. CASE i = 1
    BY <1>1, <1>3, <1>5, <2>1
  <2>2. CASE i = 2
    <3>1. ws["success"].st # "absent" => dirtyDefense
      BY <1>1, <2>2 DEF DefenseSpaces
    <3> QED  BY <1>3, <1>4, <1>5, <2>2, <3>1 DEF Sides
  <2> QED  BY <1>1, <2>1, <2>2
<1>7. Both => Both'
  BY <1>4 DEF Both, Sides
<1>8. /\ publishedDefense \cap {"defense", "lifecycle"} = {}
      /\ errDefense = None => Both
  BY <1>1 DEF DefenseSpaces, Over
<1> QED  BY <1>1, <1>4, <1>6, <1>7, <1>8 DEF DefenseSpaces, Started, Over, Bound

LEMMA SpacesCleaned == ASSUME DefenseSpaces, Defense!CleanupDone PROVE DefenseSpaces'
<1>1. /\ pcDefense = "cleanup" /\ i = 3 /\ UNCHANGED <<ws, publishedDefense>>
      /\ IF dirtyDefense THEN errDefense' = "cleanup_failed" ELSE errDefense' = errDefense
      /\ pcDefense' = IF errDefense' = None THEN "revisionAfter" ELSE "finish"
  BY DEF Defense!CleanupDone, Defense!AfterCleanup, DefenseSpaces
<1>2. /\ \A b \in Sides : ws[b].st # "absent" => dirtyDefense
      /\ publishedDefense \cap {"defense", "lifecycle"} = {}
      /\ errDefense = None => Both
  BY <1>1 DEF DefenseSpaces, Sides, Over
<1>3. CASE dirtyDefense
  BY <1>1, <1>2, <1>3, DefenseNone DEF DefenseSpaces, Started, Over, Bound, Both, Defense!Codes
<1>4. CASE ~dirtyDefense
  BY <1>1, <1>2, <1>4, DefenseNone DEF DefenseSpaces, Started, Over, Bound, Both, Defense!Codes
<1> QED  BY <1>3, <1>4

LEMMA SpacesWrite ==
    ASSUME DefenseSpaces,
           Defense!WriteDefenseReport \/ Defense!WriteObservation \/ Defense!WriteLifecycle
    PROVE  DefenseSpaces'
<1>1. CASE Defense!WriteDefenseReport
  <2>1. pcDefense = "write" /\ pcDefense' = "finish" /\ UNCHANGED ws
    BY <1>1 DEF Defense!WriteDefenseReport
  <2> QED  BY <2>1 DEF DefenseSpaces, Started, Over, Bound, Both
<1>2. CASE Defense!WriteObservation
  <2>1. /\ pcDefense = "finish" /\ pcDefense' = "collect" /\ UNCHANGED <<ws, errDefense>>
        /\ publishedDefense' \in {publishedDefense, publishedDefense \cup {"observation"}}
    BY <1>2 DEF Defense!WriteObservation
  <2>2. publishedDefense' \cap {"defense", "lifecycle"} = publishedDefense \cap {"defense", "lifecycle"}
    BY <2>1
  <2> QED  BY <2>1, <2>2 DEF DefenseSpaces, Started, Over, Bound, Both
<1>3. CASE Defense!WriteLifecycle
  <2>1. /\ pcDefense = "finish" /\ pcDefense' = "done" /\ UNCHANGED ws
        /\ publishedDefense' # publishedDefense => errDefense = None
    BY <1>3 DEF Defense!WriteLifecycle, Defense!LifecycleProven, Defense!Business
  <2> QED  BY <2>1, DefenseNone DEF DefenseSpaces, Started, Over, Bound, Both, Defense!Codes
<1> QED  BY <1>1, <1>2, <1>3

LEMMA SpacesCollect ==
    ASSUME DefenseSpaces,
           Defense!CollectWindow \/ Defense!EvaluateWindows \/ Defense!KillWrapper
    PROVE  DefenseSpaces'
<1>1. CASE Defense!CollectWindow /\ pcDefense' = "revision"
  <2>1. Defense!Absent \in Spaces /\ Defense!Absent.st = "absent"
    BY DEF Defense!Absent, Spaces
  <2>2. publishedDefense' = {} /\ ws' = [b \in Defense!Branches |-> Defense!Absent]
    BY <1>1 DEF Defense!CollectWindow, Defense!FreshRun
  <2>3. ws' \in [Sides -> Spaces] /\ \A b \in Sides : ws'[b].st = "absent"
    BY <2>1, <2>2, DefenseSides
  <2> QED  BY <1>1, <2>2, <2>3 DEF DefenseSpaces, Started, Over, Bound
<1>2. CASE ~(Defense!CollectWindow /\ pcDefense' = "revision")
  <2>1. pcDefense' \in {"evaluate", "done", "killed"} /\ UNCHANGED <<ws, publishedDefense>>
    BY <1>2 DEF Defense!CollectWindow, Defense!EvaluateWindows, Defense!KillWrapper, Defense!run
  <2> QED  BY <2>1 DEF DefenseSpaces, Started, Over, Bound, Both
<1> QED  BY <1>1, <1>2

LEMMA SpacesStep == ASSUME DefenseSpaces, Defense!Next PROVE DefenseSpaces'
<1>1. CASE Defense!RecorderClock \/ Defense!RepositoryMoves
  BY <1>1, SpacesFrame DEF Defense!RecorderClock, Defense!RepositoryMoves, Defense!run
<1> QED  BY <1>1, SpacesReadings, SpacesMkdir, SpacesRun, SpacesBody, SpacesReset, SpacesCleaned,
            SpacesWrite, SpacesCollect DEF Defense!Next

\* The recorder only ever appends to its events.
LEMMA Recorded ==
    ASSUME IsSeq(eventsDefense), NEW c, NEW succeeded, Defense!Record(c, succeeded)
    PROVE  IsSeq(eventsDefense)'
<1>1. PICK S : eventsDefense \in Seq(S)
  BY DEF IsSeq
<1>2. PICK e : eventsDefense' \in {eventsDefense, Append(eventsDefense, e)}
  BY DEF Defense!Record
<1>3. \A s \in Seq(S) : Append(s, e) \in Seq(S \cup {e}) /\ s \in Seq(S \cup {e})
  OBVIOUS
<1>4. eventsDefense' \in Seq(S \cup {e})
  BY <1>1, <1>2, <1>3
<1> QED  BY <1>4 DEF IsSeq

\* The graph of the events and the final one.
LEMMA GraphOfAppend ==
    ASSUME NEW evs, IsSeq(evs), NEW e
    PROVE  Defense!Graph(Append(evs, e)) =
               Append(Defense!Graph(evs), Defense!Child(e.stage, e.branch, e.attempt))
<1>1. PICK S : evs \in Seq(S)
  BY DEF IsSeq
<1>2. PICK n \in Nat : n = Len(evs)
  BY <1>1
<1>3. DOMAIN evs = 1..n
  BY <1>1, <1>2
<1>4. PICK g : g = Defense!Graph(evs)
  OBVIOUS
<1>5. g = [m \in 1..n |-> Defense!Child(evs[m].stage, evs[m].branch, evs[m].attempt)]
  BY <1>3, <1>4 DEF Defense!Graph
<1>6. PICK x : x = Defense!Child(e.stage, e.branch, e.attempt)
  OBVIOUS
<1>7. PICK T : /\ \A m \in 1..n : Defense!Child(evs[m].stage, evs[m].branch, evs[m].attempt) \in T
  <2> DEFINE T == {Defense!Child(evs[m].stage, evs[m].branch, evs[m].attempt) : m \in 1..n}
  <2>1. \A m \in 1..n : Defense!Child(evs[m].stage, evs[m].branch, evs[m].attempt) \in T
    OBVIOUS
  <2> QED  BY <2>1, Zenon
<1>8. g \in Seq(T) /\ Len(g) = n
  BY <1>5, <1>7
<1>9. DOMAIN Append(evs, e) = 1..(n + 1) /\ DOMAIN Append(g, x) = 1..(n + 1)
  <2>1. \A s \in Seq(S) : DOMAIN Append(s, e) = 1..(Len(s) + 1)
    OBVIOUS
  <2>2. \A s \in Seq(T) : DOMAIN Append(s, x) = 1..(Len(s) + 1)
    OBVIOUS
  <2> QED  BY <1>1, <1>2, <1>8, <2>1, <2>2
<1>10. PICK f : f = Defense!Graph(Append(evs, e))
  OBVIOUS
<1>11. /\ DOMAIN f = 1..(n + 1) /\ f = [m \in DOMAIN f |-> f[m]]
       /\ \A m \in 1..(n + 1) :
              f[m] = Defense!Child(Append(evs, e)[m].stage, Append(evs, e)[m].branch, Append(evs, e)[m].attempt)
  BY <1>9, <1>10 DEF Defense!Graph
<1>12. /\ \A m \in 1..n : Append(evs, e)[m] = evs[m] /\ Append(g, x)[m] = g[m]
       /\ Append(evs, e)[n + 1] = e /\ Append(g, x)[n + 1] = x
  <2>1. \A s \in Seq(S) : Append(s, e)[Len(s) + 1] = e /\ \A m \in 1..Len(s) : Append(s, e)[m] = s[m]
    OBVIOUS
  <2>2. \A s \in Seq(T) : Append(s, x)[Len(s) + 1] = x /\ \A m \in 1..Len(s) : Append(s, x)[m] = s[m]
    OBVIOUS
  <2> QED  BY <1>1, <1>2, <1>8, <2>1, <2>2
<1>13. \A m \in 1..(n + 1) : f[m] = Append(g, x)[m]
  <2> SUFFICES ASSUME NEW m \in 1..(n + 1) PROVE f[m] = Append(g, x)[m]
    OBVIOUS
  <2>1. CASE m = n + 1
    BY <1>6, <1>11, <1>12, <2>1
  <2>2. CASE m \in 1..n
    <3>1. g[m] = Defense!Child(evs[m].stage, evs[m].branch, evs[m].attempt)
      BY <1>5, <2>2
    <3> QED  BY <1>11, <1>12, <2>2, <3>1
  <2>3. m = n + 1 \/ m \in 1..n
    OBVIOUS
  <2> QED  BY <2>1, <2>2, <2>3, Zenon
<1>14. PICK h : h = Append(g, x) /\ h \in Seq(T \cup {x})
  <2>1. \A s \in Seq(T) : Append(s, x) \in Seq(T \cup {x})
    OBVIOUS
  <2> QED  BY <1>8, <2>1, Zenon
<1>15. f = h
  <2>1. h = [m \in DOMAIN h |-> h[m]]
    <3>1. h \in [1..Len(h) -> T \cup {x}]
      BY <1>14, LenProperties
    <3> QED  BY <3>1
  <2>2. DOMAIN h = 1..(n + 1) /\ \A m \in 1..(n + 1) : f[m] = h[m]
    BY <1>9, <1>13, <1>14
  <2> QED  BY <1>11, <2>1, <2>2
<1> QED  BY <1>4, <1>6, <1>10, <1>14, <1>15

\* A run without a business result raises the retry alert, an objection the
\* contract alert, a failed clean-up the clean-up alert.
LEMMA AlertRaised ==
    ASSUME NEW evs, NEW business, NEW class, NEW objected
    PROVE  /\ ~business => "RETRY" \in Defense!Alerts(evs, business, class, objected)
           /\ objected => "CONTRACT" \in Defense!Alerts(evs, business, class, objected)
           /\ class = "CLEANUP" => "CLEANUP" \in Defense!Alerts(evs, business, class, objected)
<1>1. ~business => "RETRY" \in Defense!Alerts(evs, business, class, objected)
  BY DEF Defense!Alerts
<1>2. objected => "CONTRACT" \in Defense!Alerts(evs, business, class, objected)
  BY DEF Defense!Alerts
<1>3. class = "CLEANUP" => "CLEANUP" \in Defense!Alerts(evs, business, class, objected)
  BY DEF Defense!Alerts
<1> QED  BY <1>1, <1>2, <1>3

\* What the observer writes about the run.
LEMMA ObservationFacts ==
    ASSUME IsSeq(eventsDefense)
    PROVE  /\ Defense!Observation.ok => Defense!Graph(Defense!Observation.events) = Defense!ExpectedGraph
           /\ ~Defense!Observation.ok => Defense!Observation.alerts # {}
           /\ errDefense = "cleanup_failed" => "CLEANUP" \in Defense!Observation.alerts
           /\ Defense!Observation.source.stable =>
                 /\ errDefense = None /\ beforeDefense.available /\ after.available
                 /\ beforeDefense.sha = after.sha /\ Defense!Observation.source.sha = after.sha
<1> DEFINE objected == violated \/ (Defense!Business /\ Defense!Graph(eventsDefense) # Defense!ExpectedChildGraph)
           code == Defense!PrimaryError(objected)
           last == [stage |-> "run_finalize", branch |-> "none", attempt |-> 1,
                    outcome |-> IF code = None THEN "SUCCEEDED" ELSE "FAILED"]
           evs == Append(eventsDefense, last)
           made == IF Defense!Business THEN Defense!Source ELSE [stable |-> FALSE, sha |-> None, clean |-> FALSE]
           alerts == Defense!Alerts(evs, Defense!Business, Defense!ErrorClass(code), objected)
<1>1. Defense!Observation = [ok |-> code = None, code |-> code, source |-> made, business |-> Defense!Business,
                             events |-> evs, alerts |-> alerts]
  BY Zenon DEF Defense!Observation
<1>2. /\ Defense!Observation.ok <=> code = None
      /\ Defense!Observation.events = evs /\ Defense!Observation.alerts = alerts /\ Defense!Observation.source = made
  <2> HIDE DEF code, evs, alerts, made
  <2> QED  BY <1>1
<1>3. code = None => errDefense = None /\ ~objected
  BY DefenseNone DEF Defense!PrimaryError, Defense!Codes
<1>4. code = None => Defense!Graph(evs) = Defense!ExpectedGraph
  <2> SUFFICES ASSUME code = None PROVE Defense!Graph(evs) = Defense!ExpectedGraph
    OBVIOUS
  <2>1. Defense!Graph(eventsDefense) = Defense!ExpectedChildGraph
    BY <1>3 DEF Defense!Business
  <2>2. last.stage = "run_finalize" /\ last.branch = "none" /\ last.attempt = 1
    <3> HIDE DEF code
    <3> QED  OBVIOUS
  <2> HIDE DEF last
  <2>3. Defense!Graph(evs) = Append(Defense!Graph(eventsDefense), Defense!Child(last.stage, last.branch, last.attempt))
    BY GraphOfAppend
  <2> QED  BY <2>1, <2>2, <2>3 DEF Defense!ExpectedGraph
<1>5. code # None => alerts # {}
  <2>1. CASE ~Defense!Business
    <3>1. "RETRY" \in alerts
      BY <2>1, AlertRaised
    <3> QED  BY <3>1
  <2>2. CASE objected
    <3>1. "CONTRACT" \in alerts
      BY <2>2, AlertRaised
    <3> QED  BY <3>1
  <2>3. Defense!Business /\ ~objected => code = None
    BY DEF Defense!Business, Defense!PrimaryError
  <2> QED  BY <2>1, <2>2, <2>3
<1>6. errDefense = "cleanup_failed" => "CLEANUP" \in alerts
  <2> SUFFICES ASSUME errDefense = "cleanup_failed" PROVE "CLEANUP" \in alerts
    OBVIOUS
  <2>1. code = "cleanup_failed"
    BY DefenseNone DEF Defense!PrimaryError, Defense!Codes
  <2>2. Defense!ErrorClass(code) = "CLEANUP"
    <3> HIDE DEF code
    <3> QED  BY <2>1 DEF Defense!ErrorClass
  <2> QED  BY <2>2, AlertRaised
<1>7. made.stable => /\ errDefense = None /\ beforeDefense.available /\ after.available
                     /\ beforeDefense.sha = after.sha /\ made.sha = after.sha
  <2>1. CASE Defense!Business
    <3>1. made = Defense!Source
      BY <2>1
    <3>2. Defense!Source.stable => /\ beforeDefense.available /\ after.available
                                   /\ beforeDefense.sha = after.sha /\ Defense!Source.sha = after.sha
      BY DEF Defense!Source
    <3> QED  BY <2>1, <3>1, <3>2 DEF Defense!Business
  <2>2. CASE ~Defense!Business
    BY <2>2
  <2> QED  BY <2>1, <2>2
<1> HIDE DEF code, evs, alerts, made
<1> QED  BY <1>2, <1>4, <1>5, <1>6, <1>7

LEMMA ObservedStart == Defense!Init => DefenseObserved
<1> SUFFICES ASSUME Defense!Init PROVE DefenseObserved
  OBVIOUS
<1>1. eventsDefense \in Seq({})
  BY DEF Defense!Init
<1>2. IsSeq(eventsDefense)
  BY <1>1 DEF IsSeq
<1> QED  BY <1>2 DEF Defense!Init, DefenseObserved

LEMMA ObservedFrame ==
    ASSUME DefenseObserved, UNCHANGED <<pcDefense, eventsDefense, obs, errDefense, beforeDefense, after>>
    PROVE  DefenseObserved'
BY DEF DefenseObserved, IsSeq, Defense!Graph

LEMMA ObservedStep == ASSUME DefenseObserved, Defense!Next PROVE DefenseObserved'
<1> DEFINE Late == {"collect", "evaluate", "done", "killed"}
           Told(x) == x # None => IF x.ok THEN Defense!Graph(x.events) = Defense!ExpectedGraph ELSE x.alerts # {}
<1>0. IsSeq(eventsDefense) /\ (pcDefense \notin Late => obs = None) /\ Told(obs)
  BY DEF DefenseObserved
<1>1. CASE Defense!GitRevision \/ Defense!GitStatus \/ Defense!RunCommand \/ Defense!ResetWorkspace
  <2>1. IsSeq(eventsDefense)'
    <3>1. CASE Defense!GitRevision \/ Defense!GitStatus
      BY <1>0, <3>1, Recorded DEF Defense!GitRevision, Defense!GitStatus
    <3>2. CASE Defense!RunCommand
      BY <1>0, <3>2, Recorded DEF Defense!RunCommand
    <3>3. CASE UNCHANGED eventsDefense
      BY <1>0, <3>3 DEF IsSeq
    <3>4. CASE Defense!ResetWorkspace /\ ~UNCHANGED eventsDefense
      BY <1>0, <3>4, Recorded DEF Defense!ResetWorkspace
    <3> QED  BY <1>1, <3>1, <3>2, <3>3, <3>4
  <2>2. pcDefense \notin Late /\ pcDefense' \notin Late /\ UNCHANGED obs
    BY <1>1 DEF Defense!GitRevision, Defense!GitStatus, Defense!RunCommand, Defense!ResetWorkspace
  <2> QED  BY <1>0, <2>1, <2>2 DEF DefenseObserved
<1>2. CASE \/ Defense!CreateRunDirectory \/ Defense!BodyDone \/ Defense!ReadLifecycleProjection
           \/ Defense!CleanupDone \/ Defense!WriteDefenseReport
  <2>1. pcDefense \notin Late /\ pcDefense' \notin Late /\ UNCHANGED <<eventsDefense, obs>>
    BY <1>2 DEF Defense!CreateRunDirectory, Defense!BodyDone, Defense!ReadLifecycleProjection,
                Defense!CleanupDone, Defense!WriteDefenseReport, Defense!run
  <2> QED  BY <1>0, <2>1 DEF DefenseObserved, IsSeq
<1>3. CASE Defense!WriteObservation
  <2>1. /\ pcDefense = "finish" /\ pcDefense' = "collect"
        /\ UNCHANGED <<eventsDefense, errDefense, beforeDefense, after>>
        /\ obs' = obs \/ obs' = Defense!Observation
    BY <1>3 DEF Defense!WriteObservation
  <2>2. obs = None /\ IsSeq(eventsDefense)'
    BY <1>0, <2>1 DEF IsSeq
  <2>3. CASE obs' = obs
    BY <2>1, <2>2, <2>3 DEF DefenseObserved
  <2>4. CASE obs' = Defense!Observation
    <3>1. PICK x : x = Defense!Observation
      OBVIOUS
    <3>2. /\ x.ok => Defense!Graph(x.events) = Defense!ExpectedGraph
          /\ ~x.ok => x.alerts # {}
          /\ errDefense = "cleanup_failed" => "CLEANUP" \in x.alerts
          /\ x.source.stable => /\ errDefense = None /\ beforeDefense.available /\ after.available
                                /\ beforeDefense.sha = after.sha /\ x.source.sha = after.sha
      BY <1>0, <3>1, ObservationFacts
    <3>3. obs' = x
      BY <2>4, <3>1
    <3> QED  BY <2>1, <2>2, <3>2, <3>3 DEF DefenseObserved
  <2> QED  BY <2>1, <2>3, <2>4
<1>4. CASE Defense!CollectWindow /\ pcDefense' = "revision"
  <2>1. eventsDefense' = <<>> /\ obs' = None
    BY <1>4 DEF Defense!CollectWindow, Defense!FreshRun
  <2>2. eventsDefense' \in Seq({})
    BY <2>1
  <2>3. IsSeq(eventsDefense)'
    BY <2>2 DEF IsSeq
  <2> QED  BY <1>4, <2>1, <2>3 DEF DefenseObserved
<1>5. CASE (Defense!CollectWindow \/ Defense!EvaluateWindows \/ Defense!WriteLifecycle \/ Defense!KillWrapper)
           /\ pcDefense' # "revision"
  <2>1. pcDefense' \in {"evaluate", "done", "killed"} /\ UNCHANGED <<eventsDefense, obs>>
    BY <1>5 DEF Defense!CollectWindow, Defense!EvaluateWindows, Defense!WriteLifecycle, Defense!KillWrapper, Defense!run
  <2> QED  BY <1>0, <2>1 DEF DefenseObserved, IsSeq
<1>6. CASE Defense!RecorderClock \/ Defense!RepositoryMoves
  BY <1>6, ObservedFrame DEF Defense!RecorderClock, Defense!RepositoryMoves, Defense!run
<1>7. Defense!EvaluateWindows \/ Defense!WriteLifecycle \/ Defense!KillWrapper => pcDefense' # "revision"
  BY DEF Defense!EvaluateWindows, Defense!WriteLifecycle, Defense!KillWrapper
<1> QED  BY <1>1, <1>2, <1>3, <1>4, <1>5, <1>6, <1>7 DEF Defense!Next

LEMMA CommitsStart == Defense!Init => DefenseCommits
<1> SUFFICES ASSUME Defense!Init PROVE DefenseCommits
  OBVIOUS
<1>1. sources \in Seq({}) /\ Len(sources) = 0 /\ ran = {} /\ git \in [sha : Nat, clean : BOOLEAN]
  BY DEF Defense!Init
<1>2. IsSeq(sources) /\ Collected /\ AllEarlier /\ UpTo(git.sha)
  BY <1>1 DEF IsSeq, Collected, AllEarlier, UpTo
<1>3. ~beforeDefense.available /\ ~after.available
  BY DEF Defense!Init, Defense!Unavailable
<1> QED  BY <1>1, <1>2, <1>3 DEF Defense!Init, DefenseCommits, HasRun, Started, Bound

LEMMA Untouched ==
    ASSUME UNCHANGED <<ran, sources>>
    PROVE  /\ AllEarlier' <=> AllEarlier
           /\ Collected' <=> Collected
           /\ IsSeq(sources)' <=> IsSeq(sources)
           /\ UNCHANGED beforeDefense => (SinceFirst' <=> SinceFirst) /\ (SomeSince' <=> SomeSince)
<1>1. \A c : Earlier(c)' <=> Earlier(c)
  BY DEF Earlier
<1>2. AllEarlier' <=> AllEarlier
  BY <1>1 DEF AllEarlier
<1>3. Collected' <=> Collected
  BY DEF Collected
<1>4. IsSeq(sources)' <=> IsSeq(sources)
  BY DEF IsSeq
<1>5. ASSUME UNCHANGED beforeDefense PROVE (SinceFirst' <=> SinceFirst) /\ (SomeSince' <=> SomeSince)
  <2>1. SinceFirst' <=> SinceFirst
    BY <1>1, <1>5 DEF SinceFirst
  <2>2. SomeSince' <=> SomeSince
    BY <1>5 DEF SomeSince
  <2> QED  BY <2>1, <2>2
<1> QED  BY <1>2, <1>3, <1>4, <1>5

LEMMA CommitsFrame ==
    ASSUME DefenseCommits,
           UNCHANGED <<git, pcDefense, i, rev, beforeDefense, after, errDefense, sources, ran, slo>>
    PROVE  DefenseCommits'
BY Untouched DEF DefenseCommits, HasRun, UpTo

LEMMA CommitsRevision == ASSUME DefenseCommits, Defense!GitRevision PROVE DefenseCommits'
<1>1. /\ UNCHANGED <<git, i, beforeDefense, after, errDefense, sources, ran, slo>>
      /\ \/ pcDefense = "revision" /\ pcDefense' \in {"mkdir", "status"}
         \/ pcDefense = "revisionAfter" /\ pcDefense' \in {"write", "statusAfter"}
      /\ rev' # None => rev' = git.sha
  BY DEF Defense!GitRevision
<1>2. CASE pcDefense = "revision"
  BY <1>1, <1>2, Untouched DEF DefenseCommits, HasRun, UpTo, Started, Bound
<1>3. CASE pcDefense = "revisionAfter"
  BY <1>1, <1>3, Untouched DEF DefenseCommits, HasRun, UpTo, Started, Bound
<1> QED  BY <1>1, <1>2, <1>3

LEMMA CommitsStatus == ASSUME DefenseCommits, Defense!GitStatus PROVE DefenseCommits'
<1>1. UNCHANGED <<git, i, rev, errDefense, sources, ran, slo>>
  BY DEF Defense!GitStatus
<1>2. PICK b : /\ b.available => rev # None /\ b.sha = rev
               /\ \/ pcDefense = "status" /\ beforeDefense' = b /\ pcDefense' = "mkdir" /\ UNCHANGED after
                  \/ pcDefense = "statusAfter" /\ after' = b /\ pcDefense' = "write" /\ UNCHANGED beforeDefense
  <2>1. PICK o : \E b : /\ b = IF o = "ok" /\ rev # None
                               THEN [available |-> TRUE, sha |-> rev, clean |-> git.clean] ELSE Defense!Unavailable
                        /\ \/ pcDefense = "status" /\ beforeDefense' = b /\ pcDefense' = "mkdir" /\ UNCHANGED after
                           \/ pcDefense = "statusAfter" /\ after' = b /\ pcDefense' = "write" /\ UNCHANGED beforeDefense
    BY Zenon DEF Defense!GitStatus
  <2>2. PICK b : /\ b = IF o = "ok" /\ rev # None
                        THEN [available |-> TRUE, sha |-> rev, clean |-> git.clean] ELSE Defense!Unavailable
                 /\ \/ pcDefense = "status" /\ beforeDefense' = b /\ pcDefense' = "mkdir" /\ UNCHANGED after
                    \/ pcDefense = "statusAfter" /\ after' = b /\ pcDefense' = "write" /\ UNCHANGED beforeDefense
    BY <2>1
  <2>3. b.available => rev # None /\ b.sha = rev
    BY <2>2 DEF Defense!Unavailable
  <2> QED  BY <2>2, <2>3
<1>3. CASE pcDefense = "status"
  <2>1. AllEarlier => SinceFirst'
    BY <1>1 DEF AllEarlier, SinceFirst, Earlier
  <2>2. AllEarlier
    BY <1>3 DEF DefenseCommits, Started
  <2> QED  BY <1>1, <1>2, <1>3, <2>1, <2>2, Untouched DEF DefenseCommits, HasRun, UpTo, Started, Bound
<1>4. CASE pcDefense = "statusAfter"
  BY <1>1, <1>2, <1>4, Untouched DEF DefenseCommits, HasRun, UpTo, Started, Bound
<1> QED  BY <1>2, <1>3, <1>4

LEMMA CommitsMoves ==
    ASSUME DefenseSpaces, DefenseCommits,
           Defense!CreateRunDirectory \/ Defense!BodyDone \/ Defense!ResetWorkspace \/ Defense!CleanupDone
    PROVE  DefenseCommits'
<1>1. UNCHANGED <<git, rev, beforeDefense, after, sources, ran, slo>>
  BY DEF Defense!CreateRunDirectory, Defense!BodyDone, Defense!ResetWorkspace, Defense!CleanupDone, Defense!run
<1>2. CASE Defense!CreateRunDirectory
  <2>1. /\ pcDefense = "mkdir" /\ i' = 1
        /\ pcDefense' = "body" \/ (pcDefense' = "finish" /\ errDefense' = "report_write_failed")
    BY <1>2 DEF Defense!CreateRunDirectory
  <2>2. "report_write_failed" # None
    BY DefenseNone DEF Defense!Codes
  <2> QED  BY <1>1, <2>1, <2>2, Untouched DEF DefenseCommits, HasRun, UpTo, Started, Bound
<1>3. CASE Defense!BodyDone
  <2>1. pcDefense = "body" /\ i = 16 /\ pcDefense' \in {"project", "cleanup"} /\ UNCHANGED errDefense
    BY <1>3, BodyFacts DEF Defense!BodyDone, Defense!run, DefenseSpaces
  <2>2. HasRun
    BY <2>1 DEF HasRun
  <2> QED  BY <1>1, <2>1, <2>2, Untouched DEF DefenseCommits, HasRun, UpTo, Started, Bound
<1>4. CASE Defense!ResetWorkspace
  <2>1. pcDefense = "cleanup" /\ UNCHANGED <<pcDefense, errDefense>>
    BY <1>4 DEF Defense!ResetWorkspace
  <2> QED  BY <1>1, <2>1, Untouched DEF DefenseCommits, HasRun, UpTo, Started, Bound
<1>5. CASE Defense!CleanupDone
  <2>1. /\ pcDefense = "cleanup"
        /\ errDefense' = None => errDefense = None
        /\ pcDefense' = IF errDefense' = None THEN "revisionAfter" ELSE "finish"
    BY <1>5, DefenseNone DEF Defense!CleanupDone, Defense!AfterCleanup, Defense!Codes
  <2>2. CASE errDefense' = None
    BY <1>1, <2>1, <2>2, Untouched DEF DefenseCommits, HasRun, UpTo, Started, Bound
  <2>3. CASE errDefense' # None
    BY <1>1, <2>1, <2>3, Untouched DEF DefenseCommits, HasRun, UpTo, Started, Bound
  <2> QED  BY <2>2, <2>3
<1> QED  BY <1>2, <1>3, <1>4, <1>5

\* A child runs on the commit that is checked out then.
LEMMA CommitsRun ==
    ASSUME DefenseCommits, Defense!RunCommand \/ Defense!ReadLifecycleProjection PROVE DefenseCommits'
<1>1. /\ UNCHANGED <<git, rev, beforeDefense, after, sources, slo>> /\ ran' = ran \cup {git.sha}
      /\ \/ pcDefense = "body" /\ pcDefense' = "body"
         \/ pcDefense = "body" /\ pcDefense' = "cleanup" /\ errDefense' # None
         \/ pcDefense = "project" /\ pcDefense' \in {"project", "cleanup"}
  BY DEF Defense!RunCommand, Defense!ReadLifecycleProjection
<1>2. git.sha \in Nat /\ ran \subseteq Nat /\ UpTo(git.sha) /\ Collected /\ IsSeq(sources)
  BY DEF DefenseCommits
<1>3. ran' \subseteq Nat /\ UpTo(git.sha)' /\ Collected' /\ IsSeq(sources)'
  <2>1. UpTo(git.sha)'
    BY <1>1, <1>2 DEF UpTo
  <2>2. Collected'
    BY <1>1, <1>2 DEF Collected
  <2> QED  BY <1>1, <1>2, <2>1, <2>2 DEF IsSeq
<1>4. beforeDefense.available => beforeDefense.sha \in Nat /\ beforeDefense.sha <= git.sha /\ SinceFirst
  BY <1>1 DEF DefenseCommits, Bound
<1>5. beforeDefense.available => SinceFirst' /\ SomeSince'
  <2>1. beforeDefense.available => SinceFirst'
    BY <1>1, <1>4 DEF SinceFirst, Earlier
  <2>2. beforeDefense.available => SomeSince'
    BY <1>1, <1>4 DEF SomeSince
  <2> QED  BY <2>1, <2>2
<1> QED  BY <1>1, <1>2, <1>3, <1>4, <1>5 DEF DefenseCommits, Started, Bound

LEMMA CommitsWrite ==
    ASSUME DefenseCommits,
           \/ Defense!WriteDefenseReport \/ Defense!WriteObservation
           \/ Defense!WriteLifecycle \/ Defense!KillWrapper
    PROVE  DefenseCommits'
<1>1. /\ UNCHANGED <<git, rev, beforeDefense, after, sources, ran, slo>>
      /\ \/ pcDefense = "write" /\ pcDefense' = "finish"
         \/ pcDefense = "finish" /\ pcDefense' = "collect" /\ UNCHANGED errDefense
         \/ pcDefense # "done" /\ pcDefense' \in {"done", "killed"}
  BY DEF Defense!WriteDefenseReport, Defense!WriteObservation, Defense!WriteLifecycle, Defense!KillWrapper, Defense!run
<1>2. CASE pcDefense = "write" /\ pcDefense' = "finish"
  BY <1>1, <1>2, Untouched DEF DefenseCommits, HasRun, UpTo, Started, Bound
<1>3. CASE pcDefense = "finish" /\ pcDefense' = "collect" /\ UNCHANGED errDefense
  BY <1>1, <1>3, Untouched DEF DefenseCommits, HasRun, UpTo, Started, Bound
<1>4. CASE pcDefense # "done" /\ pcDefense' \in {"done", "killed"}
  BY <1>1, <1>4, Untouched DEF DefenseCommits, HasRun, UpTo, Started, Bound
<1> QED  BY <1>1, <1>2, <1>3, <1>4

LEMMA CommitsRepository == ASSUME DefenseCommits, Defense!RepositoryMoves PROVE DefenseCommits'
<1>1. UNCHANGED <<pcDefense, i, rev, beforeDefense, after, errDefense, sources, ran, slo>>
  BY DEF Defense!RepositoryMoves, Defense!run
<1>2. git' \in [sha : Nat, clean : BOOLEAN] /\ git.sha \in Nat /\ git'.sha \in {git.sha, git.sha + 1}
  <2>1. git \in [sha : Nat, clean : BOOLEAN]
    BY DEF DefenseCommits
  <2>2. PICK g \in [sha : Nat, clean : BOOLEAN] : g = git
    BY <2>1
  <2>3. PICK n \in Nat : n = g.sha + 1
    BY <2>2
  <2>4. [sha |-> n, clean |-> g.clean] \in [sha : Nat, clean : BOOLEAN] /\ [sha |-> n, clean |-> g.clean].sha = n
    BY <2>2, <2>3
  <2>5. [g EXCEPT !.clean = FALSE] \in [sha : Nat, clean : BOOLEAN] /\ [g EXCEPT !.clean = FALSE].sha = g.sha
    BY <2>2
  <2>6. git' = [sha |-> n, clean |-> g.clean] \/ git' = [g EXCEPT !.clean = FALSE]
    BY <2>2, <2>3 DEF Defense!RepositoryMoves
  <2>7. git.sha = g.sha /\ g.sha \in Nat
    BY <2>2
  <2>8. CASE git' = [sha |-> n, clean |-> g.clean]
    BY <2>3, <2>4, <2>7, <2>8
  <2>9. CASE git' = [g EXCEPT !.clean = FALSE]
    BY <2>5, <2>7, <2>9
  <2> QED  BY <2>6, <2>8, <2>9
<1>3. UpTo(git.sha)'
  <2>1. \A c \in ran : c <= git.sha /\ c \in Nat
    BY DEF DefenseCommits, UpTo
  <2> QED  BY <1>1, <1>2, <2>1 DEF UpTo
<1>4. \A n \in Nat : n <= git.sha => n <= git'.sha
  BY <1>2
<1> QED  BY <1>1, <1>2, <1>3, <1>4, Untouched DEF DefenseCommits, HasRun, UpTo, Started, Bound

LEMMA CommitsCollect ==
    ASSUME DefenseObserved, DefenseCommits, Defense!CollectWindow PROVE DefenseCommits'
<1>1. pcDefense = "collect" /\ UNCHANGED <<git, ran>>
  BY DEF Defense!CollectWindow
<1>2. slo \notin {"OK", "BREACH"}
  BY <1>1 DEF DefenseCommits
<1>3. CASE Defense!Refusal # None
  <2>1. pcDefense' = "done" /\ UNCHANGED sources /\ slo' = Defense!Refusal
    BY <1>3 DEF Defense!CollectWindow
  <2>2. slo' \notin {"OK", "BREACH"}
    BY <1>3, <2>1 DEF Defense!Refusal
  <2> QED  BY <1>1, <2>1, <2>2, Untouched DEF DefenseCommits, HasRun, UpTo, Started, Bound
<1>4. CASE Defense!Refusal = None
  <2>1. /\ sources' = Append(sources, obs.source) /\ UNCHANGED slo
        /\ pcDefense' = "evaluate" \/ (pcDefense' = "revision" /\ Defense!FreshRun)
    BY <1>4 DEF Defense!CollectWindow
  <2>2. obs # None /\ obs.source.stable
    BY <1>4, DefenseNone DEF Defense!Refusal, Defense!ValidSource, Defense!ChildReport, Defense!Codes
  <2>3. /\ errDefense = None /\ beforeDefense.available /\ after.available
        /\ beforeDefense.sha = after.sha /\ obs.source.sha = after.sha
    BY <1>1, <2>2 DEF DefenseObserved
  <2>4. PICK x \in Nat : x = obs.source.sha
    BY <1>1, <2>3 DEF DefenseCommits, Bound
  <2>5. x \in ran /\ (\A c \in ran : Earlier(c) \/ c = x)
    <3>1. /\ \A c \in ran : c <= x
          /\ \A c \in ran : Earlier(c) \/ x <= c
          /\ \E c \in ran : x <= c
      BY <1>1, <2>3, <2>4 DEF DefenseCommits, HasRun, Bound, UpTo, SinceFirst, SomeSince
    <3>2. ran \subseteq Nat
      BY DEF DefenseCommits
    <3> QED  BY <3>1, <3>2
  <2>6. PICK n \in Nat : n = Len(sources)
    BY DEF DefenseCommits, IsSeq
  <2>7. /\ IsSeq(sources)' /\ Len(sources)' = n + 1
        /\ sources'[n + 1] = obs.source /\ \A m \in 1..n : sources'[m] = sources[m]
    <3>1. PICK S : sources \in Seq(S)
      BY DEF DefenseCommits, IsSeq
    <3>2. PICK e : e = obs.source
      OBVIOUS
    <3>3. \A s \in Seq(S) : /\ Append(s, e) \in Seq(S \cup {e}) /\ Len(Append(s, e)) = Len(s) + 1
                            /\ Append(s, e)[Len(s) + 1] = e /\ \A m \in 1..Len(s) : Append(s, e)[m] = s[m]
      OBVIOUS
    <3>4. /\ sources' \in Seq(S \cup {e}) /\ Len(sources') = Len(sources) + 1
          /\ sources'[Len(sources) + 1] = e /\ \A m \in 1..Len(sources) : sources'[m] = sources[m]
      BY <2>1, <3>1, <3>2, <3>3, Zenon
    <3> QED  BY <2>6, <3>2, <3>4 DEF IsSeq
  <2>8. \A c : Earlier(c)' <=> Earlier(c) \/ c = x
    <3>1. \A c : Earlier(c) <=> \E m \in 1..n : sources[m].sha = c
      BY <2>6 DEF Earlier
    <3>2. \A c : Earlier(c)' <=> \E m \in 1..(n + 1) : sources'[m].sha = c
      BY <2>7 DEF Earlier
    <3>3. \A m : m \in 1..(n + 1) <=> (m \in 1..n \/ m = n + 1)
      BY <2>6
    <3> QED  BY <2>4, <2>7, <3>1, <3>2, <3>3
  <2>9. AllEarlier'
    BY <1>1, <2>5, <2>8 DEF AllEarlier
  <2>10. Collected'
    <3>1. \A m \in 1..n : sources[m].sha \in ran
      BY <2>6 DEF DefenseCommits, Collected
    <3>2. \A m \in 1..(n + 1) : sources'[m].sha \in ran
      BY <2>4, <2>5, <2>6, <2>7, <3>1
    <3> QED  BY <1>1, <2>7, <3>2 DEF Collected
  <2>11. Len(sources)' >= 1
    BY <2>6, <2>7
  <2>12. UpTo(git.sha)' /\ git' \in [sha : Nat, clean : BOOLEAN] /\ ran' \subseteq Nat
    BY <1>1 DEF DefenseCommits, UpTo
  <2>13. pcDefense' = "revision" => ~beforeDefense'.available /\ ~after'.available
    BY <2>1 DEF Defense!FreshRun, Defense!Unavailable
  <2> QED  BY <1>2, <2>1, <2>7, <2>9, <2>10, <2>11, <2>12, <2>13 DEF DefenseCommits, HasRun, Started, Bound
<1> QED  BY <1>3, <1>4

LEMMA CommitsEvaluate == ASSUME DefenseCommits, Defense!EvaluateWindows PROVE DefenseCommits'
<1>1. /\ pcDefense = "evaluate" /\ pcDefense' = "done" /\ UNCHANGED <<git, ran, sources>>
      /\ slo' \in {"OK", "BREACH"} => Defense!OneSource
  BY DEF Defense!EvaluateWindows
<1>2. AllEarlier /\ Collected /\ Len(sources) >= 1 /\ IsSeq(sources)
  BY <1>1 DEF DefenseCommits
<1>3. Defense!OneSource => ran = {sources[1].sha}
  <2> SUFFICES ASSUME Defense!OneSource PROVE ran = {sources[1].sha}
    OBVIOUS
  <2>1. PICK n \in Nat : n = Len(sources) /\ DOMAIN sources = 1..n
    BY <1>2 DEF IsSeq
  <2>2. \A m \in 1..n : sources[m] = sources[1]
    BY <2>1 DEF Defense!OneSource
  <2>3. \A c \in ran : c = sources[1].sha
    BY <1>2, <2>1, <2>2 DEF AllEarlier, Earlier
  <2>4. sources[1].sha \in ran
    BY <1>2, <2>1 DEF Collected
  <2> QED  BY <2>3, <2>4
<1> QED  BY <1>1, <1>3, Untouched DEF DefenseCommits, HasRun, UpTo, Started, Bound

LEMMA CommitsStep == ASSUME DefenseSpaces, DefenseObserved, DefenseCommits, Defense!Next PROVE DefenseCommits'
<1>1. CASE Defense!RecorderClock
  BY <1>1, CommitsFrame DEF Defense!RecorderClock
<1> QED  BY <1>1, CommitsRevision, CommitsStatus, CommitsMoves, CommitsRun, CommitsWrite,
            CommitsRepository, CommitsCollect, CommitsEvaluate DEF Defense!Next

LEMMA DefenseStart == Defense!Init => DefenseInv
BY SpacesStart, ObservedStart, CommitsStart DEF DefenseInv

LEMMA DefenseFrame == ASSUME DefenseInv, UNCHANGED defenseVars PROVE DefenseInv'
BY SpacesFrame, ObservedFrame, CommitsFrame DEF DefenseInv, defenseVars

LEMMA DefenseStep == ASSUME DefenseInv, Defense!Next PROVE DefenseInv'
BY SpacesStep, ObservedStep, CommitsStep DEF DefenseInv

LEMMA DefenseFacts ==
    ASSUME DefenseInv
    PROVE  /\ Defense!ReportMeansCleanAndOnce /\ Defense!FailedRunRaisesAlert
           /\ Defense!SloIsOneCommit /\ Defense!LeftoverIsReported
<1>1. Defense!ReportMeansCleanAndOnce
  BY DefenseSides DEF DefenseInv, DefenseSpaces, Defense!ReportMeansCleanAndOnce, Defense!Remains, Both, Sides
<1>2. Defense!FailedRunRaisesAlert
  BY DEF DefenseInv, DefenseObserved, Defense!FailedRunRaisesAlert
<1>3. Defense!SloIsOneCommit
  BY DEF DefenseInv, DefenseCommits, Defense!SloIsOneCommit
<1>4. Defense!LeftoverIsReported
  BY DefenseSides DEF DefenseInv, DefenseSpaces, DefenseObserved, Defense!LeftoverIsReported, Defense!Remains
<1> QED  BY <1>1, <1>2, <1>3, <1>4

----------------------------------------------------------------------------
(* The runtime trace *)

TraceTypes ==
    /\ eventsTrace \in Seq(Nat) /\ file \in Seq(Nat) /\ outsideTrace \in Nat
    /\ workTrace \in [root : {"none", "own", "foreign"}, files : SUBSET {"own", "late", "foreign"}]
    /\ workTrace.root = "none" => workTrace.files = {}

\* From the end of the server on nothing is emitted; once the collector is
\* closed, the file is the recorded one as long as its length is.
TraceEnd ==
    /\ pcTrace \in {"close", "capture", "remove", "validate", "report"} => thread = "dead" /\ ~reported
    /\ pcTrace \in {"capture", "remove", "validate", "report"} =>
           /\ stamp = Len(eventsTrace)
           /\ Len(file) >= stamp
           /\ Len(file) = stamp => file = eventsTrace
    /\ pcTrace = "report" => eventsTrace = Trace!Expected
    /\ pcTrace \in {"validate", "report"} => workTrace.root # "own"
    /\ pcTrace = "done" /\ workTrace.root = "own" => errTrace = "cleanup_failed"
    /\ reported => /\ pcTrace = "done" /\ thread = "dead" /\ workTrace.root # "own"
                   /\ eventsTrace = Trace!Expected /\ file = Trace!Expected

TraceInv == TraceTypes /\ TraceEnd

LEMMA TraceStart == Trace!Init => TraceInv
<1> SUFFICES ASSUME Trace!Init PROVE TraceInv
  OBVIOUS
<1>1. workTrace = Trace!NoWork /\ workTrace.root = "none" /\ workTrace.files = {}
  BY DEF Trace!Init, Trace!NoWork
<1>2. workTrace \in [root : {"none", "own", "foreign"}, files : SUBSET {"own", "late", "foreign"}]
  BY <1>1 DEF Trace!NoWork
<1> QED  BY <1>1, <1>2 DEF TraceInv, TraceTypes, TraceEnd, Trace!Init

LEMMA TraceFrame == ASSUME TraceInv, UNCHANGED traceVars PROVE TraceInv'
BY DEF TraceInv, TraceTypes, TraceEnd, traceVars

\* What an emission does to the collector and to its file.
LEMMA TraceEmission ==
    ASSUME TraceTypes, NEW e \in Nat, Trace!Emit(e)
    PROVE  eventsTrace' \in Seq(Nat) /\ file' \in Seq(Nat)
<1>1. PICK o \in {"ok", "lost", "torn"} : Trace!Record(e, o)
  BY DEF Trace!Emit, Trace!Outcomes
<1>2. \/ UNCHANGED <<eventsTrace, file>>
      \/ file' = Append(file, 0) /\ UNCHANGED eventsTrace
      \/ eventsTrace' = Append(eventsTrace, e) /\ file' = Append(file, e)
  BY <1>1 DEF Trace!Record, Trace!TornLine
<1>3. eventsTrace \in Seq(Nat) /\ file \in Seq(Nat) /\ 0 \in Nat
  BY DEF TraceTypes
<1>4. Append(file, 0) \in Seq(Nat) /\ Append(file, e) \in Seq(Nat) /\ Append(eventsTrace, e) \in Seq(Nat)
  BY <1>3
<1> QED  BY <1>2, <1>3, <1>4, Zenon

\* A step that leaves the recorded events, the work tree and the report alone.
LEMMA TraceMoves ==
    ASSUME TraceInv, pcTrace' \notin {"capture", "remove", "validate", "report", "done"},
           pcTrace' = "close" => thread' = "dead",
           pcTrace # "done", eventsTrace' \in Seq(Nat), file' \in Seq(Nat),
           UNCHANGED <<workTrace, reported, outsideTrace>>
    PROVE  TraceInv'
BY DEF TraceInv, TraceTypes, TraceEnd

LEMMA TraceRuns ==
    ASSUME TraceInv,
           \/ Trace!OpenCollector \/ Trace!Serve \/ Trace!Send \/ Trace!Acknowledge \/ Trace!Analyze
           \/ Trace!Result \/ Trace!RequestFails \/ Trace!StopServer
    PROVE  TraceInv'
<1>0. TraceTypes /\ 1 \in Nat /\ 4 \in Nat
  BY DEF TraceInv
<1>1. CASE Trace!OpenCollector \/ Trace!Serve \/ Trace!Analyze \/ Trace!Result \/ Trace!RequestFails
  <2>1. /\ pcTrace' \in {"mkwork", "finally", "send", "asked", "unserve"}
        /\ pcTrace # "done" /\ UNCHANGED <<eventsTrace, file, workTrace, reported, outsideTrace>>
    BY <1>1 DEF Trace!OpenCollector, Trace!Serve, Trace!Analyze, Trace!Result, Trace!RequestFails, Trace!Raise
  <2>2. pcTrace' \notin {"close", "capture", "remove", "validate", "report", "done"}
    BY <2>1
  <2> QED  BY <1>0, <2>1, <2>2, TraceMoves DEF TraceTypes
<1>2. CASE Trace!StopServer
  <2>1. /\ pcTrace' \in {"close", "finally"}
        /\ pcTrace' = "close" => thread' = "dead"
        /\ pcTrace # "done" /\ UNCHANGED <<eventsTrace, file, workTrace, reported, outsideTrace>>
    BY <1>2 DEF Trace!StopServer, Trace!Raise
  <2>2. pcTrace' \notin {"capture", "remove", "validate", "report", "done"}
    BY <2>1
  <2> QED  BY <1>0, <2>1, <2>2, TraceMoves DEF TraceTypes
<1>3. CASE Trace!Send
  BY <1>0, <1>3, TraceEmission, TraceMoves DEF Trace!Send
<1>4. CASE Trace!Acknowledge
  BY <1>0, <1>4, TraceEmission, TraceMoves DEF Trace!Acknowledge
<1> QED  BY <1>1, <1>2, <1>3, <1>4

LEMMA TraceWork == ASSUME TraceInv, Trace!MakeWork PROVE TraceInv'
<1>1. /\ pcTrace = "mkwork" /\ pcTrace' \in {"serve", "finally"}
      /\ workTrace' = workTrace \/ workTrace' = [root |-> "own", files |-> {"own"}]
      /\ UNCHANGED <<thread, request, answered, eventsTrace, file, closed, stamp, capturedTrace, reported, outsideTrace>>
  BY DEF Trace!MakeWork, Trace!Raise, Trace!OwnFiles
<1>2. TraceTypes'
  BY <1>1 DEF TraceInv, TraceTypes
<1>3. TraceEnd'
  BY <1>1 DEF TraceInv, TraceEnd
<1> QED  BY <1>2, <1>3 DEF TraceInv

LEMMA TraceCloses == ASSUME TraceInv, Trace!CloseAndValidate PROVE TraceInv'
<1>1. /\ pcTrace = "close"
      /\ \/ pcTrace' = "capture" /\ file = eventsTrace /\ stamp' = Len(file)
         \/ pcTrace' = "finally"
      /\ UNCHANGED <<thread, eventsTrace, file, workTrace, reported, outsideTrace>>
  BY DEF Trace!CloseAndValidate, Trace!Raise
<1> QED  BY <1>1 DEF TraceInv, TraceTypes, TraceEnd

LEMMA TraceCaptures == ASSUME TraceInv, Trace!Capture PROVE TraceInv'
<1>1. /\ pcTrace \in {"capture", "capture2"}
      /\ \/ workTrace.root = "none" /\ pcTrace' = (IF pcTrace = "capture" THEN "validate" ELSE "done")
         \/ pcTrace' = (IF pcTrace = "capture" THEN "remove" ELSE "remove2")
         \/ pcTrace' = (IF pcTrace = "capture" THEN "finally" ELSE "done") /\ errTrace' = "cleanup_failed"
      /\ UNCHANGED <<thread, eventsTrace, file, stamp, workTrace, reported, outsideTrace>>
  BY DEF Trace!Capture
<1> QED  BY <1>1 DEF TraceInv, TraceTypes, TraceEnd

\* What a removal does to the work tree.
LEMMA TraceRemoval ==
    ASSUME TraceTypes, Trace!Remove
    PROVE  /\ workTrace' \in [root : {"none", "own", "foreign"}, files : SUBSET {"own", "late", "foreign"}]
           /\ workTrace'.root = "none" => workTrace'.files = {}
           /\ workTrace.files \ workTrace'.files \subseteq capturedTrace
           /\ workTrace.root = "foreign" => workTrace' = workTrace
           /\ pcTrace' = "validate" => workTrace'.root = "none"
           /\ workTrace'.root = "own" => errTrace' = "cleanup_failed"
           /\ pcTrace' \in {"validate", "finally", "done"} /\ (pcTrace' = "validate" => pcTrace = "remove")
<1>1. PICK o \in {"ok", "failed"} :
        LET left == IF workTrace.root = "own" /\ o = "ok" THEN workTrace.files \ capturedTrace ELSE workTrace.files
            gone == workTrace.root = "own" /\ o = "ok" /\ left = {}
        IN /\ workTrace' = IF workTrace.root = "none" THEN workTrace ELSE IF gone THEN Trace!NoWork ELSE [workTrace EXCEPT !.files = left]
           /\ pcTrace' = IF pcTrace = "remove" THEN (IF gone THEN "validate" ELSE "finally") ELSE "done"
           /\ errTrace' = IF gone THEN errTrace ELSE "cleanup_failed"
  BY DEF Trace!Remove, Trace!Outcomes, Trace!Doomed
<1> DEFINE left == IF workTrace.root = "own" /\ o = "ok" THEN workTrace.files \ capturedTrace ELSE workTrace.files
           gone == workTrace.root = "own" /\ o = "ok" /\ left = {}
<1>2. CASE workTrace.root = "none"
  BY <1>1, <1>2 DEF TraceTypes
<1>3. CASE gone
  <2>1. workTrace' = Trace!NoWork /\ workTrace.root = "own" /\ workTrace.files \subseteq capturedTrace
    BY <1>1, <1>3
  <2>2. workTrace' \in [root : {"none", "own", "foreign"}, files : SUBSET {"own", "late", "foreign"}]
        /\ workTrace'.root = "none" /\ workTrace'.files = {}
    BY <2>1 DEF Trace!NoWork
  <2> QED  BY <1>1, <1>3, <2>1, <2>2
<1>4. CASE workTrace.root # "none" /\ ~gone
  <2>1. /\ workTrace' = [workTrace EXCEPT !.files = left] /\ left \subseteq workTrace.files
        /\ workTrace.files \ left \subseteq capturedTrace
        /\ workTrace.root = "foreign" => left = workTrace.files
    BY <1>1, <1>4
  <2>2. /\ workTrace' \in [root : {"none", "own", "foreign"}, files : SUBSET {"own", "late", "foreign"}]
        /\ workTrace'.root = workTrace.root /\ workTrace'.files = left
    BY <2>1 DEF TraceTypes
  <2>3. workTrace.root = "foreign" => workTrace' = workTrace
    BY <2>1 DEF TraceTypes
  <2> QED  BY <1>1, <1>4, <2>1, <2>2, <2>3
<1> QED  BY <1>2, <1>3, <1>4

LEMMA TraceRemoves == ASSUME TraceInv, Trace!Remove PROVE TraceInv'
<1>1. /\ pcTrace \in {"remove", "remove2"}
      /\ UNCHANGED <<thread, eventsTrace, file, stamp, reported, outsideTrace>>
  BY DEF Trace!Remove
<1>2. TraceTypes
  BY DEF TraceInv
<1> QED  BY <1>1, <1>2, TraceRemoval DEF TraceInv, TraceTypes, TraceEnd

LEMMA TraceReports == ASSUME TraceInv, Trace!Validate \/ Trace!WriteReport \/ Trace!Finally PROVE TraceInv'
<1>1. CASE Trace!Validate
  <2>1. /\ pcTrace = "validate"
        /\ \/ pcTrace' = "report" /\ eventsTrace = Trace!Expected
           \/ pcTrace' = "finally"
        /\ UNCHANGED <<thread, eventsTrace, file, stamp, workTrace, reported, outsideTrace>>
    BY <1>1 DEF Trace!Validate, Trace!Raise
  <2> QED  BY <2>1 DEF TraceInv, TraceTypes, TraceEnd
<1>2. CASE Trace!WriteReport
  <2>1. /\ pcTrace = "report"
        /\ \/ pcTrace' = "done" /\ Len(file) = stamp
           \/ pcTrace' = "finally" /\ reported' = reported
        /\ UNCHANGED <<thread, eventsTrace, file, stamp, workTrace, outsideTrace>>
    BY <1>2 DEF Trace!WriteReport, Trace!Raise, Trace!RawUnchanged
  <2> QED  BY <2>1 DEF TraceInv, TraceTypes, TraceEnd
<1>3. CASE Trace!Finally
  <2>1. /\ pcTrace = "finally"
        /\ \/ pcTrace' = "done" /\ workTrace.root = "none"
           \/ pcTrace' = "capture2"
        /\ UNCHANGED <<thread, eventsTrace, file, stamp, workTrace, reported, outsideTrace>>
    BY <1>3 DEF Trace!Finally
  <2> QED  BY <2>1 DEF TraceInv, TraceTypes, TraceEnd
<1> QED  BY <1>1, <1>2, <1>3

LEMMA TraceOthers == ASSUME TraceInv, Trace!ServerEmits \/ Trace!ServerWrites \/ Trace!Outside PROVE TraceInv'
<1>0. TraceTypes
  BY DEF TraceInv
<1>1. CASE Trace!ServerEmits
  <2>1. /\ thread = "up" /\ request \in Nat /\ Trace!Emit(request)
        /\ UNCHANGED <<pcTrace, thread, stamp, workTrace, errTrace, reported, outsideTrace>>
    BY <1>1 DEF Trace!ServerEmits
  <2>2. eventsTrace' \in Seq(Nat) /\ file' \in Seq(Nat)
    BY <1>0, <2>1, TraceEmission
  <2> QED  BY <2>1, <2>2 DEF TraceInv, TraceTypes, TraceEnd
<1>2. CASE Trace!ServerWrites
  <2>1. /\ thread = "up" /\ workTrace.root = "own" /\ pcTrace \in {"finally", "capture2", "remove2"}
        /\ workTrace' = [workTrace EXCEPT !.files = workTrace.files \cup {"late"}]
        /\ UNCHANGED <<pcTrace, thread, eventsTrace, file, stamp, errTrace, reported, outsideTrace>>
    BY <1>2 DEF Trace!ServerWrites
  <2>2. /\ workTrace' \in [root : {"none", "own", "foreign"}, files : SUBSET {"own", "late", "foreign"}]
        /\ workTrace'.root = "own"
    BY <1>0, <2>1 DEF TraceTypes
  <2> QED  BY <2>1, <2>2 DEF TraceInv, TraceTypes, TraceEnd
<1>3. CASE Trace!Outside
  <2>1. /\ pcTrace # "done" /\ outsideTrace' = outsideTrace + 1
        /\ UNCHANGED <<pcTrace, thread, eventsTrace, stamp, errTrace, reported>>
    BY <1>3 DEF Trace!Outside
  <2>2. /\ workTrace' \in [root : {"none", "own", "foreign"}, files : SUBSET {"own", "late", "foreign"}]
        /\ workTrace'.root = "none" => workTrace'.files = {}
        /\ workTrace'.root = "own" => workTrace.root = "own"
        /\ file' = file \/ file' = Append(file, 7)
    <3>1. CASE workTrace' = [root |-> "foreign", files |-> {"foreign"}] /\ UNCHANGED file
      BY <3>1
    <3>2. CASE workTrace.root = "own" /\ workTrace' = [workTrace EXCEPT !.files = workTrace.files \cup {"foreign"}] /\ UNCHANGED file
      BY <1>0, <3>2 DEF TraceTypes
    <3>3. CASE file' = Append(file, 7) /\ UNCHANGED workTrace
      BY <1>0, <3>3 DEF TraceTypes
    <3> QED  BY <1>3, <3>1, <3>2, <3>3 DEF Trace!Outside, Trace!ForeignLine
  <2>3. /\ file' \in Seq(Nat)
        /\ stamp = Len(eventsTrace) /\ Len(file) >= stamp /\ (Len(file) = stamp => file = eventsTrace) =>
             Len(file') >= stamp /\ (Len(file') = stamp => file' = eventsTrace)
    <3>1. file' \in Seq(Nat) /\ Len(file) \in Nat /\ Len(eventsTrace) \in Nat /\ (file' = file \/ Len(file') = Len(file) + 1)
      <4>1. eventsTrace \in Seq(Nat) /\ file \in Seq(Nat) /\ 7 \in Nat
        BY <1>0 DEF TraceTypes
      <4>2. Append(file, 7) \in Seq(Nat) /\ Len(Append(file, 7)) = Len(file) + 1 /\ Len(file) \in Nat /\ Len(eventsTrace) \in Nat
        BY <4>1
      <4> QED  BY <2>2, <4>1, <4>2, Zenon
    <3> QED  BY <3>1
  <2> QED  BY <2>1, <2>2, <2>3 DEF TraceInv, TraceTypes, TraceEnd
<1> QED  BY <1>1, <1>2, <1>3

LEMMA TraceStep == ASSUME TraceInv, Trace!Next PROVE TraceInv'
BY TraceRuns, TraceWork, TraceCloses, TraceCaptures, TraceRemoves, TraceReports, TraceOthers DEF Trace!Next

LEMMA TraceFacts == ASSUME TraceInv PROVE Trace!ReportIsTheRun /\ Trace!LeftoverIsCleanupFailed
BY DEF TraceInv, TraceEnd, Trace!ReportIsTheRun, Trace!LeftoverIsCleanupFailed

\* Nothing but a removal takes a file away.
LEMMA TraceKeeps == ASSUME TraceInv, Trace!Next \/ UNCHANGED traceVars PROVE Trace!OnlyCapturedRemoved
<1> SUFFICES ASSUME outsideTrace' = outsideTrace
             PROVE  /\ workTrace.files \ workTrace'.files \subseteq capturedTrace
                    /\ workTrace.root = "foreign" => workTrace' = workTrace
  BY DEF Trace!OnlyCapturedRemoved
<1>0. TraceTypes
  BY DEF TraceInv
<1>1. CASE workTrace' = workTrace
  BY <1>1
<1>2. CASE Trace!MakeWork
  BY <1>0, <1>2 DEF Trace!MakeWork, TraceTypes
<1>3. CASE Trace!Remove
  BY <1>0, <1>3, TraceRemoval
<1>4. CASE Trace!ServerWrites
  <2>1. workTrace.root = "own" /\ workTrace' = [workTrace EXCEPT !.files = workTrace.files \cup {"late"}]
    BY <1>4 DEF Trace!ServerWrites
  <2> QED  BY <1>0, <2>1 DEF TraceTypes
<1>5. ~Trace!Outside
  BY <1>0 DEF Trace!Outside, TraceTypes
<1>6. \/ UNCHANGED workTrace \/ Trace!MakeWork \/ Trace!Remove \/ Trace!ServerWrites
  BY <1>5 DEF Trace!Next, Trace!OpenCollector, Trace!Serve, Trace!Send, Trace!Acknowledge, Trace!Analyze,
              Trace!Result, Trace!RequestFails, Trace!StopServer, Trace!CloseAndValidate, Trace!Capture,
              Trace!Validate, Trace!WriteReport, Trace!Finally, Trace!ServerEmits, traceVars
<1> QED  BY <1>1, <1>2, <1>3, <1>4, <1>6

----------------------------------------------------------------------------
(* The BubbleRAN defence *)

Statuses == {None, "DETECTED", "RESOLVED"} \cup {BubbleRan!Terminal[b] : b \in BubbleRan!Branches}
Cases == [status : Statuses, runs : Nat, links : Nat]
Trees == [root : {"none", "own", "foreign"}, files : SUBSET {"own", "foreign"}]

BubbleTypes ==
    /\ cases \in [BubbleRan!Branches -> Cases] /\ outsideBubbleRan \in Nat
    /\ workBubbleRan \in Trees
    /\ workBubbleRan.root = "none" => workBubbleRan.files = {}

\* Every case is as the governance left it, with its one association.
AsClaimed ==
    /\ BubbleRan!GovernedAsExpected(cases) /\ cases = governed
    /\ \A b \in BubbleRan!Branches : cases[b].links = 1

\* The exits after a scenario that succeeded.
Succeeded == {"OK", "cleanup_failed", "report_write_failed"}

BubblePlaces ==
    /\ pcBubbleRan # "done" => exit = None
    /\ pcBubbleRan \in {"govern", "bypass", "capture", "remove", "write"} \/ exit \in Succeeded =>
           checkpoint = BubbleRan!Cardinality(BubbleRan!Branches)
    /\ pcBubbleRan = "bypass" =>
           /\ BubbleRan!GovernedAsExpected(cases) /\ cases = governed
           /\ beforeBubbleRan = BubbleRan!Counts(cases)
    /\ pcBubbleRan \in {"capture", "remove", "write"} \/ exit \in Succeeded => AsClaimed
    /\ pcBubbleRan = "write" \/ exit = "OK" => workBubbleRan.root # "own"

BubbleInv == BubbleTypes /\ BubblePlaces

LEMMA BubbleNone == None \notin Succeeded
BY BubbleRanConstants DEF BubbleRan!BubbleRanAssumption, Succeeded

LEMMA BubbleTrees ==
    /\ BubbleRan!NoWork \in Trees /\ BubbleRan!NoWork.root = "none" /\ BubbleRan!NoWork.files = {}
    /\ [root |-> "own", files |-> {"own"}] \in Trees /\ [root |-> "own", files |-> {"own"}].root = "own"
    /\ [root |-> "foreign", files |-> {"foreign"}] \in Trees /\ [root |-> "foreign", files |-> {"foreign"}].root = "foreign"
BY DEF Trees, BubbleRan!NoWork

LEMMA BubbleStart == BubbleRan!Init => BubbleInv
<1> SUFFICES ASSUME BubbleRan!Init PROVE BubbleInv
  OBVIOUS
<1>1. BubbleRan!NoCase \in Cases
  BY DEF BubbleRan!NoCase, Cases, Statuses
<1>2. cases \in [BubbleRan!Branches -> Cases]
  BY <1>1 DEF BubbleRan!Init
<1>3. workBubbleRan = BubbleRan!NoWork
  BY DEF BubbleRan!Init
<1>4. BubbleTypes
  BY <1>2, <1>3, BubbleTrees DEF BubbleRan!Init, BubbleTypes
<1>5. BubblePlaces
  BY BubbleNone DEF BubbleRan!Init, BubblePlaces, Succeeded
<1> QED  BY <1>4, <1>5 DEF BubbleInv

LEMMA BubbleFrame == ASSUME BubbleInv, UNCHANGED bubbleranVars PROVE BubbleInv'
<1>1. BubbleRan!Counts(cases)' = BubbleRan!Counts(cases) /\ (BubbleRan!GovernedAsExpected(cases) <=> BubbleRan!GovernedAsExpected(cases)')
  BY DEF bubbleranVars, BubbleRan!Counts, BubbleRan!GovernedAsExpected
<1> QED  BY <1>1 DEF BubbleInv, BubbleTypes, BubblePlaces, AsClaimed, bubbleranVars

LEMMA BubbleWork == ASSUME BubbleInv, BubbleRan!MakeWork PROVE BubbleInv'
<1>1. /\ pcBubbleRan = "mkwork" /\ exit = None
      /\ \/ pcBubbleRan' = "first" /\ exit' = exit
         \/ pcBubbleRan' = "done" /\ exit' \in {"contract_failed", "command_failed"}
      /\ workBubbleRan' = workBubbleRan \/ workBubbleRan' = [root |-> "own", files |-> {"own"}]
      /\ UNCHANGED <<todo, cases, checkpoint, late, beforeBubbleRan, governed, capturedBubbleRan, outsideBubbleRan>>
  BY DEF BubbleRan!MakeWork, BubbleRan!Fail, BubbleRan!OwnFiles, BubbleInv, BubblePlaces
<1>2. BubbleTypes'
  BY <1>1, BubbleTrees DEF BubbleInv, BubbleTypes
<1>3. BubblePlaces'
  BY <1>1, BubbleNone DEF BubblePlaces, Succeeded
<1> QED  BY <1>2, <1>3 DEF BubbleInv

\* The application keeps the cases well formed.
LEMMA IngestTypes ==
    ASSUME NEW c \in Cases, NEW o PROVE BubbleRan!Ingest(c, o) \in Cases
<1>1. [status |-> "DETECTED", runs |-> 0, links |-> 1] \in Cases
  BY DEF Cases, Statuses
<1>2. c.links \in Nat /\ c.links + 1 \in Nat
  BY DEF Cases
<1>3. [c EXCEPT !.links = c.links + 1] \in Cases
  BY <1>2 DEF Cases
<1> QED  BY <1>1, <1>3 DEF BubbleRan!Ingest

LEMMA GovernTypes ==
    ASSUME BubbleTypes, NEW b \in BubbleRan!Branches, NEW o PROVE BubbleRan!Govern(b, o) \in Cases
<1>1. PICK s, n : /\ BubbleRan!Govern(b, o) = [cases[b] EXCEPT !.status = s, !.runs = n]
                  /\ s \in {"RESOLVED", BubbleRan!Terminal[b]} /\ n \in {0, 1, 2}
  <2>1. PICK s \in {"RESOLVED", BubbleRan!Terminal[b]} :
          s = IF b = "expire" /\ o = "stale" THEN "RESOLVED" ELSE BubbleRan!Terminal[b]
    OBVIOUS
  <2>2. PICK n \in {0, 1, 2} :
          n = IF b = "reject" \/ (b = "expire" /\ o # "stale") THEN 0 ELSE IF o = "twice" THEN 2 ELSE 1
    OBVIOUS
  <2> QED  BY <2>1, <2>2 DEF BubbleRan!Govern
<1>2. s \in Statuses /\ n \in Nat
  BY <1>1 DEF Statuses
<1>3. cases[b] \in Cases
  BY DEF BubbleTypes
<1> QED  BY <1>1, <1>2, <1>3 DEF Cases

LEMMA BubbleReplays == ASSUME BubbleInv, BubbleRan!FirstReplay \/ BubbleRan!ReopenedReplay PROVE BubbleInv'
<1>0. BubbleTypes
  BY DEF BubbleInv
<1>1. CASE BubbleRan!FirstReplay
  <2>1. /\ pcBubbleRan = "first" /\ exit = None
        /\ \/ pcBubbleRan' = "reopen" /\ exit' = exit
           \/ pcBubbleRan' = "done" /\ exit' = "contract_failed"
        /\ UNCHANGED <<workBubbleRan, outsideBubbleRan>>
    BY <1>1 DEF BubbleRan!FirstReplay, BubbleRan!Fail, BubbleInv, BubblePlaces
  <2>2. PICK S \in SUBSET BubbleRan!Branches :
          cases' = [b \in BubbleRan!Branches |-> IF b \in S THEN BubbleRan!Ingest(cases[b], "ok") ELSE cases[b]]
    BY <1>1 DEF BubbleRan!FirstReplay
  <2>3. \A b \in BubbleRan!Branches : cases[b] \in Cases /\ BubbleRan!Ingest(cases[b], "ok") \in Cases
    BY <1>0, IngestTypes DEF BubbleTypes
  <2>4. cases' \in [BubbleRan!Branches -> Cases]
    BY <2>2, <2>3
  <2>5. BubbleTypes'
    BY <1>0, <2>1, <2>4 DEF BubbleTypes
  <2>6. BubblePlaces'
    BY <2>1, BubbleNone DEF BubblePlaces, Succeeded
  <2> QED  BY <2>5, <2>6 DEF BubbleInv
<1>2. CASE BubbleRan!ReopenedReplay
  <2>1. /\ pcBubbleRan = "reopen" /\ exit = None
        /\ \/ pcBubbleRan' = "govern" /\ exit' = exit /\ checkpoint = BubbleRan!Cardinality(BubbleRan!Branches)
           \/ pcBubbleRan' = "done" /\ exit' = "contract_failed"
        /\ UNCHANGED <<cases, checkpoint, workBubbleRan, outsideBubbleRan>>
    BY <1>2 DEF BubbleRan!ReopenedReplay, BubbleRan!Fail, BubbleInv, BubblePlaces
  <2>2. BubbleTypes'
    BY <1>0, <2>1 DEF BubbleTypes
  <2>3. BubblePlaces'
    BY <2>1, BubbleNone DEF BubblePlaces, Succeeded
  <2> QED  BY <2>2, <2>3 DEF BubbleInv
<1> QED  BY <1>1, <1>2

LEMMA BubbleGoverns == ASSUME BubbleInv, NEW b \in BubbleRan!Branches, BubbleRan!GovernBranch(b) PROVE BubbleInv'
<1>0. BubbleTypes
  BY DEF BubbleInv
<1>1. /\ pcBubbleRan = "govern" /\ exit = None
      /\ \/ pcBubbleRan' = pcBubbleRan /\ exit' = exit
         \/ pcBubbleRan' = "done" /\ exit' = "contract_failed"
      /\ UNCHANGED <<checkpoint, workBubbleRan, outsideBubbleRan>>
  BY DEF BubbleRan!GovernBranch, BubbleRan!Fail, BubbleInv, BubblePlaces
<1>2. PICK o : cases' = cases \/ cases' = [cases EXCEPT ![b] = BubbleRan!Govern(b, o)]
  BY DEF BubbleRan!GovernBranch
<1>3. BubbleRan!Govern(b, o) \in Cases
  BY <1>0, GovernTypes
<1>4. BubbleTypes'
  BY <1>0, <1>1, <1>2, <1>3 DEF BubbleTypes
<1>5. BubblePlaces'
  BY <1>1, BubbleNone DEF BubbleInv, BubblePlaces, Succeeded
<1> QED  BY <1>4, <1>5 DEF BubbleInv

LEMMA BubbleReads == ASSUME BubbleInv, BubbleRan!ReadGoverned PROVE BubbleInv'
<1>1. /\ pcBubbleRan = "govern" /\ exit = None
      /\ \/ pcBubbleRan' = "bypass" /\ exit' = exit /\ BubbleRan!GovernedAsExpected(cases)
         \/ pcBubbleRan' = "done" /\ exit' = "contract_failed"
      /\ governed' = cases /\ beforeBubbleRan' = BubbleRan!Counts(cases)
      /\ UNCHANGED <<cases, checkpoint, workBubbleRan, outsideBubbleRan>>
  BY DEF BubbleRan!ReadGoverned, BubbleRan!Fail, BubbleInv, BubblePlaces
<1>2. BubbleTypes'
  BY <1>1 DEF BubbleInv, BubbleTypes
<1>3. BubbleRan!Counts(cases)' = BubbleRan!Counts(cases) /\ (BubbleRan!GovernedAsExpected(cases) <=> BubbleRan!GovernedAsExpected(cases)')
  BY <1>1 DEF BubbleRan!Counts, BubbleRan!GovernedAsExpected
<1>4. BubblePlaces'
  BY <1>1, <1>3, BubbleNone DEF BubbleInv, BubblePlaces, Succeeded
<1> QED  BY <1>2, <1>4 DEF BubbleInv

LEMMA BubbleBypasses == ASSUME BubbleInv, BubbleRan!BypassReplay PROVE BubbleInv'
<1>0. BubbleTypes
  BY DEF BubbleInv
<1>1. /\ pcBubbleRan = "bypass" /\ exit = None
      /\ \/ /\ pcBubbleRan' = "capture" /\ exit' = exit /\ cases' = governed
            /\ BubbleRan!Counts(cases') = beforeBubbleRan
            /\ \A b \in BubbleRan!Branches : beforeBubbleRan[b] = 1
         \/ pcBubbleRan' = "done" /\ exit' = "contract_failed"
      /\ UNCHANGED <<governed, checkpoint, workBubbleRan, outsideBubbleRan>>
  BY DEF BubbleRan!BypassReplay, BubbleRan!NothingChanged, BubbleRan!Fail, BubbleInv, BubblePlaces
<1>2. PICK o, b : cases' = [x \in BubbleRan!Branches |-> BubbleRan!Ingest(cases[x], IF x = b THEN o ELSE "ok")]
  BY DEF BubbleRan!BypassReplay
<1>3. \A x \in BubbleRan!Branches : BubbleRan!Ingest(cases[x], IF x = b THEN o ELSE "ok") \in Cases
  BY <1>0, IngestTypes DEF BubbleTypes
<1>4. BubbleTypes'
  <2>1. cases' \in [BubbleRan!Branches -> Cases]
    BY <1>2, <1>3
  <2> QED  BY <1>0, <1>1, <2>1 DEF BubbleTypes
<1>5. pcBubbleRan' = "capture" => AsClaimed'
  <2> SUFFICES ASSUME pcBubbleRan' = "capture" PROVE AsClaimed'
    OBVIOUS
  <2>1. cases' = governed /\ governed' = governed /\ cases = governed /\ BubbleRan!GovernedAsExpected(cases)
    BY <1>1 DEF BubbleInv, BubblePlaces
  <2>2. \A x \in BubbleRan!Branches : cases'[x].links = 1
    BY <1>1 DEF BubbleRan!Counts
  <2>3. BubbleRan!GovernedAsExpected(cases)'
    BY <2>1 DEF BubbleRan!GovernedAsExpected
  <2> QED  BY <2>1, <2>2, <2>3 DEF AsClaimed
<1>6. BubblePlaces'
  BY <1>1, <1>5, BubbleNone DEF BubbleInv, BubblePlaces, Succeeded
<1> QED  BY <1>4, <1>6 DEF BubbleInv

\* What a removal does to the work tree.
LEMMA BubbleRemoval ==
    ASSUME BubbleTypes, BubbleRan!RemoveCapturedTree
    PROVE  /\ workBubbleRan' \in Trees /\ (workBubbleRan'.root = "none" => workBubbleRan'.files = {})
           /\ workBubbleRan.files \ workBubbleRan'.files \subseteq capturedBubbleRan
           /\ workBubbleRan.root = "foreign" => workBubbleRan' = workBubbleRan
           /\ pcBubbleRan = "remove"
           /\ \/ pcBubbleRan' = "write" /\ exit' = exit /\ workBubbleRan'.root = "none"
              \/ pcBubbleRan' = "done" /\ exit' = "cleanup_failed"
<1>1. pcBubbleRan = "remove"
  BY DEF BubbleRan!RemoveCapturedTree
<1>2. \/ BubbleRan!SameTree /\ workBubbleRan' = BubbleRan!NoWork /\ pcBubbleRan' = "write" /\ exit' = exit
      \/ /\ pcBubbleRan' = "done" /\ exit' = "cleanup_failed"
         /\ \E D \in SUBSET capturedBubbleRan :
              workBubbleRan' = IF BubbleRan!SameTree THEN [workBubbleRan EXCEPT !.files = workBubbleRan.files \ D] ELSE workBubbleRan
  BY DEF BubbleRan!RemoveCapturedTree, BubbleRan!Fail
<1>3. CASE BubbleRan!SameTree /\ workBubbleRan' = BubbleRan!NoWork /\ pcBubbleRan' = "write" /\ exit' = exit
  BY <1>1, <1>3, BubbleTrees DEF BubbleRan!SameTree
<1>4. ASSUME NEW D \in SUBSET capturedBubbleRan,
             workBubbleRan' = IF BubbleRan!SameTree THEN [workBubbleRan EXCEPT !.files = workBubbleRan.files \ D] ELSE workBubbleRan
      PROVE  /\ workBubbleRan' \in Trees /\ (workBubbleRan'.root = "none" => workBubbleRan'.files = {})
             /\ workBubbleRan.files \ workBubbleRan'.files \subseteq capturedBubbleRan
             /\ workBubbleRan.root = "foreign" => workBubbleRan' = workBubbleRan
  <2>1. CASE ~BubbleRan!SameTree
    BY <1>4, <2>1 DEF BubbleTypes
  <2>2. CASE BubbleRan!SameTree
    <3>1. workBubbleRan' = [workBubbleRan EXCEPT !.files = workBubbleRan.files \ D] /\ workBubbleRan.root = "own"
      BY <1>4, <2>2 DEF BubbleRan!SameTree
    <3>2. workBubbleRan' \in Trees /\ workBubbleRan'.root = "own" /\ workBubbleRan'.files = workBubbleRan.files \ D
      BY <3>1 DEF BubbleTypes, Trees
    <3> QED  BY <1>4, <3>1, <3>2
  <2> QED  BY <2>1, <2>2
<1> QED  BY <1>1, <1>2, <1>3, <1>4

LEMMA BubbleCleans ==
    ASSUME BubbleInv, BubbleRan!CaptureOwnedTree \/ BubbleRan!RemoveCapturedTree \/ BubbleRan!WriteReport
    PROVE  BubbleInv'
<1>0. BubbleTypes
  BY DEF BubbleInv
<1>1. /\ pcBubbleRan \in {"capture", "remove", "write"} /\ exit = None
      /\ UNCHANGED <<cases, checkpoint, governed, outsideBubbleRan>>
  BY DEF BubbleRan!CaptureOwnedTree, BubbleRan!RemoveCapturedTree, BubbleRan!WriteReport, BubbleInv, BubblePlaces
<1>2. AsClaimed' /\ checkpoint' = BubbleRan!Cardinality(BubbleRan!Branches)
  <2>1. AsClaimed /\ checkpoint = BubbleRan!Cardinality(BubbleRan!Branches)
    BY <1>1 DEF BubbleInv, BubblePlaces
  <2> QED  BY <1>1, <2>1 DEF AsClaimed, BubbleRan!GovernedAsExpected
<1>3. CASE BubbleRan!CaptureOwnedTree
  <2>1. /\ workBubbleRan' = workBubbleRan
        /\ \/ pcBubbleRan' = "remove" /\ exit' = None
           \/ pcBubbleRan' = "done" /\ exit' = "cleanup_failed"
    BY <1>1, <1>3 DEF BubbleRan!CaptureOwnedTree, BubbleRan!Fail
  <2>2. BubbleTypes'
    BY <1>0, <1>1, <2>1 DEF BubbleTypes
  <2>3. BubblePlaces'
    BY <1>2, <2>1, BubbleNone DEF BubblePlaces, Succeeded
  <2> QED  BY <2>2, <2>3 DEF BubbleInv
<1>4. CASE BubbleRan!RemoveCapturedTree
  <2>1. BubbleTypes'
    BY <1>0, <1>1, <1>4, BubbleRemoval DEF BubbleTypes
  <2>2. \/ pcBubbleRan' = "write" /\ exit' = None /\ workBubbleRan'.root = "none"
        \/ pcBubbleRan' = "done" /\ exit' = "cleanup_failed"
    BY <1>0, <1>1, <1>4, BubbleRemoval
  <2>3. BubblePlaces'
    BY <1>2, <2>2, BubbleNone DEF BubblePlaces, Succeeded
  <2> QED  BY <2>1, <2>3 DEF BubbleInv
<1>5. CASE BubbleRan!WriteReport
  <2>1. /\ workBubbleRan' = workBubbleRan /\ pcBubbleRan' = "done"
        /\ \/ exit' = "OK" /\ workBubbleRan.root = "none"
           \/ exit' = "report_write_failed"
    BY <1>5 DEF BubbleRan!WriteReport, BubbleRan!Fail
  <2>2. BubbleTypes'
    BY <1>0, <1>1, <2>1 DEF BubbleTypes
  <2>3. BubblePlaces'
    BY <1>2, <2>1 DEF BubblePlaces, Succeeded
  <2> QED  BY <2>2, <2>3 DEF BubbleInv
<1> QED  BY <1>3, <1>4, <1>5

LEMMA BubbleOutside == ASSUME BubbleInv, BubbleRan!Outside PROVE BubbleInv'
<1>0. BubbleTypes
  BY DEF BubbleInv
<1>1. /\ pcBubbleRan # "done" /\ exit = None /\ outsideBubbleRan' = outsideBubbleRan + 1
      /\ UNCHANGED <<pcBubbleRan, cases, checkpoint, beforeBubbleRan, governed, exit>>
  BY DEF BubbleRan!Outside, BubbleInv, BubblePlaces
<1>2. /\ workBubbleRan' \in Trees /\ (workBubbleRan'.root = "none" => workBubbleRan'.files = {})
      /\ workBubbleRan'.root = "own" => workBubbleRan.root = "own"
  <2>1. CASE workBubbleRan' = [root |-> "foreign", files |-> {"foreign"}]
    BY <2>1, BubbleTrees
  <2>2. CASE workBubbleRan.root = "own" /\ workBubbleRan' = [workBubbleRan EXCEPT !.files = workBubbleRan.files \cup {"foreign"}]
    BY <1>0, <2>2 DEF BubbleTypes, Trees
  <2> QED  BY <2>1, <2>2 DEF BubbleRan!Outside
<1>3. BubbleTypes'
  BY <1>0, <1>1, <1>2 DEF BubbleTypes
<1>4. /\ BubbleRan!Counts(cases)' = BubbleRan!Counts(cases)
      /\ BubbleRan!GovernedAsExpected(cases) <=> BubbleRan!GovernedAsExpected(cases)'
      /\ AsClaimed' <=> AsClaimed
  BY <1>1 DEF BubbleRan!Counts, BubbleRan!GovernedAsExpected, AsClaimed
<1>5. BubblePlaces'
  BY <1>1, <1>2, <1>4, BubbleNone DEF BubbleInv, BubblePlaces, Succeeded
<1> QED  BY <1>3, <1>5 DEF BubbleInv

LEMMA BubbleStep == ASSUME BubbleInv, BubbleRan!Next PROVE BubbleInv'
BY BubbleWork, BubbleReplays, BubbleGoverns, BubbleReads, BubbleBypasses, BubbleCleans, BubbleOutside DEF BubbleRan!Next

LEMMA BubbleFacts == ASSUME BubbleInv PROVE BubbleRan!ReportIsTrue /\ BubbleRan!BypassIsWithoutEffect
<1>1. ASSUME AsClaimed, BubbleTypes, NEW b \in BubbleRan!Branches
      PROVE  cases[b] = [status |-> BubbleRan!Terminal[b], runs |-> BubbleRan!Runs[b], links |-> 1]
  <2>1. cases[b] \in Cases /\ cases[b].status = BubbleRan!Terminal[b] /\ cases[b].runs = BubbleRan!Runs[b] /\ cases[b].links = 1
    BY <1>1 DEF AsClaimed, BubbleRan!GovernedAsExpected, BubbleTypes
  <2> QED  BY <2>1 DEF Cases
<1>2. BubbleRan!ReportIsTrue
  BY <1>1 DEF BubbleInv, BubblePlaces, BubbleRan!ReportIsTrue, Succeeded
<1>3. BubbleRan!BypassIsWithoutEffect
  BY DEF BubbleInv, BubblePlaces, AsClaimed, BubbleRan!BypassIsWithoutEffect, Succeeded
<1> QED  BY <1>2, <1>3

\* Nothing but a removal takes a file away, and it is no failure of the scenario.
LEMMA BubbleKeeps == ASSUME BubbleInv, BubbleRan!Next \/ UNCHANGED bubbleranVars PROVE BubbleRan!NothingUnknownRemoved
<1> SUFFICES ASSUME outsideBubbleRan' = outsideBubbleRan
             PROVE  /\ workBubbleRan.files \ workBubbleRan'.files \subseteq capturedBubbleRan
                    /\ workBubbleRan.root = "foreign" => workBubbleRan' = workBubbleRan
                    /\ exit' \notin {None, "OK", "cleanup_failed"} => workBubbleRan.files \subseteq workBubbleRan'.files
  BY DEF BubbleRan!NothingUnknownRemoved
<1>0. BubbleTypes
  BY DEF BubbleInv
<1>1. CASE workBubbleRan' = workBubbleRan
  BY <1>1
<1>2. CASE BubbleRan!MakeWork
  BY <1>0, <1>2 DEF BubbleRan!MakeWork, BubbleTypes
<1>3. CASE BubbleRan!RemoveCapturedTree
  <2>1. exit' \in {None, "cleanup_failed"}
    BY <1>0, <1>3, BubbleRemoval DEF BubbleInv, BubblePlaces
  <2> QED  BY <1>0, <1>3, <2>1, BubbleRemoval
<1>4. ~BubbleRan!Outside
  BY <1>0 DEF BubbleRan!Outside, BubbleTypes
<1>5. UNCHANGED workBubbleRan \/ BubbleRan!MakeWork \/ BubbleRan!RemoveCapturedTree
  BY <1>4 DEF BubbleRan!Next, BubbleRan!FirstReplay, BubbleRan!ReopenedReplay, BubbleRan!GovernBranch,
              BubbleRan!ReadGoverned, BubbleRan!BypassReplay, BubbleRan!CaptureOwnedTree, BubbleRan!WriteReport,
              bubbleranVars
<1> QED  BY <1>1, <1>2, <1>3, <1>5

----------------------------------------------------------------------------
(* The governance demonstration *)

\* What a finished branch may have recorded.
Reports == [restarts : Nat, replays : {3}, runs : {1}, project : {FALSE}]

DemoTypes ==
    /\ stepDemo \in 1..17 /\ branch \in {1, 2} /\ project \in BOOLEAN
    /\ started \in Nat /\ beforeDemo \in Nat /\ restarts \in Nat /\ replays \in Nat
    /\ results \in Seq(Reports)

\* The start time only grows while the runner watches it.
DemoWatch ==
    /\ stepDemo \in 5..12 => started >= beforeDemo
    /\ stepDemo = 10 => started > beforeDemo

\* What a branch that has not failed has counted at each step.
DemoCounts ==
    /\ codeDemo = None =>
         /\ stepDemo \in 1..10 => replays = 0
         /\ stepDemo = 11 => replays = 1
         /\ stepDemo = 12 => replays = 2
         /\ stepDemo \in 13..17 => replays = 3
         /\ stepDemo \in 15..17 => runs = 1
         /\ Len(results) = branch - 1
    /\ stepDemo = 17 /\ project => codeDemo = "cleanup_failed"
    /\ codeDemo = "ok" => Len(results) = 2

DemoInv == DemoTypes /\ DemoWatch /\ DemoCounts

LEMMA DemoNone == None \notin {"ok", "failed", "cleanup_failed"}
BY DemoConstants DEF Demo!DemoAssumption

LEMMA DemoSteps ==
    /\ Len(Demo!Steps) = 15
    /\ Demo!Steps[1] = "init" /\ Demo!Steps[2] = "seed" /\ Demo!Steps[3] = "up" /\ Demo!Steps[4] = "healthy"
    /\ Demo!Steps[5] = "prepare" /\ Demo!Steps[6] = "decide" /\ Demo!Steps[7] = "execute"
    /\ Demo!Steps[8] = "restart" /\ Demo!Steps[9] = "healthyAgain" /\ Demo!Steps[10] = "prepareAgain"
    /\ Demo!Steps[11] = "decideAgain" /\ Demo!Steps[12] = "executeAgain" /\ Demo!Steps[13] = "stop"
    /\ Demo!Steps[14] = "verify" /\ Demo!Steps[15] = "reset"
BY DEF Demo!Steps

\* The step is the place of its name in the program.
LEMMA DemoAt ==
    /\ Demo!At("init") => stepDemo = 1
    /\ Demo!At("seed") => stepDemo = 2
    /\ Demo!At("up") => stepDemo = 3
    /\ Demo!At("healthy") => stepDemo = 4
    /\ Demo!At("prepare") => stepDemo = 5
    /\ Demo!At("decide") => stepDemo = 6
    /\ Demo!At("execute") => stepDemo = 7
    /\ Demo!At("restart") => stepDemo = 8
    /\ Demo!At("healthyAgain") => stepDemo = 9
    /\ Demo!At("prepareAgain") => stepDemo = 10
    /\ Demo!At("decideAgain") => stepDemo = 11
    /\ Demo!At("executeAgain") => stepDemo = 12
    /\ Demo!At("stop") => stepDemo = 13
    /\ Demo!At("verify") => stepDemo = 14
    /\ Demo!At("reset") => stepDemo = 15
<1>1. ASSUME NEW s, Demo!At(s)
      PROVE  /\ Demo!Steps[stepDemo] = s
             /\ \/ stepDemo = 1 \/ stepDemo = 2 \/ stepDemo = 3 \/ stepDemo = 4 \/ stepDemo = 5
                \/ stepDemo = 6 \/ stepDemo = 7 \/ stepDemo = 8 \/ stepDemo = 9 \/ stepDemo = 10
                \/ stepDemo = 11 \/ stepDemo = 12 \/ stepDemo = 13 \/ stepDemo = 14 \/ stepDemo = 15
  BY <1>1, DemoSteps DEF Demo!At
<1> QED  BY <1>1, DemoSteps

LEMMA DemoStart == Demo!Init => DemoInv
<1> SUFFICES ASSUME Demo!Init PROVE DemoInv
  OBVIOUS
<1>1. DemoTypes
  <2>1. results \in Seq(Reports)
    BY DEF Demo!Init
  <2>2. project \in BOOLEAN
    BY DEF Demo!Init
  <2>3. /\ stepDemo = 1 /\ branch = 1 /\ started = 0 /\ beforeDemo = 0 /\ restarts = 0 /\ replays = 0
    BY DEF Demo!Init
  <2> QED  BY <2>1, <2>2, <2>3 DEF DemoTypes
<1> QED  BY <1>1, DemoNone DEF Demo!Init, DemoInv, DemoWatch, DemoCounts

LEMMA DemoFrame == ASSUME DemoInv, UNCHANGED demoVars PROVE DemoInv'
BY DEF DemoInv, DemoTypes, DemoWatch, DemoCounts, demoVars

\* A step of the program that leaves the answers alone.
LEMMA DemoMoves ==
    ASSUME DemoInv, stepDemo \in {1, 2, 3, 4, 8, 9, 13, 14, 15}, stepDemo' = stepDemo + 1,
           project' \in BOOLEAN, started' \in Nat, beforeDemo' \in Nat, restarts' \in Nat,
           stepDemo \in {4, 8, 9} => started' >= beforeDemo',
           stepDemo = 9 => started' > beforeDemo',
           stepDemo = 14 => runs = 1,
           UNCHANGED <<branch, results, codeDemo, replays, runs>>
    PROVE  DemoInv'
<1>1. DemoTypes'
  BY DEF DemoInv, DemoTypes
<1>2. DemoWatch'
  BY DEF DemoWatch
<1>3. DemoCounts'
  BY DEF DemoInv, DemoCounts
<1> QED  BY <1>1, <1>2, <1>3 DEF DemoInv

LEMMA DemoRuns ==
    ASSUME DemoInv,
           \/ Demo!Seed \/ Demo!Up \/ Demo!WaitHealthy \/ Demo!Restart \/ Demo!ObserveRestart \/ Demo!Verify
    PROVE  DemoInv'
<1>0. /\ DemoTypes /\ project \in BOOLEAN /\ started \in Nat /\ beforeDemo \in Nat /\ restarts \in Nat
      /\ started + 1 \in Nat /\ restarts + 1 \in Nat /\ TRUE \in BOOLEAN
  BY DEF DemoInv, DemoTypes
<1>1. CASE Demo!Seed
  <2>1. /\ stepDemo \in {1, 2} /\ stepDemo' = stepDemo + 1 /\ project' \in BOOLEAN
        /\ UNCHANGED <<started, runs, beforeDemo, restarts, replays, branch, results, codeDemo>>
    BY <1>0, <1>1, DemoAt DEF Demo!Seed, Demo!Advance, Demo!Quiet
  <2> QED  BY <1>0, <2>1, DemoMoves
<1>2. CASE Demo!Up
  <2>1. /\ stepDemo = 3 /\ stepDemo' = stepDemo + 1 /\ started' = started + 1
        /\ UNCHANGED <<project, runs, beforeDemo, restarts, replays, branch, results, codeDemo>>
    BY <1>2, DemoAt DEF Demo!Up, Demo!Advance, Demo!Quiet
  <2> QED  BY <1>0, <2>1, DemoMoves
<1>3. CASE Demo!WaitHealthy
  <2>1. /\ stepDemo = 4 /\ stepDemo' = stepDemo + 1 /\ beforeDemo' = started
        /\ UNCHANGED <<project, started, runs, restarts, replays, branch, results, codeDemo>>
    BY <1>3, DemoAt DEF Demo!WaitHealthy, Demo!Advance, Demo!Quiet, Demo!service
  <2> QED  BY <1>0, <2>1, DemoMoves
<1>4. CASE Demo!Restart
  <2>1. /\ stepDemo = 8 /\ stepDemo' = stepDemo + 1
        /\ started' \in {started, started + 1} /\ restarts' \in {restarts, restarts + 1}
        /\ UNCHANGED <<project, runs, beforeDemo, replays, branch, results, codeDemo>>
    BY <1>4, DemoAt DEF Demo!Restart, Demo!Advance, Demo!Quiet
  <2>2. started >= beforeDemo
    BY <2>1 DEF DemoInv, DemoWatch
  <2> QED  BY <1>0, <2>1, <2>2, DemoMoves
<1>5. CASE Demo!ObserveRestart
  <2>1. /\ stepDemo = 9 /\ stepDemo' = stepDemo + 1 /\ started # beforeDemo
        /\ UNCHANGED <<project, started, runs, beforeDemo, restarts, replays, branch, results, codeDemo>>
    BY <1>5, DemoAt DEF Demo!ObserveRestart, Demo!StartedAgain, Demo!Advance, Demo!Quiet, Demo!service
  <2>2. started >= beforeDemo
    BY <2>1 DEF DemoInv, DemoWatch
  <2> QED  BY <1>0, <2>1, <2>2, DemoMoves
<1>6. CASE Demo!Verify
  <2>1. /\ stepDemo \in {13, 14, 15} /\ stepDemo' = stepDemo + 1 /\ started' = 0
        /\ stepDemo = 14 => runs = 1
        /\ UNCHANGED <<project, runs, beforeDemo, restarts, replays, branch, results, codeDemo>>
    BY <1>6, DemoAt DEF Demo!Verify, Demo!Advance, Demo!Quiet
  <2> QED  BY <1>0, <2>1, DemoMoves
<1> QED  BY <1>1, <1>2, <1>3, <1>4, <1>5, <1>6

\* A governance command is applied in the first pass and replayed in the second.
LEMMA DemoGoverns == ASSUME DemoInv, Demo!Prepare \/ Demo!Decide \/ Demo!Execute PROVE DemoInv'
<1>1. /\ stepDemo \in {5, 6, 7, 10, 11, 12} /\ stepDemo' = stepDemo + 1
      /\ UNCHANGED <<project, started, beforeDemo, restarts, branch, results, codeDemo>>
  BY DemoAt DEF Demo!Prepare, Demo!Decide, Demo!Execute, Demo!Advance, Demo!Quiet
<1>2. ASSUME NEW op, NEW s, NEW expected,
             replays' = IF Demo!StableKey(op) \in applied THEN replays + 1 ELSE replays,
             Demo!RequireFields(Demo!StableKey(op) \in applied, s, expected)
      PROVE  replays' = IF stepDemo > 9 THEN replays + 1 ELSE replays
  BY <1>2 DEF Demo!RequireFields, Demo!Again
<1>3. replays' = IF stepDemo > 9 THEN replays + 1 ELSE replays
  <2>1. CASE Demo!Prepare
    BY <1>2, <2>1 DEF Demo!Prepare, Demo!Answer
  <2>2. CASE Demo!Decide
    BY <1>2, <2>2 DEF Demo!Decide, Demo!Answer
  <2>3. CASE Demo!Execute
    BY <1>2, <2>3 DEF Demo!Execute, Demo!Answer
  <2> QED  BY <2>1, <2>2, <2>3
<1>4. DemoTypes'
  BY <1>1, <1>3 DEF DemoInv, DemoTypes
<1>5. DemoWatch'
  BY <1>1 DEF DemoInv, DemoWatch
<1>6. DemoCounts'
  BY <1>1, <1>3 DEF DemoInv, DemoCounts
<1> QED  BY <1>4, <1>5, <1>6 DEF DemoInv

LEMMA DemoFails == ASSUME DemoInv, Demo!Fail \/ Demo!Refused PROVE DemoInv'
<1>1. /\ stepDemo' = 16 /\ codeDemo' = "failed"
      /\ UNCHANGED <<branch, results, replays, beforeDemo, restarts>>
  BY DemoSteps DEF Demo!Fail, Demo!Refused, Demo!Abort
<1>2. project' \in BOOLEAN
  BY DEF Demo!Fail, Demo!Refused, Demo!service, DemoInv, DemoTypes
<1>3. started' \in Nat
  <2>1. started' = started \/ started' = started + 1
    BY DEF Demo!Fail, Demo!Refused, Demo!service
  <2> QED  BY <2>1 DEF DemoInv, DemoTypes
<1>4. DemoTypes'
  BY <1>1, <1>2, <1>3 DEF DemoInv, DemoTypes
<1> QED  BY <1>1, <1>4, DemoNone DEF DemoInv, DemoWatch, DemoCounts

LEMMA DemoCleans == ASSUME DemoInv, Demo!Cleanup PROVE DemoInv'
<1>1. /\ stepDemo = 16 /\ UNCHANGED <<branch, runs, beforeDemo, restarts, replays, results>>
  BY DemoSteps DEF Demo!Cleanup
<1>2. \/ project' = FALSE /\ started' = 0 /\ stepDemo' = 17 /\ codeDemo' = codeDemo
      \/ /\ project' = project /\ started' = started
         /\ \/ codeDemo' = "cleanup_failed" /\ stepDemo' = 17
            \/ codeDemo' = codeDemo /\ stepDemo' = stepDemo
  BY <1>1 DEF Demo!Cleanup
<1>3. DemoTypes'
  <2>1. project' \in BOOLEAN
    BY <1>2 DEF DemoInv, DemoTypes
  <2>2. started' \in Nat /\ stepDemo' \in 1..17
    BY <1>1, <1>2 DEF DemoInv, DemoTypes
  <2> QED  BY <1>1, <2>1, <2>2 DEF DemoInv, DemoTypes
<1> QED  BY <1>1, <1>2, <1>3, DemoNone DEF DemoInv, DemoWatch, DemoCounts

LEMMA DemoEnds == ASSUME DemoInv, Demo!EndBranch PROVE DemoInv'
<1>1. /\ stepDemo = 17 /\ codeDemo = None /\ UNCHANGED <<project, started>>
      /\ results' = Append(results, [restarts |-> restarts, replays |-> replays, runs |-> runs, project |-> project])
  BY DemoSteps DEF Demo!EndBranch
<1>2. /\ replays = 3 /\ runs = 1 /\ ~project /\ Len(results) = branch - 1 /\ restarts \in Nat
      /\ results \in Seq(Reports) /\ project = FALSE /\ branch \in {1, 2}
  BY <1>1, DemoNone DEF DemoInv, DemoCounts, DemoTypes
<1>3. PICK r \in Reports : results' = Append(results, r)
  BY <1>1, <1>2 DEF Reports
<1>4. results' \in Seq(Reports) /\ Len(results') = Len(results) + 1
  BY <1>2, <1>3
<1>5. CASE branch = 1
  <2>1. branch' = 2 /\ stepDemo' = 1 /\ restarts' = 0 /\ replays' = 0 /\ beforeDemo' = 0 /\ codeDemo' = codeDemo
    BY <1>5 DEF Demo!EndBranch
  <2>2. DemoTypes'
    BY <1>1, <1>4, <2>1 DEF DemoInv, DemoTypes
  <2>3. DemoWatch' /\ DemoCounts'
    BY <1>1, <1>2, <1>4, <1>5, <2>1, DemoNone DEF DemoWatch, DemoCounts
  <2> QED  BY <2>2, <2>3 DEF DemoInv
<1>6. CASE branch = 2
  <2>1. codeDemo' = "ok" /\ UNCHANGED <<branch, stepDemo, runs, restarts, replays, beforeDemo>>
    BY <1>6 DEF Demo!EndBranch
  <2>2. DemoTypes'
    BY <1>1, <1>4, <2>1 DEF DemoInv, DemoTypes
  <2>3. DemoWatch' /\ DemoCounts'
    BY <1>1, <1>2, <1>4, <1>6, <2>1, DemoNone DEF DemoWatch, DemoCounts
  <2> QED  BY <2>2, <2>3 DEF DemoInv
<1> QED  BY <1>2, <1>5, <1>6

LEMMA DemoOutside == ASSUME DemoInv, Demo!Outside PROVE DemoInv'
<1>1. /\ started' \in {started, started + 1}
      /\ UNCHANGED <<branch, stepDemo, project, runs, beforeDemo, restarts, replays, results, codeDemo>>
  BY DEF Demo!Outside
<1>2. DemoTypes'
  BY <1>1 DEF DemoInv, DemoTypes
<1>3. DemoWatch'
  BY <1>1 DEF DemoInv, DemoTypes, DemoWatch
<1>4. DemoCounts'
  BY <1>1 DEF DemoInv, DemoCounts
<1> QED  BY <1>2, <1>3, <1>4 DEF DemoInv

LEMMA DemoStep == ASSUME DemoInv, Demo!Next PROVE DemoInv'
BY DemoRuns, DemoGoverns, DemoFails, DemoCleans, DemoEnds, DemoOutside DEF Demo!Next

LEMMA DemoFacts ==
    ASSUME DemoInv PROVE Demo!DemoReportIsTrue /\ Demo!ReplayIsAcrossRestart /\ Demo!LeftoverIsReported
<1>1. Demo!DemoReportIsTrue
  <2>1. Len(Demo!Branches) = 2
    BY DEF Demo!Branches
  <2>2. results \in Seq(Reports) /\ (codeDemo = "ok" => Len(results) = 2)
    BY DEF DemoInv, DemoTypes, DemoCounts
  <2>3. \A n \in 1..Len(results) : results[n] \in Reports
    BY <2>2
  <2>4. \A r \in Reports : r.runs = 1 /\ r.replays = 3 /\ ~r.project
    BY DEF Reports
  <2> QED  BY <2>1, <2>2, <2>3, <2>4 DEF Demo!DemoReportIsTrue
<1>2. Demo!ReplayIsAcrossRestart
  BY DemoAt DEF DemoInv, DemoWatch, Demo!ReplayIsAcrossRestart
<1>3. Demo!LeftoverIsReported
  BY DemoSteps DEF DemoInv, DemoCounts, Demo!LeftoverIsReported
<1> QED  BY <1>1, <1>2, <1>3

----------------------------------------------------------------------------
(* The programs together *)

\* Of the program that runs, its invariant holds.
ToolsInv ==
    /\ part = "wheels" => WheelInv
    /\ part = "container" => ContainerInv
    /\ part = "bundle" => BundleInv
    /\ part = "drill" => DrillInv
    /\ part = "defense" => DefenseInv
    /\ part = "trace" => TraceInv
    /\ part = "bubbleran" => BubbleInv
    /\ part = "demo" => DemoInv

LEMMA ToolsStart == Init => ToolsInv
BY WheelStart, ContainerStart, BundleStart, DrillStart, DefenseStart, TraceStart, BubbleStart,
   DemoStart DEF Init, ToolsInv

LEMMA ToolsStep == ASSUME ToolsInv, [Next]_vars PROVE ToolsInv'
<1>1. part' = part
  BY DEF Next, vars
<1>2. ASSUME part = "wheels" PROVE WheelInv'
  <2>1. WheelInv /\ (Wheel!Next \/ UNCHANGED wheelsVars)
    BY <1>2 DEF ToolsInv, Next, vars
  <2> QED  BY <2>1, WheelStep, WheelFrame
<1>3. ASSUME part = "container" PROVE ContainerInv'
  <2>1. ContainerInv /\ (Container!Next \/ UNCHANGED containerVars)
    BY <1>3 DEF ToolsInv, Next, vars
  <2> QED  BY <2>1, ContainerStep, ContainerFrame
<1>4. ASSUME part = "bundle" PROVE BundleInv'
  <2>1. BundleInv /\ (Bundle!Next \/ UNCHANGED bundleVars)
    BY <1>4 DEF ToolsInv, Next, vars
  <2> QED  BY <2>1, BundleStep, BundleFrame
<1>5. ASSUME part = "drill" PROVE DrillInv'
  <2>1. DrillInv /\ (Drill!Next \/ UNCHANGED drillVars)
    BY <1>5 DEF ToolsInv, Next, vars
  <2> QED  BY <2>1, DrillStep, DrillFrame
<1>6. ASSUME part = "defense" PROVE DefenseInv'
  <2>1. DefenseInv /\ (Defense!Next \/ UNCHANGED defenseVars)
    BY <1>6 DEF ToolsInv, Next, vars
  <2> QED  BY <2>1, DefenseStep, DefenseFrame
<1>7. ASSUME part = "trace" PROVE TraceInv'
  <2>1. TraceInv /\ (Trace!Next \/ UNCHANGED traceVars)
    BY <1>7 DEF ToolsInv, Next, vars
  <2> QED  BY <2>1, TraceStep, TraceFrame
<1>8. ASSUME part = "bubbleran" PROVE BubbleInv'
  <2>1. BubbleInv /\ (BubbleRan!Next \/ UNCHANGED bubbleranVars)
    BY <1>8 DEF ToolsInv, Next, vars
  <2> QED  BY <2>1, BubbleStep, BubbleFrame
<1>9. ASSUME part = "demo" PROVE DemoInv'
  <2>1. DemoInv /\ (Demo!Next \/ UNCHANGED demoVars)
    BY <1>9 DEF ToolsInv, Next, vars
  <2> QED  BY <2>1, DemoStep, DemoFrame
<1> QED  BY <1>1, <1>2, <1>3, <1>4, <1>5, <1>6, <1>7, <1>8, <1>9 DEF ToolsInv

LEMMA ToolsInvariant == Spec => []ToolsInv
BY ToolsStart, ToolsStep, PTL DEF Spec

(* What the verification of a manifest passes is one release, of the wheels at    *)
(* one commit or of one clean image with a recent database, whatever was written, *)
(* torn or changed between the commands, and an untouched manifest is passed      *)
(* exactly as it was gated until it is too old (verify-manifest of                *)
(* release_evidence.py and container_release_evidence.py).                        *)
THEOREM Releasable == Spec => []VerifiedIsReleasable
<1>1. ToolsInv => VerifiedIsReleasable
  BY WheelFacts, ContainerFacts DEF ToolsInv, VerifiedIsReleasable
<1> QED  BY <1>1, ToolsInvariant, PTL

(* A builder answers ok only for a complete output rendered from the commit that  *)
(* is still checked out, and the manifest never marks an incomplete bundle, for   *)
(* any number of builders that render, link, crash and clean up in any order      *)
(* while the repository moves (build_submission_bundle.py).                       *)
THEOREM CommitBound == Spec => BundleIsCommitBound
<1>1. ASSUME ToolsInv, [Next]_vars
      PROVE  [part = "bundle" => Bundle!OkIsCommitBound /\ Bundle!ManifestIsLast]_vars
  BY <1>1, BundleActions DEF ToolsInv, Next
<1> QED  BY <1>1, ToolsInvariant, PTL DEF Spec, BundleIsCommitBound

(* A published report is true of the run: the drill recovered the data, each      *)
(* branch of the defense executed its action once and its workspace is gone, a    *)
(* failed run raised an alert, an SLO ran on one commit, the trace is the six     *)
(* events, the bypass had no effect, the replay crossed a restart; whatever       *)
(* child, clock or write failed and whatever others created or committed          *)
(* meanwhile (the report writers of the five programs).                           *)
THEOREM ReportsHold == Spec => []ReportsAreTrue
<1>1. ToolsInv => ReportsAreTrue
  BY DrillFacts, DefenseFacts, TraceFacts, BubbleFacts, DemoFacts DEF ToolsInv, ReportsAreTrue
<1> QED  BY <1>1, ToolsInvariant, PTL

(* A program that ends by itself with a workspace, a project or a directory of    *)
(* its own left behind ends with cleanup_failed, and of the bundle builders only  *)
(* the one that holds the lock has directories to clean up (the finally blocks of *)
(* the runners and of build_submission_bundle.py).                                *)
THEOREM LeftoversAreNamed == Spec => []LeftoversAreReported
<1>1. ToolsInv => LeftoversAreReported
  BY DrillFacts, DefenseFacts, TraceFacts, DemoFacts, BundleFacts DEF ToolsInv, LeftoversAreReported
<1> QED  BY <1>1, ToolsInvariant, PTL

(* No step of a program removes what it did not make and capture: a directory     *)
(* another program put under the same name, or a file that arrived after the      *)
(* capture (_remove_backup_directory, _capture_tree and _remove_captured_tree).   *)
THEOREM ForeignIsKept == Spec => ForeignFilesAreKept
<1> DEFINE Kept == /\ part = "drill" => Drill!ForeignDirectoriesKept
                   /\ part = "trace" => Trace!OnlyCapturedRemoved
                   /\ part = "bubbleran" => BubbleRan!NothingUnknownRemoved
<1>1. ASSUME ToolsInv, [Next]_vars PROVE Kept
  <2>1. ASSUME part = "drill" PROVE Drill!ForeignDirectoriesKept
    <3>1. DrillInv /\ (Drill!Next \/ UNCHANGED drillVars)
      BY <1>1, <2>1 DEF ToolsInv, Next, vars
    <3> QED  BY <3>1, DrillKeeps
  <2>2. ASSUME part = "trace" PROVE Trace!OnlyCapturedRemoved
    <3>1. TraceInv /\ (Trace!Next \/ UNCHANGED traceVars)
      BY <1>1, <2>2 DEF ToolsInv, Next, vars
    <3> QED  BY <3>1, TraceKeeps
  <2>3. ASSUME part = "bubbleran" PROVE BubbleRan!NothingUnknownRemoved
    <3>1. BubbleInv /\ (BubbleRan!Next \/ UNCHANGED bubbleranVars)
      BY <1>1, <2>3 DEF ToolsInv, Next, vars
    <3> QED  BY <3>1, BubbleKeeps
  <2> QED  BY <2>1, <2>2, <2>3
<1> HIDE DEF Kept
<1>2. ToolsInv /\ [Next]_vars => [Kept]_vars
  BY <1>1
<1>3. Spec => [][Kept]_vars
  BY <1>2, ToolsInvariant, PTL DEF Spec
<1> QED  BY <1>3 DEF ForeignFilesAreKept, Kept

=============================================================================
