--------------------------- MODULE ReleaseEvidence ---------------------------
(* .github/scripts/release_evidence.py: the commands that scan the wheels, take  *)
(* the runtime inventory, finish the bill of materials, and write and verify the *)
(* release manifest.  They are separate processes that only share files, and the *)
(* wheels, the environment, the commit or a file may change between two of them. *)
EXTENDS Naturals

CONSTANTS
    None, Torn,  \* no file, a file cut short
    Wheels,      \* contents the expected wheels may have
    VersionOf,   \* the versions a content declares
    Clean,       \* contents without a violation
    Deps,        \* sets of runtime dependencies
    Vulnerable,  \* those with a known vulnerability
    Fits,        \* [Wheels -> SUBSET Deps]: the requirements of a content hold there
    Commits,
    MaxChanges   \* bound: changes between commands

\* What the constants must satisfy.
ReleaseAssumption ==
    Clean \subseteq Wheels /\ Vulnerable \subseteq Deps /\ MaxChanges \in Nat /\ None # "PASS"

VARIABLES
    commit, wheel, env,          \* what the commands run on
    scan, reqs, inventory, audit, base, sbom, \* the evidence files
    auditExit, sbomExit,         \* exit codes the workflow remembers
    stray,                       \* an unexpected file in the evidence directory
    manifest, verdict,           \* verdict: the answer of the last verify-manifest
    touched,                     \* something changed since the manifest was written
    changes

inputs == <<commit, wheel, env>>
evidence == <<scan, reqs, inventory, audit, sbom>>
vars == <<inputs, evidence, base, auditExit, sbomExit, stray, manifest, verdict, touched, changes>>

Missing == {None, Torn}

----------------------------------------------------------------------------
(* what the summaries accept *)

ScanWheel(w) == w \in Clean

ScanAccepted ==
    /\ scan \notin Missing
    /\ scan = [wheel |-> wheel, passed |-> ScanWheel(wheel)]
    /\ ScanWheel(wheel)

\* _runtime_inventory_summary: the inventory, the requirements file and the
\* versions of the wheels agree.
InventoryAccepted ==
    /\ inventory \notin Missing
    /\ inventory.version = VersionOf[wheel]
    /\ reqs = inventory.dep /\ inventory.digest = reqs

\* The dependencies the inventory lists, also when it was not accepted.
RuntimeDependencies == IF inventory \in Missing THEN None ELSE inventory.dep

\* Mutant of AuditAccepted: the audit is not compared with the inventory.
AuditAcceptedAny ==
    /\ audit \notin Missing
    /\ auditExit = 0 /\ ~audit.vulns /\ RuntimeDependencies # None

AuditAccepted ==
    /\ audit \notin Missing
    /\ auditExit = 0 /\ ~audit.vulns /\ RuntimeDependencies # None
    /\ audit.dep = RuntimeDependencies

\* _first_party_dependency_edges: every active requirement of the wheels is met.
DependencyEdges(w, d) == d \in Fits[w]

SbomAccepted ==
    /\ sbom \notin Missing
    /\ sbomExit = 0
    /\ sbom.commit = commit /\ sbom.wheel = wheel
    /\ sbom.dep = RuntimeDependencies /\ DependencyEdges(wheel, sbom.dep)

\* _evidence_files: all of the evidence is there and nothing else.
EvidenceComplete == ~stray /\ None \notin {scan, reqs, inventory, audit, sbom}
EvidenceFiles == [wheel |-> wheel, scan |-> scan, reqs |-> reqs, inventory |-> inventory, audit |-> audit, sbom |-> sbom]

----------------------------------------------------------------------------
Init ==
    /\ commit \in Commits /\ wheel \in Wheels /\ env \in [version : {VersionOf[w] : w \in Wheels}, dep : Deps]
    /\ scan = None /\ reqs = None /\ inventory = None /\ audit = None /\ base = None /\ sbom = None
    /\ auditExit = 0 /\ sbomExit = 0
    /\ stray = FALSE /\ manifest = None /\ verdict = None /\ touched = FALSE /\ changes = 0

\* Every write makes an earlier answer of verify-manifest an old one.
Written == verdict' = None /\ touched' = TRUE /\ UNCHANGED changes

ScanWheels ==
    /\ scan' = [wheel |-> wheel, passed |-> ScanWheel(wheel)]
    /\ Written
    /\ UNCHANGED <<inputs, reqs, inventory, audit, base, sbom, auditExit, sbomExit, stray, manifest>>

\* The requirements file is written first, and the inventory with its digest.
BuildRuntimeInventory ==
    /\ reqs' = env.dep
    /\ inventory' \in {inventory, Torn, [version |-> env.version, dep |-> env.dep, digest |-> env.dep]}
    /\ Written
    /\ UNCHANGED <<inputs, scan, audit, base, sbom, auditExit, sbomExit, stray, manifest>>

\* pip-audit reads the requirements file; it answers 1 when it finds something
\* or cannot look.
PipAudit ==
    /\ reqs \notin Missing
    /\ \/ /\ audit' = [dep |-> reqs, vulns |-> reqs \in Vulnerable]
          /\ auditExit' = IF reqs \in Vulnerable THEN 1 ELSE 0
       \/ audit' \in {audit, Torn} /\ auditExit' = 1
    /\ Written
    /\ UNCHANGED <<inputs, scan, reqs, inventory, base, sbom, sbomExit, stray, manifest>>

\* The CycloneDX generator reads the environment.
CycloneDx ==
    /\ \/ base' = env.dep /\ sbomExit' = 0
       \/ base' \in {base, Torn} /\ sbomExit' = 1
    /\ Written
    /\ UNCHANGED <<inputs, scan, reqs, inventory, audit, sbom, auditExit, stray, manifest>>

FinalizeSbom ==
    /\ base \notin Missing
    /\ InventoryAccepted /\ base = inventory.dep
    /\ DependencyEdges(wheel, base)
    /\ sbom' = [commit |-> commit, wheel |-> wheel, dep |-> base]
    /\ Written
    /\ UNCHANGED <<inputs, scan, reqs, inventory, audit, base, auditExit, sbomExit, stray, manifest>>

Failures ==
    {f \in {"inventory", "audit", "sbom", "scan"} :
        \/ f = "inventory" /\ ~InventoryAccepted
        \/ f = "audit" /\ ~AuditAccepted
        \/ f = "sbom" /\ ~SbomAccepted
        \/ f = "scan" /\ ~ScanAccepted}

BuildManifest ==
    /\ EvidenceComplete
    /\ manifest' = [commit |-> commit, files |-> EvidenceFiles, audit |-> AuditAccepted, sbom |-> SbomAccepted,
                    inventory |-> InventoryAccepted, scan |-> (scan \notin Missing /\ scan.passed), failures |-> Failures]
    /\ verdict' = None /\ touched' = FALSE
    /\ UNCHANGED <<inputs, evidence, base, auditExit, sbomExit, stray, changes>>

\* verify_manifest summarises the files on disk again and compares.
VerifyAccepts ==
    /\ manifest \notin Missing
    /\ EvidenceComplete /\ inventory # Torn /\ audit # Torn /\ sbom # Torn /\ scan # Torn
    /\ manifest.commit = commit /\ manifest.files = EvidenceFiles
    /\ manifest.failures = {}
    /\ manifest.inventory = InventoryAccepted /\ InventoryAccepted
    /\ manifest.audit = AuditAccepted /\ AuditAccepted
    /\ manifest.sbom = SbomAccepted /\ SbomAccepted
    /\ manifest.scan = scan.passed /\ scan.passed /\ ScanAccepted
    /\ auditExit = 0 /\ sbomExit = 0

VerifyManifest ==
    /\ manifest # None
    /\ verdict' = IF VerifyAccepts THEN "PASS" ELSE "FAIL"
    /\ UNCHANGED <<inputs, evidence, base, auditExit, sbomExit, stray, manifest, touched, changes>>

\* Another process rebuilds the wheels, installs, checks out, tears or adds a file.
Change ==
    /\ changes < MaxChanges
    /\ \/ wheel' \in Wheels \ {wheel} /\ UNCHANGED <<commit, env, evidence, stray, manifest>>
       \/ env' \in [version : {VersionOf[w] : w \in Wheels}, dep : Deps] /\ UNCHANGED <<commit, wheel, evidence, stray, manifest>>
       \/ commit' \in Commits \ {commit} /\ UNCHANGED <<wheel, env, evidence, stray, manifest>>
       \/ stray' = ~stray /\ UNCHANGED <<inputs, evidence, manifest>>
       \/ /\ \/ sbom' = Torn /\ UNCHANGED <<audit, manifest>>
             \/ audit' = Torn /\ UNCHANGED <<sbom, manifest>>
             \/ manifest' = Torn /\ UNCHANGED <<sbom, audit>>
          /\ UNCHANGED <<inputs, scan, reqs, inventory, stray>>
    /\ changes' = changes + 1 /\ verdict' = None /\ touched' = TRUE
    /\ UNCHANGED <<base, auditExit, sbomExit>>

Next ==
    \/ ScanWheels \/ BuildRuntimeInventory \/ PipAudit \/ CycloneDx \/ FinalizeSbom
    \/ BuildManifest \/ VerifyManifest \/ Change

Spec == Init /\ [][Next]_vars

----------------------------------------------------------------------------
(* Properties *)

\* What verify-manifest passes is a release: the wheels on disk carry no
\* violation, their requirements hold with the dependencies of the inventory,
\* none of which is vulnerable, and the bill of materials is of these wheels at
\* this commit, however old each of the files is and whatever changed meanwhile.
VerifiedIsReleasable ==
    verdict = "PASS" =>
        /\ wheel \in Clean
        /\ inventory.dep \in Fits[wheel] \ Vulnerable
        /\ inventory.version = VersionOf[wheel]
        /\ sbom = [commit |-> commit, wheel |-> wheel, dep |-> inventory.dep]

\* The gate and its verification agree: a manifest without failures is verified
\* as long as nothing changed since, and one with failures never is.
GateAndVerificationAgree ==
    manifest \notin Missing /\ ~touched => (manifest.failures = {} <=> VerifyAccepts)
=============================================================================
