-------------------------- MODULE ContainerRelease --------------------------
(* tools/local-container/container_release_evidence.py within its workflow: the  *)
(* commands leave eight evidence files about one image, the manifest is          *)
(* assembled from them, and verification assembles it again.  The image behind   *)
(* the tag, the vulnerability database, a file or the clock may move between two *)
(* commands, a scanner may fail and leave the file of an earlier run.            *)
EXTENDS Integers, Sequences

CONSTANTS
    None, Torn,
    Images,      \* image identities, with their layers
    OnBase,      \* images whose first layers are those of the pinned base
    Databases,   \* contents of the vulnerability database
    Fixable,     \* [Images -> SUBSET Databases]: the database knows a fix for something in the image
    MaxAge,      \* age of a database that is still fresh
    MaxRunAge,   \* age of a context and of a manifest that is still accepted
    Skew,        \* tolerated difference of clocks
    MaxClock, MaxChanges \* bounds

\* What the constants must satisfy.
ContainerAssumption ==
    /\ OnBase \subseteq Images /\ None \notin {Torn, "PASS"}
    /\ \A f \in {None, Torn} : f \notin [at : Int]
    /\ {MaxAge, MaxRunAge, Skew, MaxClock, MaxChanges} \subseteq Nat

VARIABLES
    tag, database,   \* the image behind the tag; [content, updated, downloaded]
    clock, step,     \* step: the next command of the workflow
    context, inspect, archive, version, metadata, gate, full, sbom, \* what the commands left
    exits,           \* exit codes of gate, full and sbom
    manifest, verdict, touched, changes

outside == <<tag, database>>
files == <<context, inspect, archive, version, metadata, gate, full, sbom>>
vars == <<outside, clock, step, files, exits, manifest, verdict, touched, changes>>

Commands == <<"initialize", "inspect", "archive", "download", "version", "gate", "full", "sbom", "manifest", "done">>

\* _load_json: a file that is not there or is not one complete JSON value.
Missing == {None, Torn}
InRun(at) == context.at - Skew <= at /\ at <= clock + Skew

----------------------------------------------------------------------------
(* what _assemble accepts *)

\* _valid_generated_at: neither older than a run nor in the future.
ValidGeneratedAt(at) == clock - MaxRunAge <= at /\ at <= clock + Skew

ContextAccepted == context \notin Missing /\ ValidGeneratedAt(context.at)

\* _inspect_payload: one image of the expected platform was inspected.
Inspected == inspect \notin Missing

\* _archive_config: the one configuration of the archive, whose digest names the image
\* and whose layers are those of the inspection.
ArchiveIsInspected == archive = inspect

\* The inspected image is the saved one and stands on the pinned base.
ImageAccepted == Inspected /\ ArchiveIsInspected /\ inspect \in OnBase

Fresh(d) == /\ clock - MaxAge <= d.updated /\ d.updated <= clock + Skew
            /\ InRun(d.downloaded)

DatabaseAccepted == /\ version \notin Missing /\ metadata \notin Missing
                    /\ version = metadata /\ Fresh(metadata)

\* _scan_summary accepts a report of this image, from this run.
ScanAccepted(report) == report \notin Missing /\ report.image = inspect /\ InRun(report.at)

\* The gate fails on any fixable finding; the full scan must find the same ones.
GatePassed == ScanAccepted(gate) /\ exits[1] = 0 /\ ~gate.fixable
FullPassed == ScanAccepted(full) /\ exits[2] = 0
ScansAgree == full.fixable = gate.fixable

SbomAccepted == sbom \notin Missing /\ sbom.image = inspect /\ InRun(sbom.at) /\ exits[3] = 0

\* No evidence is dated later than the manifest.
Timeline(at) ==
    \A t \in {context.at, metadata.downloaded, gate.at, full.at, sbom.at} : t <= at + Skew

\* Everything after the context depends on it, the scans on the image.
Passed(at) ==
    /\ ContextAccepted /\ ImageAccepted /\ DatabaseAccepted
    /\ GatePassed /\ FullPassed /\ ScansAgree /\ SbomAccepted /\ Timeline(at)

EvidenceRoot == \A f \in {context, inspect, version, metadata, gate, full, sbom} : f # None

Assemble(at) == [at |-> at, files |-> files, exits |-> exits, passed |-> Passed(at)]

----------------------------------------------------------------------------
\* A report of an earlier run may have been left behind.
Init ==
    /\ tag \in Images /\ database \in [content : Databases, updated : {0}, downloaded : {0}]
    /\ clock = 1 /\ step = 1
    /\ context = None /\ inspect = None /\ archive = None /\ version = None /\ metadata = None
    /\ gate \in {None} \cup [image : Images, at : {-Skew - 1}, fixable : {FALSE}]
    /\ full = None /\ sbom = None
    /\ exits = <<0, 0, 0>> /\ manifest = None /\ verdict = None /\ touched = FALSE /\ changes = 0

Runs(c) == Commands[step] = c /\ step' = step + 1
Rest == UNCHANGED <<manifest, verdict, touched, changes, clock>>

Initialize ==
    /\ Runs("initialize") /\ context' = [at |-> clock]
    /\ UNCHANGED <<outside, inspect, archive, version, metadata, gate, full, sbom, exits>> /\ Rest

\* docker inspect and docker save each resolve the tag.
Inspect ==
    /\ Runs("inspect") /\ inspect' = tag
    /\ UNCHANGED <<outside, context, archive, version, metadata, gate, full, sbom, exits>> /\ Rest

Archive ==
    /\ Runs("archive") /\ archive' = tag
    /\ UNCHANGED <<outside, context, inspect, version, metadata, gate, full, sbom, exits>> /\ Rest

\* The scanner downloads a database unless it holds a recent one.
DownloadDatabase ==
    /\ Runs("download")
    /\ database' \in {database} \cup [content : Databases, updated : {clock}, downloaded : {clock}]
    /\ UNCHANGED <<tag, files, exits>> /\ Rest

ReadDatabaseMetadata ==
    /\ Runs("version") /\ version' = database /\ metadata' = database
    /\ UNCHANGED <<outside, context, inspect, archive, gate, full, sbom, exits>> /\ Rest

\* A scan sees the database of its moment; a failed one leaves what was there.
Report == [image |-> tag, at |-> clock, fixable |-> database.content \in Fixable[tag]]

GateScan ==
    /\ Runs("gate")
    /\ \/ gate' = Report /\ exits' = [exits EXCEPT ![1] = IF Report.fixable THEN 1 ELSE 0]
       \/ gate' \in {gate, Torn} /\ exits' = [exits EXCEPT ![1] = 1]
    /\ UNCHANGED <<outside, context, inspect, archive, version, metadata, full, sbom>> /\ Rest

FullScan ==
    /\ Runs("full")
    /\ \/ full' = Report /\ UNCHANGED exits
       \/ full' \in {full, Torn} /\ exits' = [exits EXCEPT ![2] = 1]
    /\ UNCHANGED <<outside, context, inspect, archive, version, metadata, gate, sbom>> /\ Rest

GenerateSbom ==
    /\ Runs("sbom")
    /\ \/ sbom' = [image |-> tag, at |-> clock] /\ UNCHANGED exits
       \/ sbom' \in {sbom, Torn} /\ exits' = [exits EXCEPT ![3] = 1]
    /\ UNCHANGED <<outside, context, inspect, archive, version, metadata, gate, full>> /\ Rest

BuildManifest ==
    /\ Runs("manifest")
    /\ manifest' = IF EvidenceRoot /\ manifest = None THEN Assemble(clock) ELSE manifest
    /\ touched' = FALSE
    /\ UNCHANGED <<outside, files, exits, clock, verdict, changes>>

VerifyAccepts ==
    /\ manifest \notin Missing /\ EvidenceRoot
    /\ ValidGeneratedAt(manifest.at)
    /\ manifest = Assemble(manifest.at) /\ manifest.passed

VerifyManifest ==
    /\ Commands[step] = "done"
    /\ verdict' = IF VerifyAccepts THEN "PASS" ELSE "FAIL"
    /\ UNCHANGED <<outside, files, exits, clock, step, manifest, touched, changes>>

\* A build moves the tag, another job updates the database, a file is torn or
\* replaced by the one of another image.
Change ==
    /\ changes < MaxChanges /\ changes' = changes + 1
    /\ \/ tag' \in Images \ {tag} /\ UNCHANGED <<database, archive, gate, sbom, manifest>>
       \/ /\ database' \in [content : Databases, updated : {clock}, downloaded : {clock}]
          /\ UNCHANGED <<tag, archive, gate, sbom, manifest>>
       \/ archive' \in Images /\ UNCHANGED <<outside, gate, sbom, manifest>>
       \/ /\ sbom \notin Missing /\ sbom' \in [image : Images, at : {sbom.at}]
          /\ UNCHANGED <<outside, archive, gate, manifest>>
       \/ manifest # None /\ manifest' \in Missing /\ UNCHANGED <<outside, archive, gate, sbom>>
    /\ touched' = TRUE /\ verdict' = None
    /\ UNCHANGED <<clock, step, context, inspect, version, metadata, full, exits>>

Tick ==
    /\ clock < MaxClock /\ clock' = clock + 1 /\ verdict' = None
    /\ UNCHANGED <<outside, files, exits, step, manifest, touched, changes>>

Next ==
    \/ Initialize \/ Inspect \/ Archive \/ DownloadDatabase \/ ReadDatabaseMetadata
    \/ GateScan \/ FullScan \/ GenerateSbom \/ BuildManifest \/ VerifyManifest \/ Change \/ Tick

Spec == Init /\ [][Next]_vars

----------------------------------------------------------------------------
(* Properties *)

\* A verified manifest is about one image: the inspected, saved, scanned and
\* listed one, on the pinned base, scanned within this run, in which neither
\* scan found something fixable.
VerifiedIsOneCleanImage ==
    verdict = "PASS" =>
        /\ {inspect, archive, gate.image, full.image, sbom.image} = {inspect} /\ inspect \in OnBase
        /\ ~gate.fixable /\ ~full.fixable
        /\ \A t \in {gate.at, full.at, sbom.at} : t >= context.at - Skew

\* The verified manifest names a database that is recent at the time of the
\* check, not only when the manifest was written.
VerifiedDatabaseIsFresh == verdict = "PASS" => clock - metadata.updated <= MaxAge

\* Verification of an untouched manifest only fails when time has made the
\* database or the run too old.
OnlyAgeInvalidates ==
    /\ manifest \notin Missing /\ ~touched /\ manifest.passed
    /\ clock - metadata.updated <= MaxAge /\ clock - context.at <= MaxRunAge
    => VerifyAccepts
=============================================================================
