--------------------------- MODULE SubmissionBundle ---------------------------
(* tools/local-stack/build_submission_bundle.py: builders that render a bundle   *)
(* from the ledger of the checked out commit and publish it under a lock, file   *)
(* by file, with the manifest last.  Builders run at the same time, crash, and   *)
(* fail at any file system call; the repository moves under them and other       *)
(* programs occupy the lock, the staging and the output names.                   *)
EXTENDS Naturals, Sequences, Functions

CONSTANTS
    None, Foreign,
    Builders, Commits,
    Ledger,    \* commit -> the clauses its ledger breaks
    MaxFaults, \* bound: failed calls and crashes
    MaxMoves   \* bound: commits, edits of tracked files, steps of other programs

\* The codes a builder answers, and the one of a builder that never answers.
Codes == {"ok", "crashed", "source_not_clean", "ledger_invalid", "privacy_contract_failed",
          "ledger_contract_failed", "bundle_contract_failed", "source_changed", "cleanup_failed",
          "workspace_unsafe", "build_in_progress", "workspace_not_owned", "bundle_write_failed",
          "unsafe_filesystem"}

\* What the constants must satisfy.
BundleAssumption ==
    /\ None \notin Builders \cup Codes \cup {Foreign} /\ Foreign \notin Builders
    /\ Ledger \in [Commits -> SUBSET {"tree", "slices", "evidence", "runs", "artifacts", "privacy", "pinned"}]
    /\ MaxFaults \in Nat /\ MaxMoves \in Nat

\* OUTPUT_FILENAMES: the payloads and, last, the manifest.
OutputFilenames == <<"page", "manifest">>
Names == Range(OutputFilenames)

VARIABLES
    head, dirty,    \* the checked out commit; a tracked file is modified
    lock,           \* None, a builder or Foreign
    stage,          \* staging directory: its maker and its files
    output,         \* output directory: its maker and the commit each file was rendered from
    pc, code,       \* of each builder
    snap,           \* the commit a builder took its snapshot of
    recorded,       \* stage_files and output_files of a builder
    at,             \* index of the next file to publish
    faults, moves

vars == <<head, dirty, lock, stage, output, pc, code, snap, recorded, at, faults, moves>>
repo == <<head, dirty>>
NoDir == [by |-> None, files |-> <<>>]

Init ==
    /\ head \in Commits /\ dirty = FALSE
    /\ lock = None /\ stage = NoDir /\ output = NoDir
    /\ pc = [p \in Builders |-> "start"] /\ code = [p \in Builders |-> None]
    /\ snap = [p \in Builders |-> None]
    /\ recorded = [p \in Builders |-> [stage |-> {}, output |-> {}]]
    /\ at = [p \in Builders |-> 1] /\ faults = 0 /\ moves = 0

Outcomes(bad) == {"ok"} \cup (IF faults < MaxFaults THEN bad ELSE {})
Charge(o) == faults' = IF o = "ok" THEN faults ELSE faults + 1

Go(p, to) == pc' = [pc EXCEPT ![p] = to] /\ UNCHANGED code
End(p, c) == pc' = [pc EXCEPT ![p] = "done"] /\ code' = [code EXCEPT ![p] = c]
\* failure = error: the code is kept while the cleanup runs.
Fail(p, c) == pc' = [pc EXCEPT ![p] = "cleanup"] /\ code' = [code EXCEPT ![p] = c]

----------------------------------------------------------------------------
(* the source *)

\* Text, numbers, keys and depth of the JSON tree.
TreeAccepted(l) == "tree" \notin l
\* The nine slices, their order, their gates and the totals.
SlicesAccepted(l) == "slices" \notin l
\* Deliveries, classification, provenance and evidence documents of a slice.
EvidenceAccepted(l) == "evidence" \notin l
\* Runs and jobs of a slice: all of the release candidate, none of them twice.
RunsAccepted(l) == "runs" \notin l
\* The one artifact of a slice, published by a job of its primary run.
ArtifactsAccepted(l) == "artifacts" \notin l
\* No private key, path, address or secret anywhere.
PrivacyAccepted(l) == "privacy" \notin l
\* The digest the builder was released with.
DigestAccepted(l) == "pinned" \notin l

\* _parse_ledger_bytes, _validate_ledger and the digest, in their order.
LedgerError(l) ==
    IF ~TreeAccepted(l) \/ ~SlicesAccepted(l) \/ ~EvidenceAccepted(l)
       \/ ~RunsAccepted(l) \/ ~ArtifactsAccepted(l) THEN "ledger_invalid"
    ELSE IF ~PrivacyAccepted(l) THEN "privacy_contract_failed"
    ELSE IF ~DigestAccepted(l) THEN "ledger_contract_failed" ELSE None

\* _load_source_snapshot.
LoadSourceSnapshot(p) ==
    /\ pc[p] = "start"
    /\ snap' = [snap EXCEPT ![p] = head]
    /\ CASE dirty -> End(p, "source_not_clean")
         [] ~dirty /\ LedgerError(Ledger[head]) # None -> End(p, LedgerError(Ledger[head]))
         [] OTHER -> Go(p, "render")
    /\ UNCHANGED <<repo, lock, stage, output, recorded, at, faults, moves>>

\* _assert_source_unchanged: before the lock, before the manifest, at the end of
\* the publication and before success is returned.
SourceUnchanged(p) == head = snap[p] /\ ~dirty

\* The documents are functions of the ledger, the manifest names the commit.
Rendered(p) == [n \in Names |-> IF n = "manifest" THEN snap[p] ELSE Ledger[snap[p]]]

\* _validate_rendered_outputs: what was rendered is what the ledger says and
\* holds nothing private.
PublicDocumentsAccepted(p) == LedgerError(Rendered(p)["page"]) = None
RenderedAccepted(p) == DOMAIN Rendered(p) = Names /\ PublicDocumentsAccepted(p)

RenderBundle(p) ==
    /\ pc[p] = "render"
    /\ CASE ~RenderedAccepted(p) -> End(p, "bundle_contract_failed")
         [] RenderedAccepted(p) /\ ~SourceUnchanged(p) -> End(p, "source_changed")
         [] OTHER -> Go(p, "lock")
    /\ UNCHANGED <<repo, lock, stage, output, snap, recorded, at, faults, moves>>

----------------------------------------------------------------------------
(* publication *)

\* The lock file is created exclusively.
LockFree(p) == lock = None

\* _acquire_lock: a lock that could not be written completely stays, and is
\* nobody's for the builders after it.
AcquireLock(p) ==
    /\ pc[p] = "lock"
    /\ \E o \in Outcomes({"torn"}) :
        /\ Charge(o)
        /\ CASE LockFree(p) /\ o = "ok" -> lock' = p /\ Go(p, "look")
             [] LockFree(p) /\ o = "torn" -> lock' = Foreign /\ End(p, "cleanup_failed")
             [] ~LockFree(p) /\ lock = Foreign -> End(p, "workspace_unsafe") /\ UNCHANGED lock
             [] OTHER -> End(p, "build_in_progress") /\ UNCHANGED lock
    /\ UNCHANGED <<repo, stage, output, snap, recorded, at, moves>>

\* Mutant of SameBytes: membership is verified, the bytes are not compared.
SameBytesAssumed(p) == DOMAIN output.files = Names

\* _verify_existing_output: exactly the five files with the expected bytes.
SameBytes(p) == output.files = Rendered(p)

\* An existing output is verified, never replaced; otherwise the staging
\* directory is made.
LookAtWorkspace(p) ==
    /\ pc[p] = "look"
    /\ CASE stage # NoDir -> Fail(p, "workspace_unsafe") /\ UNCHANGED stage
         [] stage = NoDir /\ output # NoDir ->
              /\ UNCHANGED stage
              /\ CASE DOMAIN output.files # Names -> Fail(p, "workspace_not_owned")
                   [] DOMAIN output.files = Names /\ ~SameBytes(p) -> Fail(p, "bundle_contract_failed")
                   [] SameBytes(p) /\ ~SourceUnchanged(p) -> Fail(p, "source_changed")
                   [] OTHER -> Go(p, "cleanup")
         [] OTHER -> stage' = [by |-> p, files |-> <<>>] /\ Go(p, "stage")
    /\ UNCHANGED <<repo, lock, output, snap, recorded, at, faults, moves>>

\* _exclusive_write of the next file: "unread": it is written and the read back
\* fails, so that it is not recorded.
StageFile(p) ==
    /\ pc[p] = "stage"
    /\ LET n == OutputFilenames[at[p]] IN
       \E o \in Outcomes({"failed", "unread"}) :
        /\ Charge(o)
        /\ stage' = IF o = "failed" THEN stage
                    ELSE [stage EXCEPT !.files = [m \in DOMAIN @ \cup {n} |-> Rendered(p)[m]]]
        /\ IF o = "ok"
           THEN /\ recorded' = [recorded EXCEPT ![p].stage = @ \cup {n}]
                /\ at' = [at EXCEPT ![p] = IF @ = Len(OutputFilenames) THEN 1 ELSE @ + 1]
                /\ Go(p, IF at[p] = Len(OutputFilenames) THEN "mkout" ELSE "stage")
           ELSE Fail(p, "bundle_write_failed") /\ UNCHANGED <<recorded, at>>
    /\ UNCHANGED <<repo, lock, output, snap, moves>>

MakeOutput(p) ==
    /\ pc[p] = "mkout"
    /\ IF DOMAIN stage.files # Names THEN Fail(p, "unsafe_filesystem") /\ UNCHANGED output
       ELSE IF output # NoDir THEN Fail(p, "workspace_not_owned") /\ UNCHANGED output
            ELSE output' = [by |-> p, files |-> <<>>] /\ Go(p, "link")
    /\ UNCHANGED <<repo, lock, stage, snap, recorded, at, faults, moves>>

PublishOrder(i) == OutputFilenames[i]

\* The next file is linked; the source is checked before the manifest.
LinkFile(p) ==
    /\ pc[p] = "link"
    /\ LET n == PublishOrder(at[p]) IN
        IF n = "manifest" /\ ~SourceUnchanged(p) THEN Fail(p, "source_changed") /\ UNCHANGED output
        ELSE IF n \notin DOMAIN stage.files THEN Fail(p, "unsafe_filesystem") /\ UNCHANGED output
        ELSE IF n \in DOMAIN output.files THEN Fail(p, "workspace_unsafe") /\ UNCHANGED output
        ELSE /\ output' = [output EXCEPT !.files = [m \in DOMAIN @ \cup {n} |->
                              IF m = n THEN stage.files[n] ELSE @[m]]]
             /\ Go(p, "unlink")
    /\ UNCHANGED <<repo, lock, stage, snap, recorded, at, faults, moves>>

\* _read_bound_file of a published file: the second name may still be there, or
\* the file read is not the one linked.
ReadBack == Outcomes({"kept", "unread"})

\* The staged name is removed and the published file read back and recorded.
UnlinkStaged(p) ==
    /\ pc[p] = "unlink"
    /\ LET n == PublishOrder(at[p]) IN
       \E o \in ReadBack :
        /\ Charge(o)
        /\ stage' = IF o = "kept" THEN stage
                    ELSE [stage EXCEPT !.files = [m \in DOMAIN @ \ {n} |-> @[m]]]
        /\ IF o = "ok"
           THEN /\ recorded' = [recorded EXCEPT ![p].stage = @ \ {n}, ![p].output = @ \cup {n}]
                /\ at' = [at EXCEPT ![p] = @ + 1]
                /\ Go(p, IF at[p] = Len(OutputFilenames) THEN "verify" ELSE "link")
           ELSE Fail(p, "unsafe_filesystem") /\ UNCHANGED <<recorded, at>>
    /\ UNCHANGED <<repo, lock, output, snap, moves>>

\* The empty staging directory goes, the output is verified, the source checked.
VerifyPublished(p) ==
    /\ pc[p] = "verify"
    /\ IF DOMAIN stage.files # {} THEN Fail(p, "unsafe_filesystem") /\ UNCHANGED stage
       ELSE /\ stage' = NoDir
            /\ CASE ~SameBytes(p) -> Fail(p, "bundle_contract_failed")
                 [] SameBytes(p) /\ ~SourceUnchanged(p) -> Fail(p, "source_changed")
                 [] OTHER -> Go(p, "cleanup")
    /\ UNCHANGED <<repo, lock, output, snap, recorded, at, faults, moves>>

----------------------------------------------------------------------------
(* cleanup *)

\* _cleanup_owned_directory: nothing is removed from a directory that holds a
\* file the builder has not recorded; a file with two names is not removed.
Removable(p, d, known) == d.by # p \/ DOMAIN d.files \subseteq known

Linked(p, n) == n \in DOMAIN stage.files /\ n \in DOMAIN output.files /\ output.by = p

CleanStage(p) ==
    IF stage.by = p /\ Removable(p, stage, recorded[p].stage) /\ ~\E n \in Names : Linked(p, n)
    THEN NoDir ELSE stage

CleanOutput(p) == IF output.by = p /\ Removable(p, output, recorded[p].output) THEN NoDir ELSE output

\* After a failure the output and the staging directory go, in any case the lock.
Cleanup(p) ==
    /\ pc[p] = "cleanup"
    /\ \E o \in Outcomes({"failed"}) :
        LET failed == code[p] # None
            outOk == ~failed \/ output.by # p \/ Removable(p, output, recorded[p].output)
            stageOk == ~failed \/ stage.by # p \/ (Removable(p, stage, recorded[p].stage) /\ ~\E n \in Names : Linked(p, n))
        IN /\ Charge(o)
           /\ output' = IF failed THEN CleanOutput(p) ELSE output
           /\ stage' = IF failed THEN CleanStage(p) ELSE stage
           /\ lock' = IF lock = p /\ o = "ok" THEN None ELSE lock
           /\ IF ~outOk \/ ~stageOk \/ o # "ok" THEN End(p, "cleanup_failed")
              ELSE IF failed THEN End(p, code[p]) ELSE Go(p, "return")
    /\ UNCHANGED <<repo, snap, recorded, at, moves>>

\* _build: the source is checked once more after the lock is released.
Return(p) ==
    /\ pc[p] = "return"
    /\ End(p, IF SourceUnchanged(p) THEN "ok" ELSE "source_changed")
    /\ UNCHANGED <<repo, lock, stage, output, snap, recorded, at, faults, moves>>

----------------------------------------------------------------------------
(* what happens around the builders *)

Crash(p) ==
    /\ pc[p] \notin {"start", "done"} /\ faults < MaxFaults /\ faults' = faults + 1
    /\ End(p, "crashed")
    /\ UNCHANGED <<repo, lock, stage, output, snap, recorded, at, moves>>

Move ==
    /\ moves < MaxMoves /\ moves' = moves + 1
    /\ \/ head' \in Commits /\ UNCHANGED <<dirty, lock, stage, output>>
       \/ dirty' = ~dirty /\ UNCHANGED <<head, lock, stage, output>>
       \/ lock = None /\ lock' = Foreign /\ UNCHANGED <<repo, stage, output>>
       \/ stage = NoDir /\ stage' = [by |-> Foreign, files |-> <<>>] /\ UNCHANGED <<repo, lock, output>>
       \/ output = NoDir /\ output' = [by |-> Foreign, files |-> <<>>] /\ UNCHANGED <<repo, lock, stage>>
    /\ UNCHANGED <<pc, code, snap, recorded, at, faults>>

Next ==
    \/ \E p \in Builders :
        \/ LoadSourceSnapshot(p) \/ RenderBundle(p) \/ AcquireLock(p) \/ LookAtWorkspace(p)
        \/ StageFile(p) \/ MakeOutput(p) \/ LinkFile(p) \/ UnlinkStaged(p) \/ VerifyPublished(p)
        \/ Cleanup(p) \/ Return(p) \/ Crash(p)
    \/ Move

Spec == Init /\ [][Next]_vars

----------------------------------------------------------------------------
(* Properties *)

\* At most one builder works on the staging and output directories.
OneBuilder ==
    \A p, q \in Builders :
        {pc[p], pc[q]} \subseteq {"look", "stage", "mkout", "link", "unlink", "verify"} => p = q

\* A builder answers ok only when the output is complete, every byte of it
\* rendered from the commit it took, and that commit is still checked out clean.
OkIsCommitBound ==
    \A p \in Builders : code'[p] = "ok" /\ code[p] # "ok" =>
       output'.files = Rendered(p)' /\ head' = snap'[p] /\ ~dirty'

\* The manifest appears in the output only next to all the other files of the
\* same rendering: a crash leaves no marked and incomplete bundle.
ManifestIsLast ==
    ("manifest" \in DOMAIN output'.files /\ "manifest" \notin DOMAIN output.files) =>
       DOMAIN output'.files = Names

\* A builder that ends with any other code than cleanup_failed, and did not
\* crash, leaves no lock, no staging directory and no unfinished output behind.
FailureLeavesNothing ==
    \A p \in Builders : pc[p] = "done" /\ code[p] \notin {"cleanup_failed", "crashed"} =>
        lock # p /\ stage.by # p /\ (output.by = p => DOMAIN output.files = Names)
=============================================================================
