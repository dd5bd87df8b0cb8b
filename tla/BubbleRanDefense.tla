--------------------------- MODULE BubbleRanDefense ---------------------------
(* tools/local-stack/run_bubbleran_defense_demo.py: generated records are        *)
(* replayed under a persistent checkpoint, replayed again from the reopened      *)
(* checkpoint, driven through the four governance branches and replayed a third  *)
(* time past the checkpoint.  Only then is the work tree captured and removed,   *)
(* and the report published.  A run that fails leaves everything where it is.    *)
(* The served application may lose or repeat an effect or answer what is not so; *)
(* other programs may touch the tree.                                            *)
EXTENDS Naturals, Sequences, FiniteSets, Functions

CONSTANTS
    None,
    MaxFaults, \* bound: effects lost or repeated, wrong answers, failed steps
    MaxOutside \* bound: steps of other programs

\* What the constants must satisfy.
BubbleRanAssumption ==
    MaxFaults \in Nat /\ MaxOutside \in Nat /\ None \notin {"OK", "cleanup_failed", "report_write_failed"}

\* The four branches, one for each generated record, in the order they are run.
Order == <<"pass", "fail", "reject", "expire">>
Branches == Range(Order)
Terminal == [pass |-> "RESOLVED", fail |-> "REOPENED", reject |-> "REJECTED", expire |-> "FAILED"]
Runs == [pass |-> 1, fail |-> 1, reject |-> 0, expire |-> 0]

VARIABLES
    pc, todo,   \* place of the runner, branches still to be governed
    cases,      \* branch -> its canonical case: status, action runs, source associations
    checkpoint, \* records the persisted checkpoint counts as settled
    late,       \* the mutable clock has passed the approval's expiry
    before,     \* _business_counts before the bypass
    governed,   \* the cases read after the governance
    work,       \* root of the work tree ("none", "own", "foreign") and its files
    captured, exit, faults, outside

vars == <<pc, todo, cases, checkpoint, late, before, governed, work, captured, exit, faults, outside>>

\* The generated records, their catalogue and their download, and the database.
OwnFiles == {"own"}
NoCase == [status |-> None, runs |-> 0, links |-> 0]
NoWork == [root |-> "none", files |-> {}]

Init ==
    /\ pc = "mkwork" /\ todo = Order /\ cases = [b \in Branches |-> NoCase]
    /\ checkpoint = 0 /\ late = FALSE /\ before = None /\ governed = None
    /\ work = NoWork /\ captured = {} /\ exit = None /\ faults = 0 /\ outside = 0

Outcomes(bad) == {"ok"} \cup (IF faults < MaxFaults THEN bad ELSE {})
Charge(o) == faults' = IF o = "ok" THEN faults ELSE faults + 1

\* The handlers of main: the code is printed, nothing is cleaned up.
Fail(code) == exit' = code /\ pc' = "done"

\* mkdir of the work directory; the fixture, the catalogue, the lab and the
\* initialised database are its files.
MakeWork ==
    /\ pc = "mkwork"
    /\ \E o \in Outcomes({"failed"}) :
        /\ Charge(o)
        /\ IF work.root # "none" THEN Fail("contract_failed") /\ UNCHANGED work
           ELSE /\ work' = [root |-> "own", files |-> OwnFiles]
                /\ IF o = "ok" THEN pc' = "first" /\ UNCHANGED exit ELSE Fail("command_failed")
    /\ UNCHANGED <<todo, cases, checkpoint, late, before, governed, captured, outside>>

----------------------------------------------------------------------------
(* the served application *)

\* A replayed record opens its case or finds it by its source event; a settled
\* case is found as well.  "twice": the association is recorded again.
Ingest(c, o) ==
    IF c.links = 0 THEN [status |-> "DETECTED", runs |-> 0, links |-> 1]
    ELSE IF o = "twice" THEN [c EXCEPT !.links = @ + 1] ELSE c

\* One branch of the governance: prepare, decide, and execute unless rejected.
\* An approval that has expired runs nothing.  "twice" repeats the action,
\* "stale" runs it although the approval has expired.
Govern(b, o) ==
    LET expired == b = "expire" /\ o # "stale"
        n == IF o = "twice" THEN 2 ELSE 1
    IN [cases[b] EXCEPT
          !.status = IF b = "expire" /\ o = "stale" THEN "RESOLVED" ELSE Terminal[b],
          !.runs = IF b = "reject" \/ expired THEN 0 ELSE n]

----------------------------------------------------------------------------
(* the scenario *)

\* run_persistent_paced_replay on a new checkpoint: a record counts as settled
\* once it is acknowledged; the first failure ends the replay.
FirstReplay ==
    /\ pc = "first"
    /\ \E o \in Outcomes({"lost"}), S \in SUBSET Branches :
        /\ Charge(o)
        /\ o = "ok" => S = Branches
        /\ o = "lost" => S # Branches
        /\ cases' = [b \in Branches |-> IF b \in S THEN Ingest(cases[b], "ok") ELSE cases[b]]
        /\ checkpoint' = Cardinality(S)
        /\ IF S = Branches THEN pc' = "reopen" /\ UNCHANGED exit ELSE Fail("contract_failed")
    /\ UNCHANGED <<todo, late, before, governed, work, captured, outside>>

\* The reopened checkpoint selects nothing; "resent": it was not persisted and
\* every record is sent again.
ReopenedReplay ==
    /\ pc = "reopen"
    /\ \E o \in Outcomes({"resent"}) :
        /\ Charge(o)
        /\ IF o = "ok" /\ checkpoint = Cardinality(Branches)
           THEN pc' = "govern" /\ UNCHANGED exit ELSE Fail("contract_failed")
    /\ UNCHANGED <<todo, cases, checkpoint, late, before, governed, work, captured, outside>>

\* The expiry branch comes last: moving the clock expires every approval.
GovernBranch(b) ==
    /\ pc = "govern" /\ todo # <<>> /\ b = Head(todo)
    /\ \E o \in Outcomes({"refused", "twice", "stale"}) :
        /\ Charge(o)
        /\ cases' = IF o = "refused" THEN cases ELSE [cases EXCEPT ![b] = Govern(b, o)]
        /\ late' = (b = "expire")
        /\ todo' = Tail(todo)
        /\ IF o = "refused" \/ cases'[b].status # Terminal[b]
           THEN Fail("contract_failed") ELSE UNCHANGED <<pc, exit>>
    /\ UNCHANGED <<checkpoint, before, governed, work, captured, outside>>

Counts(cs) == [b \in Branches |-> cs[b].links]

\* The persisted cases, read again: statuses, action runs, verification runs.
GovernedAsExpected(cs) == \A b \in Branches : cs[b].status = Terminal[b] /\ cs[b].runs = Runs[b]

ReadGoverned ==
    /\ pc = "govern" /\ todo = <<>>
    /\ governed' = cases /\ before' = Counts(cases)
    /\ IF GovernedAsExpected(cases) THEN pc' = "bypass" /\ UNCHANGED exit ELSE Fail("contract_failed")
    /\ UNCHANGED <<todo, cases, checkpoint, late, work, captured, faults, outside>>

\* The counts and the cases are those read before the bypass.
NothingChanged == Counts(cases') = before /\ cases' = governed

\* run_paced_replay without a checkpoint: every record is delivered again.
BypassReplay ==
    /\ pc = "bypass"
    /\ \E o \in Outcomes({"twice", "lost"}) :
        /\ Charge(o)
        /\ \E b \in Branches : cases' = [x \in Branches |-> Ingest(cases[x], IF x = b THEN o ELSE "ok")]
        /\ IF o # "lost" /\ NothingChanged /\ \A b \in Branches : before[b] = 1
           THEN pc' = "capture" /\ UNCHANGED exit ELSE Fail("contract_failed")
    /\ UNCHANGED <<todo, checkpoint, late, before, governed, work, captured, outside>>

----------------------------------------------------------------------------
(* cleanup and report *)

\* _capture_owned_tree, only after the scenario has succeeded.
CaptureOwnedTree ==
    /\ pc = "capture"
    /\ captured' = work.files
    /\ IF work.root = "own" THEN pc' = "remove" /\ UNCHANGED exit ELSE Fail("cleanup_failed")
    /\ UNCHANGED <<todo, cases, checkpoint, late, before, governed, work, faults, outside>>

\* The second capture has the signature of the first.
SameTree == work.root = "own" /\ work.files = captured

RemoveCapturedTree ==
    /\ pc = "remove"
    /\ \E o \in Outcomes({"failed"}) :
        /\ Charge(o)
        /\ IF SameTree /\ o = "ok" THEN work' = NoWork /\ pc' = "write" /\ UNCHANGED exit
           ELSE /\ Fail("cleanup_failed")
                /\ \E D \in SUBSET captured :
                      work' = IF SameTree THEN [work EXCEPT !.files = @ \ D] ELSE work
    /\ UNCHANGED <<todo, cases, checkpoint, late, before, governed, captured, outside>>

\* _validate_run_contents, _write_report, and the report read again.
WriteReport ==
    /\ pc = "write"
    /\ \E o \in Outcomes({"failed"}) :
        /\ Charge(o)
        /\ IF work.root = "none" /\ o = "ok" THEN Fail("OK") ELSE Fail("report_write_failed")
    /\ UNCHANGED <<todo, cases, checkpoint, late, before, governed, work, captured, outside>>

\* Another program replaces the work tree or puts a file in it.
Outside ==
    /\ pc # "done" /\ outside < MaxOutside /\ outside' = outside + 1
    /\ \/ work' = [root |-> "foreign", files |-> {"foreign"}]
       \/ work.root = "own" /\ work' = [work EXCEPT !.files = @ \cup {"foreign"}]
    /\ UNCHANGED <<pc, todo, cases, checkpoint, late, before, governed, captured, exit, faults>>

Next ==
    \/ MakeWork \/ FirstReplay \/ ReopenedReplay \/ (\E b \in Branches : GovernBranch(b))
    \/ ReadGoverned \/ BypassReplay \/ CaptureOwnedTree \/ RemoveCapturedTree
    \/ WriteReport \/ Outside

Spec == Init /\ [][Next]_vars

----------------------------------------------------------------------------
(* Properties *)

\* A published report is true: every record has one case with one association,
\* each branch ended as claimed, two actions ran in all, none of them under an
\* expired approval, and the work tree is gone.
ReportIsTrue ==
    exit = "OK" =>
        /\ \A b \in Branches : cases[b] = [status |-> Terminal[b], runs |-> Runs[b], links |-> 1]
        /\ checkpoint = Cardinality(Branches)
        /\ work.root # "own"

\* A third replay of settled cases that left another association behind is not
\* reported as a bypass without business effect.
BypassIsWithoutEffect ==
    exit \in {"OK", "cleanup_failed", "report_write_failed"} =>
        \A b \in Branches : cases[b].links = 1 /\ cases[b].status = governed[b].status

\* A file that arrived after the tree was captured stays, and a run whose
\* scenario or report fails removes nothing more.
NothingUnknownRemoved ==
    outside' = outside =>
      /\ work.files \ work'.files \subseteq captured
      /\ work.root = "foreign" => work' = work
      /\ exit' \notin {None, "OK", "cleanup_failed"} => work.files \subseteq work'.files
=============================================================================
