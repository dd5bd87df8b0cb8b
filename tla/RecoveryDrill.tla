---------------------------- MODULE RecoveryDrill ----------------------------
(* tools/local-stack/run_backup_restore_demo.py: the drill that runs a branch    *)
(* to its end, backs the workspace up, resets and initialises it again, has a    *)
(* corrupted copy of the backup rejected, restores the backup twice, removes     *)
(* everything it made and only then publishes its report.  Directories are told  *)
(* apart by identity; other programs may put directories under the same names    *)
(* at any time, and the stack may fail or answer what is not so.                 *)
EXTENDS Naturals, Sequences

CONSTANTS
    None,
    MaxFaults,  \* bound: children that fail or answer wrongly, failed removals and writes
    MaxOutside, \* bound: directories of other programs
    MaxIdentity \* bound: directory identities

\* The codes the body of the drill fails with.
Failures == {"command_failed", "recovery_contract_failed", "cleanup_failed"}

\* What the constants must satisfy.
DrillAssumption ==
    MaxFaults \in Nat /\ MaxOutside \in Nat /\ MaxIdentity \in Nat /\ None \notin Failures

Names == {"run", "ws", "bak", "cor"}
Gone == [id |-> 0, own |-> FALSE, db |-> None]
Program == <<"branch", "backup", "reset", "init", "reject", "restore", "retry">>

VARIABLES
    dir,       \* what is under each name: identity, whether the drill or its child made it, contents
    known,     \* the identity the drill remembers for each name, 0 when it has none
    pc, k,     \* place in the program, stage of Program
    ans,       \* answer of the last child
    base,      \* lifecycle projection of the branch
    fresh,     \* digest of the fresh database before the rejection
    err, cleanupErr, outcome,
    published,
    seen,      \* what really happened: contents at the backup, after the rejection, the restore and the retry
    seq, faults, outside

vars == <<dir, known, pc, k, ans, base, fresh, err, cleanupErr, outcome, published, seen, seq, faults, outside>>

NoAnswer == [st |-> "none", id |-> 0, changed |-> FALSE]

Init ==
    /\ dir = [n \in Names |-> Gone] /\ known = [n \in Names |-> 0]
    /\ pc = "mkrun" /\ k = 1 /\ ans = NoAnswer
    /\ base = None /\ fresh = None
    /\ err = None /\ cleanupErr = FALSE /\ outcome = "none" /\ published = FALSE
    /\ seen = [s \in {"backup", "reject", "restore", "retry"} |-> None]
    /\ seq = 0 /\ faults = 0 /\ outside = 0

Stage == Program[k]
Outcomes(bad) == {"ok"} \cup (IF faults < MaxFaults THEN bad ELSE {})
Charge(o) == faults' = IF o = "ok" THEN faults ELSE faults + 1
Made(i, db) == [id |-> i, own |-> TRUE, db |-> db]

\* _plain_directory_identity against the one remembered at creation.
Owned(n) == known[n] # 0 /\ dir[n].id = known[n]
WorkspaceOwned == Owned("run") /\ Owned("ws")

Fail(code) == err' = code /\ pc' = "cleanWs"

----------------------------------------------------------------------------
CreateRunDirectory ==
    /\ pc = "mkrun" /\ seq < MaxIdentity
    /\ IF dir["run"].id # 0
       THEN /\ outcome' = "report_write_failed" /\ pc' = "done"
            /\ UNCHANGED <<dir, known, seq>>
       ELSE /\ seq' = seq + 1 /\ pc' = "mkws"
            /\ dir' = [dir EXCEPT !["run"] = Made(seq', None)]
            /\ known' = [known EXCEPT !["run"] = seq']
            /\ UNCHANGED outcome
    /\ UNCHANGED <<k, ans, base, fresh, err, cleanupErr, published, seen, faults, outside>>

\* _create_workspace_directory, before the branch and again after the reset.
CreateWorkspaceDirectory ==
    /\ pc = "mkws" /\ seq < MaxIdentity
    /\ IF Owned("run") /\ dir["ws"].id = 0
       THEN /\ seq' = seq + 1 /\ pc' = "pre"
            /\ dir' = [dir EXCEPT !["ws"] = Made(seq', None)]
            /\ known' = [known EXCEPT !["ws"] = seq']
            /\ UNCHANGED err
       ELSE Fail("recovery_contract_failed") /\ UNCHANGED <<dir, known, seq>>
    /\ UNCHANGED <<k, ans, base, fresh, cleanupErr, outcome, published, seen, faults, outside>>

\* ensure_workspace_owned before a child is started; the digest of the fresh
\* database is taken before the corrupt copy is offered.
BeforeChild ==
    /\ pc = "pre"
    /\ IF WorkspaceOwned
       THEN pc' = "child" /\ UNCHANGED err
       ELSE Fail("recovery_contract_failed")
    /\ fresh' = IF Stage = "reject" THEN dir["ws"].db ELSE fresh
    /\ UNCHANGED <<dir, known, k, ans, base, cleanupErr, outcome, published, seen, seq, faults, outside>>

\* The local stack refuses a workspace without its marker, verifies a backup
\* before it restores it and copies nothing from one that does not verify.
\* "failed": the child stops before or after its effect.  "wrong": it answers
\* success, or the expected rejection, over other contents.
StackChild(o, done) ==
    LET w == dir["ws"]
        b == dir["bak"]
        usable == w.own
        put(db) == dir' = [dir EXCEPT !["ws"] = [w EXCEPT !.db = db]]
        say(st, id, changed) == ans' = [st |-> st, id |-> id, changed |-> changed]
        status == IF o = "failed" \/ ~usable THEN "failed" ELSE "ok"
    IN CASE ~usable -> say("failed", 0, FALSE) /\ UNCHANGED <<dir, seq>>
         [] usable /\ Stage = "branch" ->
              /\ IF done THEN put("terminal") ELSE UNCHANGED dir
              /\ say(status, 0, FALSE) /\ UNCHANGED seq
         [] usable /\ Stage = "init" ->
              /\ IF done THEN put("fresh") ELSE UNCHANGED dir
              /\ say(status, 0, FALSE) /\ UNCHANGED seq
         [] usable /\ Stage = "backup" ->
              IF done /\ b.id = 0
              THEN /\ seq' = seq + 1
                   /\ dir' = [dir EXCEPT !["bak"] = Made(seq', w.db)]
                   /\ say(status, seq', TRUE)
              ELSE say("failed", 0, FALSE) /\ UNCHANGED <<dir, seq>>
         [] usable /\ Stage = "reset" ->
              /\ dir' = IF done THEN [dir EXCEPT !["ws"] = Gone] ELSE dir
              /\ say(status, 0, FALSE) /\ UNCHANGED seq
         [] usable /\ Stage = "reject" ->
              /\ IF o = "wrong" THEN put("corrupt") ELSE UNCHANGED dir
              /\ \E st \in IF o = "wrong" THEN {"ok", "rejected"} ELSE {"rejected"} :
                    say(IF o = "failed" THEN "failed" ELSE st, 0, FALSE)
              /\ UNCHANGED seq
         [] OTHER ->
              /\ IF b.id = 0 \/ b.db # seen["backup"]
                 THEN say("failed", 0, FALSE) /\ UNCHANGED dir
                 ELSE /\ IF o = "wrong" THEN put("fresh") ELSE IF done THEN put(b.db) ELSE UNCHANGED dir
                      /\ say(status, 0, Stage = "restore" /\ (o = "wrong" \/ w.db # b.db))
              /\ UNCHANGED seq

RunChild ==
    /\ pc = "child" /\ seq < MaxIdentity
    /\ \E o \in Outcomes({"failed", "wrong"}), done \in BOOLEAN :
        /\ o = "ok" => done
        /\ o = "wrong" => done /\ Stage \in {"reject", "restore", "retry"}
        /\ StackChild(o, done)
        /\ Charge(o)
        /\ pc' = "post"
        /\ seen' = CASE Stage = "backup" /\ ans'.st = "ok" -> [seen EXCEPT !["backup"] = dir'["bak"].db]
                     [] Stage \in {"reject", "restore", "retry"} -> [seen EXCEPT ![Stage] = dir'["ws"].db]
                     [] OTHER -> seen
    /\ UNCHANGED <<known, k, base, fresh, err, cleanupErr, outcome, published, outside>>

\* Mutant of Accepted: only the answers are looked at, not the file system.
AcceptedByAnswer ==
    CASE Stage = "reject" -> ans.st = "rejected"
      [] Stage = "restore" -> ans.st = "ok" /\ ans.changed
      [] Stage = "retry" -> ans.st = "ok" /\ ~ans.changed
      [] Stage = "backup" -> ans.st = "ok" /\ dir["bak"].id = ans.id
      [] OTHER -> ans.st = "ok"

\* What each stage demands of the answer and of the file system.
Accepted ==
    CASE Stage = "backup" -> ans.st = "ok" /\ dir["bak"].id = ans.id
      [] Stage = "reject" -> ans.st = "rejected" /\ dir["ws"].db = fresh
      [] Stage = "restore" -> ans.st = "ok" /\ ans.changed /\ dir["ws"].db = base
      [] Stage = "retry" -> ans.st = "ok" /\ ~ans.changed /\ dir["ws"].db = base /\ Owned("bak")
      [] OTHER -> ans.st = "ok"

NextStage == k' = k + 1 /\ UNCHANGED err /\ pc' = CASE Stage = "reset" -> "mkws"
                                                    [] Stage = "init" -> "corrupt"
                                                    [] Stage = "retry" -> "cleanWs"
                                                    [] OTHER -> "pre"

AfterChild ==
    /\ pc = "post" /\ Stage # "reset"
    /\ IF ~WorkspaceOwned \/ ~Accepted
       THEN /\ Fail(IF WorkspaceOwned /\ ans.st = "failed" /\ Stage # "reject"
                    THEN "command_failed" ELSE "recovery_contract_failed")
            /\ UNCHANGED <<k, base, known>>
       ELSE /\ NextStage
            /\ base' = IF Stage = "branch" THEN dir["ws"].db ELSE base
            /\ known' = IF Stage = "backup" THEN [known EXCEPT !["bak"] = dir["bak"].id] ELSE known
    /\ UNCHANGED <<dir, ans, fresh, cleanupErr, outcome, published, seen, seq, faults, outside>>

AfterReset ==
    /\ pc = "post" /\ Stage = "reset"
    /\ CASE ans.st = "failed" -> Fail("command_failed") /\ UNCHANGED <<k, known>>
         [] ans.st # "failed" /\ ~Owned("run") -> Fail("recovery_contract_failed") /\ UNCHANGED <<k, known>>
         [] ans.st # "failed" /\ Owned("run") /\ dir["ws"].id # 0 -> Fail("cleanup_failed") /\ UNCHANGED <<k, known>>
         [] OTHER -> NextStage /\ known' = [known EXCEPT !["ws"] = 0]
    /\ UNCHANGED <<dir, ans, base, fresh, cleanupErr, outcome, published, seen, seq, faults, outside>>

\* _copy_corrupt_backup: a failure may leave a directory nobody remembers.
CopyCorruptBackup ==
    /\ pc = "corrupt" /\ seq < MaxIdentity
    /\ \E o \in Outcomes({"before", "after"}) :
        /\ Charge(o)
        /\ IF WorkspaceOwned /\ Owned("bak") /\ dir["cor"].id = 0 /\ o # "before"
           THEN /\ seq' = seq + 1
                /\ dir' = [dir EXCEPT !["cor"] = Made(seq', "corrupt")]
                /\ IF o = "ok" THEN /\ pc' = "pre" /\ known' = [known EXCEPT !["cor"] = seq'] /\ UNCHANGED err
                   ELSE Fail("recovery_contract_failed") /\ UNCHANGED known
           ELSE Fail("recovery_contract_failed") /\ UNCHANGED <<dir, known, seq>>
    /\ UNCHANGED <<k, ans, base, fresh, cleanupErr, outcome, published, seen, outside>>

----------------------------------------------------------------------------
(* the finally block and the report *)

CleanWorkspace ==
    /\ pc = "cleanWs"
    /\ IF dir["ws"].id = 0
       THEN cleanupErr' = ~Owned("run") /\ UNCHANGED <<dir, faults>>
       ELSE IF ~WorkspaceOwned \/ ~dir["ws"].own
            THEN cleanupErr' = TRUE /\ UNCHANGED <<dir, faults>>
            ELSE \E o \in Outcomes({"failed"}), done \in BOOLEAN :
                    /\ o = "ok" => done
                    /\ Charge(o)
                    /\ dir' = IF done THEN [dir EXCEPT !["ws"] = Gone] ELSE dir
                    /\ cleanupErr' = (o # "ok")
    /\ pc' = "cleanBak"
    /\ UNCHANGED <<known, k, ans, base, fresh, err, outcome, published, seen, seq, outside>>

\* _remove_backup_directory: only a tree whose identity is the remembered one.
RemoveOwned(n) == Owned(n)

RemoveBackup(n) ==
    /\ pc = IF n = "bak" THEN "cleanBak" ELSE "cleanCor"
    /\ \E o \in Outcomes({"failed"}) :
        /\ o # "ok" => dir[n].id # 0
        /\ Charge(o)
        /\ dir' = IF RemoveOwned(n) /\ dir[n].id # 0 /\ o = "ok" THEN [dir EXCEPT ![n] = Gone] ELSE dir
        /\ cleanupErr' = (cleanupErr \/ dir'[n].id # 0)
    /\ pc' = IF n = "bak" THEN "cleanCor" ELSE "final"
    /\ UNCHANGED <<known, k, ans, base, fresh, err, outcome, published, seen, seq, outside>>

\* _remove_owned_empty_directory of the run directory.
Empty == \A n \in {"ws", "bak", "cor"} : dir[n].id = 0
RemoveRun == dir' = IF Owned("run") /\ Empty THEN [dir EXCEPT !["run"] = Gone] ELSE dir

\* Mutant of Verdict: the first error is reported.
VerdictFirstError ==
    IF err # None THEN err
    ELSE IF cleanupErr THEN "cleanup_failed"
    ELSE IF ~Empty THEN "recovery_contract_failed" ELSE None

\* A failed cleanup is the outcome whatever happened before it.
Verdict ==
    IF cleanupErr THEN "cleanup_failed"
    ELSE IF err # None THEN err
    ELSE IF ~Empty THEN "recovery_contract_failed" ELSE None

Finish ==
    /\ pc = "final"
    /\ IF Verdict = None
       THEN pc' = "write" /\ UNCHANGED <<dir, outcome>>
       ELSE /\ pc' = "done" /\ outcome' = Verdict
            /\ IF Verdict = "cleanup_failed" \/ err = None THEN UNCHANGED dir ELSE RemoveRun
    /\ UNCHANGED <<known, k, ans, base, fresh, err, cleanupErr, published, seen, seq, faults, outside>>

WriteReport ==
    /\ pc = "write"
    /\ \E o \in Outcomes({"failed"}) :
        /\ Charge(o)
        /\ IF Owned("run") /\ Empty /\ o = "ok"
           THEN published' = TRUE /\ outcome' = "OK" /\ UNCHANGED dir
           ELSE outcome' = "report_write_failed" /\ RemoveRun /\ UNCHANGED published
    /\ pc' = "done"
    /\ UNCHANGED <<known, k, ans, base, fresh, err, cleanupErr, seen, seq, outside>>

\* Another program puts a directory under one of the names, whatever was there;
\* with the run directory everything in it goes.
Plant(n) ==
    /\ pc # "done" /\ outside < MaxOutside /\ seq < MaxIdentity
    /\ n # "run" => dir["run"].id # 0
    /\ outside' = outside + 1 /\ seq' = seq + 1
    /\ dir' = [m \in Names |->
                 IF m = n THEN [id |-> seq', own |-> FALSE, db |-> "foreign"]
                 ELSE IF n = "run" THEN Gone ELSE dir[m]]
    /\ UNCHANGED <<known, pc, k, ans, base, fresh, err, cleanupErr, outcome, published, seen, faults>>

Next ==
    \/ CreateRunDirectory \/ CreateWorkspaceDirectory \/ BeforeChild \/ RunChild
    \/ AfterChild \/ AfterReset \/ CopyCorruptBackup
    \/ CleanWorkspace \/ RemoveBackup("bak") \/ RemoveBackup("cor") \/ Finish \/ WriteReport
    \/ \E n \in Names : Plant(n)

Spec == Init /\ [][Next]_vars

----------------------------------------------------------------------------
(* Properties *)

\* A published report proves a recovery: what was restored, once and again, is
\* what was backed up, the rejected copy changed nothing, and nothing of the
\* drill is left under its names.
ReportProvesRecovery ==
    published =>
        /\ seen["backup"] = "terminal"
        /\ seen["restore"] = seen["backup"] /\ seen["retry"] = seen["backup"]
        /\ seen["reject"] = "fresh"
        /\ Empty /\ Owned("run")

\* The drill never removes or changes a directory it did not create.
ForeignDirectoriesKept ==
    outside' = outside =>
      \A n \in Names : dir[n].id # 0 /\ ~dir[n].own => dir'[n] = dir[n]

\* A drill that ends with one of its own directories left behind ends in
\* cleanup_failed, whatever else went wrong before.
LeftoverIsCleanupFailed ==
    pc = "done" /\ (\E n \in {"ws", "bak", "cor"} : dir[n].own) => outcome = "cleanup_failed"
=============================================================================
