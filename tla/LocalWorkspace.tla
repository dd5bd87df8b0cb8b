--------------------------- MODULE LocalWorkspace ---------------------------
(* The marker-owned workspace of local_stack.py and its maintenance commands:  *)
(* init, reset, cold backup and restore, each an operating system process that *)
(* shares only the file system with the others.  backup and restore hold the   *)
(* lock file of the state directory they found; reset takes no lock and        *)
(* removes that directory, lock file and all.  Files are told apart by         *)
(* identity (device, inode, times), as the code does.                          *)
EXTENDS Naturals

CONSTANTS
    Procs,          \* command line processes
    Dests,          \* destination directories for backups
    Values,         \* logical contents of a database
    Corrupt,        \* contents that DuckDB cannot open
    None,           \* no such file
    WritersStopped, \* the runbook's precondition: nobody writes during maintenance
    MaxCommands,    \* bound: commands started
    MaxCrashes,     \* bound: processes killed
    MaxOutside,     \* bound: steps of other programs
    MaxIdentity     \* bound: file identities

\* What the constants must satisfy.
WorkspaceAssumption ==
    /\ Corrupt \notin Values /\ None \notin Values \cup {Corrupt} \cup Procs
    /\ WritersStopped \in BOOLEAN
    /\ MaxCommands \in Nat /\ MaxCrashes \in Nat /\ MaxOutside \in Nat /\ MaxIdentity \in Nat

Absent == [id |-> 0, db |-> None, sha |-> None, owner |-> None]
File(i, v) == [id |-> i, v |-> v]
NoFile == [id |-> 0, v |-> None]

\* A digest identifies the contents it was taken of.
Digest(v) == <<"sha256", v>>

VARIABLES
    marker,   \* the workspace is initialised and owned
    root,     \* the workspace root is there and not empty
    state,    \* identity of the state directory, 0 when absent
    database, \* main database file
    wal,      \* committed contents still in the write-ahead log, or None
    temp,     \* the restore temporary file of the state directory
    locks,    \* lock file of each state directory: its holder or None
    dirs,     \* published backup directories
    staging,  \* staging directory of each process
    proc,     \* program counter and local variables of each process
    seq,      \* next file identity
    commands, crashes, outside

vars == <<marker, root, state, database, wal, temp, locks, dirs, staging, proc, seq,
          commands, crashes, outside>>
bounds == <<commands, crashes, outside>>

Idle == [pc |-> "idle", dest |-> None, sha |-> None, dirId |-> 0, stateId |-> 0, dbId |-> 0,
         tempId |-> 0, stageId |-> 0, dbChild |-> None, out |-> "none"]

\* What a reader of the database sees: the log on top of the main file.
Logical == IF wal # None THEN wal ELSE database.v

Fresh == seq + 1

\* The marker of this stack is there and its directories are the workspace's own.
Owned == marker

\* The maintenance lock is a file of the state directory, taken without waiting.
LockFree == state # 0 /\ locks[state] = None
TakeLock(p) == locks' = [locks EXCEPT ![state] = p]

\* A backup is made only where nothing is.
DestinationFree(d) == dirs[d] = Absent

\* The state directory and the temporary file are the ones this process found or made.
SameState(p) == state = proc[p].stateId
OwnTemp(p) == proc[p].tempId # 0 /\ temp.id = proc[p].tempId

Init ==
    /\ marker = FALSE /\ root = FALSE /\ state = 0 /\ database = NoFile /\ wal = None /\ temp = NoFile
    /\ locks = [i \in 1..MaxIdentity |-> None]
    /\ dirs = [d \in Dests |-> Absent]
    /\ staging = [p \in Procs |-> Absent]
    /\ proc = [p \in Procs |-> Idle]
    /\ seq = 0 /\ commands = 0 /\ crashes = 0 /\ outside = 0

Go(p, r) == proc' = [proc EXCEPT ![p] = r]
Start(p) == proc[p].pc = "idle" /\ commands < MaxCommands /\ commands' = commands + 1
At(p, l) == proc[p].pc = l
Exit(p, outcome) == Go(p, [Idle EXCEPT !.out = outcome])
Unlock(p) == [i \in DOMAIN locks |-> IF locks[i] = p THEN None ELSE locks[i]]

----------------------------------------------------------------------------
(* init and reset *)

\* prepare_init on an empty or absent root: the two directories are created.
PrepareInit(p) ==
    /\ Start(p) /\ ~Owned /\ ~root /\ seq < MaxIdentity
    /\ root' = TRUE /\ state' = Fresh /\ seq' = Fresh
    /\ Go(p, [Idle EXCEPT !.pc = "init", !.stateId = Fresh])
    /\ UNCHANGED <<marker, database, wal, temp, locks, dirs, staging, crashes, outside>>

\* init of an initialised workspace keeps what is there; one that finds the
\* state directory just removed by reset makes it again.
InitAgain(p) ==
    /\ Start(p) /\ Owned /\ seq + 1 < MaxIdentity
    /\ IF state # 0
       THEN UNCHANGED <<state, database, seq>>
       ELSE /\ state' = Fresh /\ seq' = seq + 2
            /\ \E v \in Values : database' = File(seq + 2, v)
    /\ Exit(p, "initialized")
    /\ UNCHANGED <<marker, root, wal, temp, locks, dirs, staging, crashes, outside>>

\* prepare_init on entries without a marker: workspace_not_owned.
InitNotOwned(p) ==
    /\ Start(p) /\ ~Owned /\ root
    /\ Exit(p, "workspace_not_owned")
    /\ UNCHANGED <<marker, root, state, database, wal, temp, locks, dirs, staging, seq, crashes, outside>>

\* runtime.initialize created the database, commit_marker renames the marker in.
CommitInit(p) ==
    /\ At(p, "init") /\ seq < MaxIdentity
    /\ SameState(p)
    /\ \E v \in Values : database' = File(Fresh, v)
    /\ seq' = Fresh /\ marker' = TRUE
    /\ Exit(p, "initialized")
    /\ UNCHANGED <<root, state, wal, temp, locks, dirs, staging, commands, crashes, outside>>

\* initialize or commit_marker failed: rollback_uncommitted_init.
RollbackInit(p) ==
    /\ At(p, "init") /\ ~marker
    /\ root' = FALSE /\ state' = 0 /\ database' = NoFile /\ wal' = None /\ temp' = NoFile
    /\ Exit(p, "runtime_failed")
    /\ UNCHANGED <<marker, locks, dirs, staging, seq, commands, crashes, outside>>

\* reset --yes: rmtree of the state directory first ...
ResetState(p) ==
    /\ Start(p) /\ Owned
    /\ state' = 0 /\ database' = NoFile /\ wal' = None /\ temp' = NoFile
    /\ Go(p, [Idle EXCEPT !.pc = "reset"])
    /\ UNCHANGED <<marker, root, locks, dirs, staging, seq, crashes, outside>>

\* ... then the artifacts, the marker, and the root unless something is left in it.
ResetMarker(p) ==
    /\ At(p, "reset") /\ marker
    /\ marker' = FALSE /\ root' = (state # 0)
    /\ Exit(p, "reset")
    /\ UNCHANGED <<state, database, wal, temp, locks, dirs, staging, seq, bounds>>

ResetRaced(p) ==
    /\ At(p, "reset") /\ ~marker
    /\ Exit(p, "runtime_failed")
    /\ UNCHANGED <<marker, root, state, database, wal, temp, locks, dirs, staging, seq, bounds>>

----------------------------------------------------------------------------
(* backup *)

\* The destination is new, the non-blocking maintenance lock is free, the
\* database is there: the staging directory is made beside the destination.
StageBackup(p, d) ==
    /\ Start(p) /\ Owned /\ LockFree /\ seq < MaxIdentity
    /\ DestinationFree(d) /\ database # NoFile
    /\ TakeLock(p)
    /\ staging' = [staging EXCEPT ![p] = [Absent EXCEPT !.id = Fresh, !.owner = p]]
    /\ seq' = Fresh
    /\ Go(p, [Idle EXCEPT !.pc = "copy", !.dest = d, !.stageId = Fresh])
    /\ UNCHANGED <<marker, root, state, database, wal, temp, dirs, crashes, outside>>

\* workspace_busy, backup_exists, workspace_not_initialized: nothing was made.
BackupRefused(p, d) ==
    /\ Start(p)
    /\ ~(Owned /\ LockFree /\ DestinationFree(d) /\ database # NoFile)
    /\ Exit(p, "refused")
    /\ UNCHANGED <<marker, root, state, database, wal, temp, locks, dirs, staging, seq, crashes, outside>>

\* CHECKPOINT folds the log into the main file, COPY FROM DATABASE fills the
\* staged file, and its identity is captured.
CopyDatabase(p) ==
    /\ At(p, "copy") /\ database.v \notin {None, Corrupt} /\ staging[p].id = proc[p].stageId
    /\ database' = [database EXCEPT !.v = Logical] /\ wal' = None
    /\ staging' = [staging EXCEPT ![p].db = Logical]
    /\ Go(p, [proc[p] EXCEPT !.pc = "manifest", !.dbChild = Logical])
    /\ UNCHANGED <<marker, root, state, temp, locks, dirs, seq, bounds>>

\* The staged database is what was copied and nothing foreign is in the way.
StagedAsWritten(p) == /\ staging[p].id = proc[p].stageId /\ staging[p].owner = p
                      /\ staging[p].db = proc[p].dbChild

\* The manifest binds the staged file's digest.
WriteManifest(p) ==
    /\ At(p, "manifest") /\ StagedAsWritten(p)
    /\ staging' = [staging EXCEPT ![p].sha = Digest(proc[p].dbChild)]
    /\ Go(p, [proc[p] EXCEPT !.pc = "publish", !.sha = Digest(proc[p].dbChild)])
    /\ UNCHANGED <<marker, root, state, database, wal, temp, locks, dirs, seq, bounds>>

\* _load_and_verify_backup of a directory: exactly two files that agree.
Verifies(dir) == dir.db \notin {None, Corrupt} /\ dir.sha = Digest(dir.db)

\* A rename that refuses an existing target.
publish_directory_no_replace(p) ==
    /\ DestinationFree(proc[p].dest)
    /\ dirs' = [dirs EXCEPT ![proc[p].dest] = staging[p]]
    /\ staging' = [staging EXCEPT ![p] = Absent]

\* The staged directory verifies and is renamed into place.
PublishBackup(p) ==
    /\ At(p, "publish") /\ StagedAsWritten(p) /\ Verifies(staging[p])
    /\ publish_directory_no_replace(p)
    /\ locks' = Unlock(p)
    /\ Exit(p, "backed_up")
    /\ UNCHANGED <<marker, root, state, database, wal, temp, seq, bounds>>

\* Any failure before the rename: the children that are still the ones this
\* process wrote are removed, anything else is kept for inspection.
CleanupStaging(p) ==
    /\ proc[p].pc \in {"copy", "manifest", "publish"}
    /\ staging' = IF StagedAsWritten(p) THEN [staging EXCEPT ![p] = Absent] ELSE staging
    /\ locks' = Unlock(p) /\ Exit(p, "backup_failed")
    /\ UNCHANGED <<marker, root, state, database, wal, temp, dirs, seq, bounds>>

----------------------------------------------------------------------------
(* restore *)

\* The source verifies and has the manifest digest the operator passed; then
\* the lock, and the source is verified a second time.
VerifySource(p, d, sha) ==
    /\ Start(p) /\ Owned
    /\ Verifies(dirs[d]) /\ dirs[d].sha = sha
    /\ Go(p, [Idle EXCEPT !.pc = "lock", !.dest = d, !.sha = sha, !.dirId = dirs[d].id])
    /\ UNCHANGED <<marker, root, state, database, wal, temp, locks, dirs, staging, seq, crashes, outside>>

SourceRefused(p, d, sha) ==
    /\ Start(p)
    /\ ~Owned \/ ~Verifies(dirs[d]) \/ dirs[d].sha # sha
    /\ Exit(p, "refused")
    /\ UNCHANGED <<marker, root, state, database, wal, temp, locks, dirs, staging, seq, crashes, outside>>

\* The source is the directory that was verified, with the same manifest.
SameSource(p) == LET dir == dirs[proc[p].dest]
                 IN  dir.id = proc[p].dirId /\ dir.sha = proc[p].sha /\ dir.db # None

LockForRestore(p) ==
    /\ At(p, "lock") /\ Owned /\ LockFree
    /\ SameSource(p) /\ Verifies(dirs[proc[p].dest])
    /\ TakeLock(p)
    /\ Go(p, [proc[p] EXCEPT !.pc = "checkpoint", !.stateId = state])
    /\ UNCHANGED <<marker, root, state, database, wal, temp, dirs, staging, seq, bounds>>

\* Mutant of CheckpointCurrent: an unreadable log is dropped.
CheckpointDropping(p) ==
    /\ At(p, "checkpoint") /\ state # 0
    /\ database' = IF database.v = Corrupt THEN database ELSE [database EXCEPT !.v = Logical]
    /\ wal' = IF database.v = Corrupt THEN wal ELSE None
    /\ Go(p, [proc[p] EXCEPT !.pc = "copy_in", !.dbId = database.id])
    /\ UNCHANGED <<marker, root, state, temp, locks, dirs, staging, seq, bounds>>

\* _validate_database_sidecars where no log is allowed.
NoSidecar == wal = None

\* The current database is checkpointed; a corrupt one may be replaced, but
\* not one whose log cannot be folded in.  Equal contents end the command.
CheckpointCurrent(p) ==
    /\ At(p, "checkpoint") /\ state # 0
    /\ database.v = Corrupt => NoSidecar
    /\ database' = [database EXCEPT !.v = Logical] /\ wal' = None
    /\ IF Digest(database'.v) = proc[p].sha
       THEN Exit(p, "unchanged") /\ locks' = Unlock(p)
       ELSE /\ Go(p, [proc[p] EXCEPT !.pc = "copy_in", !.dbId = database.id])
            /\ UNCHANGED locks
    /\ UNCHANGED <<marker, root, state, temp, dirs, staging, seq, bounds>>

\* The backup's database is copied to the fixed-name temporary file, exclusive
\* creation, and the digest of what was copied compared with the manifest's.
CopyIn(p) ==
    /\ At(p, "copy_in") /\ seq < MaxIdentity
    /\ SameSource(p) /\ SameState(p) /\ temp = NoFile
    /\ Digest(dirs[proc[p].dest].db) = proc[p].sha
    /\ temp' = File(Fresh, dirs[proc[p].dest].db) /\ seq' = Fresh
    /\ Go(p, [proc[p] EXCEPT !.pc = "replace", !.tempId = Fresh])
    /\ UNCHANGED <<marker, root, state, database, wal, locks, dirs, staging, bounds>>

\* Same source, same state directory, same current database, same temporary
\* file: os.replace.
ReplaceDatabase(p) ==
    /\ At(p, "replace")
    /\ SameSource(p) /\ SameState(p) /\ database.id = proc[p].dbId
    /\ OwnTemp(p) /\ Digest(temp.v) = proc[p].sha
    /\ database' = temp /\ temp' = NoFile
    /\ Go(p, [proc[p] EXCEPT !.pc = "confirm"])
    /\ UNCHANGED <<marker, root, state, wal, locks, dirs, staging, seq, bounds>>

ConfirmRestore(p) ==
    /\ At(p, "confirm")
    /\ Exit(p, IF Digest(database.v) = proc[p].sha THEN "restored" ELSE "restore_failed")
    /\ locks' = Unlock(p)
    /\ UNCHANGED <<marker, root, state, database, wal, temp, dirs, staging, seq, bounds>>

\* Any failure on the way: only the temporary file this process created goes.
FailRestore(p) ==
    /\ proc[p].pc \in {"lock", "checkpoint", "copy_in", "replace"}
    /\ temp' = IF OwnTemp(p) THEN NoFile ELSE temp
    /\ locks' = Unlock(p) /\ Exit(p, "restore_failed")
    /\ UNCHANGED <<marker, root, state, database, wal, dirs, staging, seq, bounds>>

----------------------------------------------------------------------------
(* Faults and other programs *)

\* A process is killed: its lock goes, its files stay.
Kill(p) ==
    /\ proc[p].pc # "idle" /\ crashes < MaxCrashes
    /\ crashes' = crashes + 1
    /\ locks' = Unlock(p) /\ Exit(p, "killed")
    /\ UNCHANGED <<marker, root, state, database, wal, temp, dirs, staging, seq, commands, outside>>

Outside == outside < MaxOutside /\ outside' = outside + 1

\* A writer of the incident database commits; its log survives its exit.
LocalWriter ==
    /\ Outside /\ database # NoFile /\ database.v # Corrupt
    /\ WritersStopped => \A p \in Procs : proc[p].pc = "idle"
    /\ \E v \in Values : wal' = v
    /\ UNCHANGED <<marker, root, state, database, temp, locks, dirs, staging, proc, seq, commands, crashes>>

\* The main file is damaged between commands.
DamageDatabase ==
    /\ Outside /\ database # NoFile /\ \A p \in Procs : proc[p].pc = "idle"
    /\ database' = [database EXCEPT !.v = Corrupt]
    /\ UNCHANGED <<marker, root, state, wal, temp, locks, dirs, staging, proc, seq, commands, crashes>>

\* A backup's database file, or the whole directory, is exchanged.
ExchangeBackup(d) ==
    /\ Outside /\ dirs[d] # Absent /\ seq < MaxIdentity
    /\ \E v \in Values : \/ dirs' = [dirs EXCEPT ![d].db = v, ![d].owner = None]
                         \/ dirs' = [dirs EXCEPT ![d] = [id |-> Fresh, db |-> v, sha |-> Digest(v), owner |-> None]]
    /\ seq' = Fresh
    /\ UNCHANGED <<marker, root, state, database, wal, temp, locks, staging, proc, commands, crashes>>

\* A file of the staging directory is replaced by somebody else's.
ForeignStaging(p) ==
    /\ Outside /\ staging[p] # Absent
    /\ staging' = [staging EXCEPT ![p].owner = None]
    /\ UNCHANGED <<marker, root, state, database, wal, temp, locks, dirs, proc, seq, commands, crashes>>

Command(p) ==
    \/ PrepareInit(p) \/ InitAgain(p) \/ InitNotOwned(p) \/ ResetState(p)
    \/ \E d \in Dests : StageBackup(p, d) \/ BackupRefused(p, d)
    \/ \E d \in Dests, sha \in { Digest(v) : v \in Values } : VerifySource(p, d, sha) \/ SourceRefused(p, d, sha)

Continue(p) ==
    \/ CommitInit(p) \/ RollbackInit(p) \/ ResetMarker(p) \/ ResetRaced(p)
    \/ CopyDatabase(p) \/ WriteManifest(p) \/ PublishBackup(p) \/ CleanupStaging(p)
    \/ LockForRestore(p) \/ CheckpointCurrent(p) \/ CopyIn(p) \/ ReplaceDatabase(p) \/ ConfirmRestore(p)
    \/ FailRestore(p)

Next ==
    \/ \E p \in Procs : Command(p) \/ Continue(p) \/ Kill(p) \/ ForeignStaging(p)
    \/ LocalWriter \/ DamageDatabase \/ \E d \in Dests : ExchangeBackup(d)

Spec == Init /\ [][Next]_vars

----------------------------------------------------------------------------
(* Properties *)

\* A backup that some process published, and that nobody exchanged, is complete:
\* whatever was killed in between, restore can use it.
PublishedBackupVerifies == \A d \in Dests : dirs[d].owner # None => Verifies(dirs[d])

\* A published backup is never replaced by another backup command, not even
\* after reset and init gave the second command a different lock file.
BackupsAreNotReplaced ==
    \A d \in Dests : (dirs[d].owner # None /\ dirs'[d] # dirs[d]) => outside' # outside

\* Contents enter the database only from a writer's log, from init, or from a
\* backup with exactly the manifest digest the operator passed.
OnlyVerifiedContentsRestored ==
    database'.v # database.v =>
      \/ database'.v \in {Logical, None, Corrupt}
      \/ database = NoFile
      \/ \E p \in Procs : At(p, "replace") /\ Digest(database'.v) = proc[p].sha

\* The comment of restore: a log that cannot be checkpointed is never
\* discarded, so no database is put under the log of another one.
LogIsNeverOrphaned ==
    \A p \in Procs : (At(p, "replace") /\ proc'[p].pc = "confirm") => wal = None

\* Clean-up removes only what this invocation created: foreign staging files
\* and the temporary file of a killed restore are kept (reset excepted).
ForeignFilesAreKept ==
    /\ \A p \in Procs : (staging[p] # Absent /\ staging[p].owner = None)
                         => ((staging'[p].owner = None /\ staging'[p] # Absent) \/ At(p, "idle"))
    /\ (temp # NoFile /\ \A p \in Procs : proc[p].tempId # temp.id)
         => (temp' = temp \/ state' = 0)
=============================================================================
