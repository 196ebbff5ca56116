---------------------------- MODULE BackupRestore ----------------------------
(***************************************************************************)
(* BackupRestoreService.restore (src/data/backup-restore.ts): the data files*)
(* of the application are replaced by the files of a backup that preview()  *)
(* has staged, or put back when something fails on the way.                 *)
(*                                                                          *)
(* restore() is one synchronous function, but every line of it is an        *)
(* operation of the file system that may throw, and the process may die     *)
(* between any two.  It runs once in the life of a process: the application *)
(* closes its data layer first and is relaunched afterwards                 *)
(* (requestBackupRestore in src/electron/main.ts).                          *)
(***************************************************************************)
EXTENDS Naturals, Sequences

Files == {"db", "wal", "shm", "trusted", "cache"}

\* What a path holds: nothing, the data from before the restore, the data of
\* the backup, a directory just made, a directory half deleted.
Content == {"none", "old", "new", "empty", "part"}

Step(do, file) == [do |-> do, file |-> file]

\* restore() as it is written: what each stretch does, in which order.
Script ==
    [copy |-> <<Step("copy", "db"), Step("copy", "wal"), Step("copy", "shm"),
                Step("copy", "trusted"), Step("copy", "cache")>>,
     move |-> <<Step("move", "db"), Step("move", "wal"), Step("move", "shm"),
                Step("move", "trusted"), Step("move", "cache")>>,
     install |-> <<Step("install", "db"), Step("install", "trusted"),
                   Step("install", "cache"), Step("validate", "db")>>,
     clean |-> <<Step("forget", "db"), Step("forget", "wal"),
                 Step("forget", "shm"), Step("forget", "trusted"),
                 Step("forget", "cache"), Step("unstage", "db")>>,
     rollback |-> <<Step("uninstall", "cache"), Step("return", "cache"),
                    Step("uninstall", "trusted"), Step("return", "trusted"),
                    Step("uninstall", "db"), Step("return", "db"),
                    Step("return", "wal"), Step("return", "shm"),
                   Step("unstage", "db")>>]

\* How restore() ended: "refused" BACKUP_PRE_RESTORE_FAILED, "failed"
\* BACKUP_RESTORE_FAILED, "abandoned" an error thrown by the rollback itself.
Ended == {"done", "refused", "failed", "abandoned", "crashed"}

VARIABLES
    before,     \* the application's files when restore() is called
    live,       \* the application's files
    prev,       \* <file>.restore-previous-<id>
    copy,       \* the pre-restore backup
    stage,      \* the staged files of the backup
    cached,     \* includeCache
    moved,      \* the flags old...Moved
    installed,  \* the flags new...Installed
    phase,      \* a stretch of Script, or how it ended
    n,          \* the step of the stretch that is next
    failedIn    \* the stretch whose failure started the rollback

restoreVars == <<before, live, prev, copy, stage, cached, moved, installed,
                 phase, n, failedIn>>

Nothing == [f \in Files |-> "none"]

\* The database is there, the rest may be; the backup has a database, and a
\* cache only if it was made with one.
RestoreInit ==
    /\ before \in {l \in [Files -> {"none", "old"}] : l["db"] = "old"}
    /\ live = before
    /\ prev = Nothing
    /\ copy = Nothing
    /\ cached \in BOOLEAN
    /\ \E trusted, cache \in {"none", "new"} :
          /\ cache = "new" => cached
          /\ stage = [Nothing EXCEPT !["db"] = "new", !["trusted"] = trusted,
                                     !["cache"] = cache]
    /\ moved = {} /\ installed = {}
    /\ phase = "copy" /\ n = 1
    /\ failedIn = "none"

-----------------------------------------------------------------------------
NextPhase == [copy |-> "move", move |-> "install", install |-> "clean",
              clean |-> "done", rollback |-> "failed"]

Running == phase \notin Ended

Current == Script[phase][n]

Does(do) == Running /\ Current.do = do

Advance ==
    IF n < Len(Script[phase]) THEN n' = n + 1 /\ UNCHANGED phase
    ELSE n' = 1 /\ phase' = NextPhase[phase]

\* The cache takes part only if the backup has one.
TakesPart(f) == f # "cache" \/ cached

\* A bug: the protective copy leaves the cache out.
MutCopies ==
    /\ Does("copy")
    /\ LET f == Current.file IN
       copy' = IF f # "cache" /\ live[f] # "none"
               THEN [copy EXCEPT ![f] = live[f]] ELSE copy
    /\ Advance
    /\ UNCHANGED <<before, live, prev, stage, cached, moved, installed, failedIn>>

\* createPreRestoreBackup: copyIfFile, copyEntry.
Copies ==
    /\ Does("copy")
    /\ LET f == Current.file IN
       copy' = IF TakesPart(f) /\ live[f] # "none"
               THEN [copy EXCEPT ![f] = live[f]] ELSE copy
    /\ Advance
    /\ UNCHANGED <<before, live, prev, stage, cached, moved, installed, failedIn>>

\* A bug: the write-ahead log stays where it is.
MutMoves ==
    /\ Does("move")
    /\ LET f == Current.file IN
       IF TakesPart(f) /\ live[f] # "none" /\ f # "wal"
       THEN /\ live' = [live EXCEPT ![f] = "none"]
            /\ prev' = [prev EXCEPT ![f] = live[f]]
            /\ moved' = moved \cup {f}
       ELSE UNCHANGED <<live, prev, moved>>
    /\ Advance
    /\ UNCHANGED <<before, copy, stage, cached, installed, failedIn>>

\* moveIfExists aside, and the flag.
Moves ==
    /\ Does("move")
    /\ LET f == Current.file IN
       IF TakesPart(f) /\ live[f] # "none"
       THEN /\ live' = [live EXCEPT ![f] = "none"]
            /\ prev' = [prev EXCEPT ![f] = live[f]]
            /\ moved' = moved \cup {f}
       ELSE UNCHANGED <<live, prev, moved>>
    /\ Advance
    /\ UNCHANGED <<before, copy, stage, cached, installed, failedIn>>

\* renameSync of a staged file; a cache that is not there becomes a directory.
Installs ==
    /\ Does("install")
    /\ LET f == Current.file IN
       IF stage[f] # "none" \/ (f = "cache" /\ cached)
       THEN /\ live' = [live EXCEPT ![f] = IF stage[f] = "none" THEN "empty"
                                           ELSE stage[f]]
            /\ stage' = [stage EXCEPT ![f] = "none"]
            /\ installed' = installed \cup {f}
       ELSE UNCHANGED <<live, stage, installed>>
    /\ Advance
    /\ UNCHANGED <<before, prev, copy, cached, moved, failedIn>>

\* validateDatabaseFile found the installed database sound.
Validates ==
    /\ Does("validate")
    /\ Advance
    /\ UNCHANGED <<before, live, prev, copy, stage, cached, moved, installed,
                   failedIn>>

\* removePath of what was moved aside, then of the staging directory; the
\* rollback ends with the staging directory too.
Cleans ==
    /\ \/ /\ Does("forget")
          /\ prev' = [prev EXCEPT ![Current.file] = "none"]
          /\ UNCHANGED stage
       \/ /\ Does("unstage")
          /\ stage' = Nothing
          /\ UNCHANGED prev
    /\ Advance
    /\ UNCHANGED <<before, live, copy, cached, moved, installed, failedIn>>

\* A bug: the trust file is removed where it was installed, not put back.
MutReturns ==
    /\ Does("return")
    /\ LET f == Current.file IN
       IF f \in moved \ installed /\ prev[f] # "none"
       THEN /\ live' = [live EXCEPT ![f] = prev[f]]
            /\ prev' = [prev EXCEPT ![f] = "none"]
       ELSE UNCHANGED <<live, prev>>
    /\ Advance
    /\ UNCHANGED <<before, copy, stage, cached, moved, installed, failedIn>>

\* The rollback: what was installed is removed ...
Uninstalls ==
    /\ Does("uninstall")
    /\ live' = IF Current.file \in installed
               THEN [live EXCEPT ![Current.file] = "none"] ELSE live
    /\ Advance
    /\ UNCHANGED <<before, prev, copy, stage, cached, moved, installed, failedIn>>

\* ... and what was moved aside comes back.
Returns ==
    /\ Does("return")
    /\ LET f == Current.file IN
       IF f \in moved /\ prev[f] # "none"
       THEN /\ live' = [live EXCEPT ![f] = prev[f]]
            /\ prev' = [prev EXCEPT ![f] = "none"]
       ELSE UNCHANGED <<live, prev>>
    /\ Advance
    /\ UNCHANGED <<before, copy, stage, cached, moved, installed, failedIn>>

-----------------------------------------------------------------------------
(* An operation throws. *)

\* The protective copy is given up: nothing was touched.
CopyThrows ==
    /\ phase = "copy"
    /\ copy' = Nothing
    /\ phase' = "refused" /\ n' = 1
    /\ UNCHANGED <<before, live, prev, stage, cached, moved, installed, failedIn>>

\* The catch of restore.  A directory may have been deleted in part.
RestoreThrows ==
    /\ phase \in {"move", "install", "clean"}
    /\ \/ UNCHANGED prev
       \/ /\ Current = Step("forget", "cache") /\ prev["cache"] # "none"
          /\ prev' = [prev EXCEPT !["cache"] = "part"]
    /\ phase' = "rollback" /\ n' = 1
    /\ failedIn' = phase
    /\ UNCHANGED <<before, live, copy, stage, cached, moved, installed>>

\* A throw in the catch: its finally removes the staging directory, or throws
\* as well.
RollbackThrows ==
    /\ phase = "rollback"
    /\ \/ UNCHANGED live
       \/ /\ Current = Step("uninstall", "cache") /\ "cache" \in installed
          /\ live' = [live EXCEPT !["cache"] = "part"]
    /\ phase' = "abandoned" /\ n' = 1
    /\ stage' \in {stage, Nothing}
    /\ UNCHANGED <<before, prev, copy, cached, moved, installed, failedIn>>

\* The process dies between two operations; nothing cleans up after it.
Crash ==
    /\ Running
    /\ phase' = "crashed" /\ n' = 1
    /\ UNCHANGED <<before, live, prev, copy, stage, cached, moved, installed,
                   failedIn>>

RestoreNext ==
    \/ Copies \/ Moves \/ Installs \/ Validates \/ Cleans
    \/ Uninstalls \/ Returns
    \/ CopyThrows \/ RestoreThrows \/ RollbackThrows
    \/ Crash

RestoreSpec == RestoreInit /\ [][RestoreNext]_restoreVars

-----------------------------------------------------------------------------
(* Properties. *)

\* Every variable has its type, and n is a step of the stretch.
RestoreTypeOK ==
    /\ before \in [Files -> Content] /\ live \in [Files -> Content]
    /\ prev \in [Files -> Content] /\ copy \in [Files -> Content]
    /\ stage \in [Files -> Content]
    /\ cached \in BOOLEAN
    /\ moved \in SUBSET Files /\ installed \in SUBSET Files
    /\ phase \in Ended \cup DOMAIN Script
    /\ failedIn \in {"none", "move", "install", "clean"}
    /\ n \in 1..(IF Running THEN Len(Script[phase]) ELSE 1)

\* Whatever fails and wherever the process dies, every file the application
\* had is still somewhere on the disk: in place, moved aside, or in the
\* pre-restore backup.
OldRecoverable ==
    \A f \in Files : before[f] = "old" => "old" \in {live[f], prev[f], copy[f]}

\* The database of the backup never lies beside the write-ahead log of the
\* old one, which SQLite would replay into it.
NoForeignWal == live["db"] = "new" => live["wal"] # "old" /\ live["shm"] # "old"

\* A restore that fails before it begins to delete the old files, and whose
\* rollback does not fail in turn, leaves exactly what there was.
RollbackRestores ==
    (phase = "failed" /\ failedIn # "clean") => live = before

\* A restore that succeeds replaced everything the backup covers: nothing old
\* is mixed in, and nothing lies around.
DoneIsReplaced ==
    phase = "done" =>
        /\ live["db"] = "new" /\ live["wal"] = "none" /\ live["shm"] = "none"
        /\ live["trusted"] \in {"none", "new"}
        /\ IF cached THEN live["cache"] \in {"new", "empty"}
           ELSE live["cache"] = before["cache"]
        /\ prev = Nothing /\ stage = Nothing

\* A restore is one thing or the other: all of it, or nothing.
RestoreIsAtomic == RollbackRestores /\ DoneIsReplaced

-----------------------------------------------------------------------------
(* What the code says, and does not do. *)

\* The message of BACKUP_RESTORE_FAILED: "Restore failed and the previous
\* state was retained".
FailureRetains == phase = "failed" => live = before
=============================================================================
