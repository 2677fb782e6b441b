------------------------------- MODULE Installer -------------------------------
(***************************************************************************)
(* The Windows installer (installer/installer.go, platform_windows.go).    *)
(* An installation unpacks its payload beside the target directory, renames *)
(* the old directory to a backup and the unpacked one into its place,       *)
(* writes the registry entry and the shortcuts, and on an error renames the *)
(* backup back.  An uninstallation that runs from the directory it removes  *)
(* leaves the removal to a script that waits for the process to end, for at *)
(* most 20 seconds.  The mutex of an Installer is one process's: installers *)
(* started twice run at once.                                               *)
(* A directory is abstracted to the version in it and whether it is whole.  *)
(***************************************************************************)
CONSTANTS
  Procs,      \* the installers, each named by the version it carries
  None

VARIABLES
  dir,        \* the installation directory
  saved,      \* saved[p]: the backup of the installation p
  staging,    \* staging[p]: what p has unpacked: None, "part" or its version
  registry,   \* the version of the uninstall entry
  removal,    \* the processes whose removal script waits
  pc,         \* what each installer does
  told,       \* the result last reported
  base,       \* the directory when the last operation began
  owned,      \* an installation was reported and no uninstallation followed
  disturbed   \* a crash, a failed removal or renaming back, two at once
vars == <<dir, saved, staging, registry, removal, pc, told, base, owned,
          disturbed>>

\* "part" has not been unpacked to the end, "torn" not removed to the end.
Dirs == [ver : Procs, is : {"whole", "part", "torn"}]
\* What the constants must satisfy; the MC module assumes it.
NoneAssumption == None \notin Procs \cup Dirs /\ "part" \notin Procs

IsWhole(d) == d # None /\ d.is = "whole"
Idle == \A p \in Procs : pc[p] = "idle"

Init ==
  /\ dir = None /\ registry = None /\ removal = {}
  /\ saved = [p \in Procs |-> None]
  /\ staging = [p \in Procs |-> None]
  /\ pc = [p \in Procs |-> "idle"]
  /\ told = None /\ base = None /\ owned = FALSE /\ disturbed = FALSE

Goto(p, l) == pc' = [pc EXCEPT ![p] = l]
At(p, l) == pc[p] = l
\* Two processes at work, or a script that waits while something is installed.
Meets == disturbed' = IF ~Idle \/ removal # {} THEN TRUE ELSE disturbed

\* What os.RemoveAll leaves of d: nothing, or a part if a file is in use.
Removed(d) == {None} \cup (IF d = None THEN {} ELSE {[ver |-> d.ver, is |-> "torn"]})

-------------------------------------------------------------------------------
BeginInstall(p) ==
  /\ At(p, "idle") /\ Goto(p, "prepare") /\ Meets
  /\ told' = None /\ base' = dir
  /\ UNCHANGED <<dir, saved, staging, registry, removal, owned>>

\* The hash is right and the temporary directory exists.
MakeStaging(p) ==
  /\ At(p, "prepare") /\ Goto(p, "extract")
  /\ staging' = [staging EXCEPT ![p] = "part"]
  /\ UNCHANGED <<dir, saved, registry, removal, told, base, owned, disturbed>>

Extract(p) ==
  /\ At(p, "extract") /\ Goto(p, "stop")
  /\ staging' = [staging EXCEPT ![p] = p]
  /\ UNCHANGED <<dir, saved, registry, removal, told, base, owned, disturbed>>

StopProcess(p) ==
  /\ At(p, "stop") /\ Goto(p, "backup")
  /\ UNCHANGED <<dir, saved, staging, registry, removal, told, base, owned,
                 disturbed>>

Backup(p) ==
  /\ At(p, "backup") /\ Goto(p, "place")
  /\ saved' = [saved EXCEPT ![p] = dir] /\ dir' = None
  /\ UNCHANGED <<staging, registry, removal, told, base, owned, disturbed>>

\* Until the old directory is moved, an error only drops what was unpacked.
Fail(p) ==
  /\ pc[p] \in {"prepare", "extract", "stop", "backup"} /\ Goto(p, "idle")
  /\ staging' = [staging EXCEPT ![p] = None] /\ told' = "failed"
  /\ UNCHANGED <<dir, saved, registry, removal, base, owned, disturbed>>

\* On Windows a directory is not renamed onto another.
Place(p) ==
  /\ At(p, "place") /\ Goto(p, "info")
  /\ dir = None
  /\ dir' = [ver |-> p, is |-> IF staging[p] = "part" THEN "part" ELSE "whole"]
  /\ staging' = [staging EXCEPT ![p] = None]
  /\ UNCHANGED <<saved, registry, removal, told, base, owned, disturbed>>

WriteUninstallInfo(p) ==
  /\ At(p, "info") /\ Goto(p, "shortcuts") /\ registry' = p
  /\ UNCHANGED <<dir, saved, staging, removal, told, base, owned, disturbed>>

CreateShortcuts(p) ==
  /\ At(p, "shortcuts") /\ Goto(p, "finish")
  /\ UNCHANGED <<dir, saved, staging, registry, removal, told, base, owned,
                 disturbed>>

\* If the backup is in use it stays, under a name that nothing reads.
Finish(p) ==
  /\ At(p, "finish") /\ Goto(p, "idle")
  /\ saved' = [saved EXCEPT ![p] = None]
  /\ told' = "installed" /\ owned' = TRUE
  /\ UNCHANGED <<dir, staging, registry, removal, base, disturbed>>

-------------------------------------------------------------------------------
\* rollbackInstall, whose errors are ignored.
RollbackRemoves(p) ==
  /\ pc[p] \in {"place", "info", "shortcuts"} /\ Goto(p, "restore")
  /\ \E d \in Removed(dir) :
       dir' = d /\ disturbed' = IF d # None THEN TRUE ELSE disturbed
  /\ UNCHANGED <<saved, staging, registry, removal, told, base, owned>>

\* Mutant: the backup is not renamed back.
RollbackForgets(p) ==
  /\ At(p, "restore") /\ Goto(p, "idle")
  /\ saved' = [saved EXCEPT ![p] = None]
  /\ staging' = [staging EXCEPT ![p] = None] /\ told' = "failed"
  /\ UNCHANGED <<dir, disturbed, registry, removal, base, owned>>

RollbackRestores(p) ==
  /\ At(p, "restore") /\ Goto(p, "idle")
  /\ \/ /\ dir = None /\ dir' = saved[p]
        /\ UNCHANGED disturbed
     \/ saved[p] # None /\ disturbed' = TRUE /\ UNCHANGED dir
     \/ saved[p] = None /\ UNCHANGED <<dir, disturbed>>
  /\ saved' = [saved EXCEPT ![p] = None]
  /\ staging' = [staging EXCEPT ![p] = None] /\ told' = "failed"
  /\ UNCHANGED <<registry, removal, base, owned>>

-------------------------------------------------------------------------------
BeginUninstall(p) ==
  /\ At(p, "idle") /\ Goto(p, "unlink") /\ Meets
  /\ told' = None /\ base' = dir
  /\ UNCHANGED <<dir, saved, staging, registry, removal, owned>>

\* An error of StopProcess is ignored, one of the shortcuts is not.
RemoveShortcuts(p) ==
  /\ At(p, "unlink") /\ Goto(p, "unlist")
  /\ UNCHANGED <<dir, saved, staging, registry, removal, told, base, owned,
                 disturbed>>

RemoveUninstallInfo(p) ==
  /\ At(p, "unlist") /\ Goto(p, "remove") /\ registry' = None
  /\ UNCHANGED <<dir, saved, staging, removal, told, base, owned, disturbed>>

UninstallFails(p) ==
  /\ pc[p] \in {"unlink", "unlist"} /\ Goto(p, "idle") /\ told' = "kept"
  /\ UNCHANGED <<dir, saved, staging, registry, removal, base, owned, disturbed>>

RemoveInstallDir(p) ==
  /\ At(p, "remove") /\ Goto(p, "idle") /\ owned' = FALSE
  /\ \E d \in Removed(dir) :
       /\ dir' = d /\ disturbed' = IF d # None THEN TRUE ELSE disturbed
       /\ told' = IF d = None THEN "uninstalled" ELSE "kept"
  /\ UNCHANGED <<saved, staging, registry, removal, base>>

ScheduleRemoval(p) ==
  /\ At(p, "remove") /\ Goto(p, "idle") /\ owned' = FALSE
  /\ dir # None /\ removal' = removal \cup {p} /\ told' = "uninstalled"
  /\ UNCHANGED <<dir, saved, staging, registry, base, disturbed>>

\* The process has ended, or the 20 seconds have.
RemoveScheduled(p) ==
  /\ p \in removal /\ removal' = removal \ {p}
  /\ \E d \in Removed(dir) :
       dir' = d /\ disturbed' = IF d # None THEN TRUE ELSE disturbed
  /\ UNCHANGED <<saved, staging, registry, pc, told, base, owned>>

\* A process that is killed leaves its directories.
Crash(p) ==
  /\ ~At(p, "idle") /\ Goto(p, "idle") /\ disturbed' = TRUE
  /\ saved' = [saved EXCEPT ![p] = None] /\ staging' = [staging EXCEPT ![p] = None]
  /\ told' = None
  /\ UNCHANGED <<dir, registry, removal, base, owned>>

Next ==
  \E p \in Procs :
    \/ BeginInstall(p) \/ MakeStaging(p) \/ Extract(p) \/ StopProcess(p) \/ Backup(p)
    \/ Fail(p) \/ Place(p) \/ WriteUninstallInfo(p) \/ CreateShortcuts(p) \/ Finish(p)
    \/ RollbackRemoves(p) \/ RollbackRestores(p)
    \/ BeginUninstall(p) \/ RemoveShortcuts(p) \/ RemoveUninstallInfo(p)
    \/ UninstallFails(p) \/ RemoveInstallDir(p) \/ ScheduleRemoval(p)
    \/ RemoveScheduled(p) \/ Crash(p)

Spec == Init /\ [][Next]_vars

-------------------------------------------------------------------------------
TypeOK ==
  /\ dir \in Dirs \cup {None}
  /\ saved \in [Procs -> Dirs \cup {None}]
  /\ staging \in [Procs -> Procs \cup {None, "part"}]
  /\ registry \in Procs \cup {None}
  /\ removal \subseteq Procs
  /\ pc \in [Procs -> {"idle", "prepare", "extract", "stop", "backup", "place", "info",
                       "shortcuts", "finish", "restore", "unlink", "unlist", "remove"}]
  /\ told \in {None, "installed", "failed", "uninstalled", "kept"}
  /\ base \in Dirs \cup {None} /\ owned \in BOOLEAN /\ disturbed \in BOOLEAN

\* An installation that fails gives back the directory it found, whichever step
\* failed (installer.go: the comment before the backup; rollbackInstall).
FailureRestores == ~disturbed /\ Idle /\ told = "failed" => dir = base

\* Once an installation was reported, the program is in its place whenever no
\* installer works, whatever failed since, until it is uninstalled.
InstalledIsThere == ~disturbed /\ Idle /\ owned => IsWhole(dir)

\* What is in the directory was unpacked to the end, even if installers are
\* killed or run at once: unpacking happens elsewhere (installer.go: the comment
\* before the staging).
DirIsWhole == dir # None => dir.is # "part"

\* Not so: the entry of the registry is not taken back by a rollback, so it can
\* name a version, or a directory, that is not there (installer.go:
\* writeSystemIntegration, rollbackInstall).
RegistryFollows ==
  ~disturbed /\ Idle /\ removal = {} =>
    registry = IF dir = None THEN None ELSE dir.ver

\* Not so: a script that still waits removes what a new installation has put in
\* the directory (platform_windows.go: scheduleDirectoryRemoval).
InstalledStays == Idle /\ told = "installed" => IsWhole(dir)
===============================================================================
