------------------------------ MODULE MacHelper -------------------------------
(***************************************************************************)
(* Installing, restarting and removing the helper of macOS                 *)
(* (pkg/macoshelperctl/manager.go), which the command line and the desktop *)
(* program both do as root, and the life of the helper                     *)
(* (desktop/internal/macoshelper/server_darwin.go) under launchd.  A call  *)
(* is a sequence of commands and file operations; it may fail or be killed *)
(* between two of them, and nothing keeps two calls apart.  The helper     *)
(* runs at load and is kept alive, as its property list says.              *)
(***************************************************************************)
EXTENDS FiniteSets

CONSTANTS
  Versions,   \* helper binaries: of the application and of the package
  Callers,    \* processes that call the manager
  None        \* no file, no process, nothing reported

\* What the constants must satisfy; the MC module assumes it.
NoneAssumption == None \notin Versions /\ "part" \notin Versions \cup {None}

VARIABLES
  helper,     \* HelperPath: a binary, "part" of one, or None
  plist,      \* LaunchDaemonPath is there
  dir,        \* SocketDirectory is there
  socket,     \* SocketPath: "none", "live", or "stale" without a listener
  loaded,     \* launchd has the service
  proc,       \* the helper's process: its binary and whether it listens
  call,       \* call[c]: what a caller is at
  told        \* history: what the last call reported; None if it failed, if
              \* calls overlapped, or if a bootout had no effect

files == <<helper, plist, dir>>
service == <<socket, loaded, proc>>
vars == <<files, service, call, told>>

Off == [version |-> None, listens |-> FALSE]
Idle == [op |-> "none", pc |-> "idle", version |-> None, clean |-> TRUE]
Report == [op : {"install", "restart", "uninstall"}, version : Versions \cup {None}]
Steps == {"idle", "bootout", "copy", "rename", "plist", "mkdir", "bootstrap", "kickstart",
          "rmsocket", "rmhelper", "rmplist", "rmdir"}

TypeOK ==
  /\ helper \in Versions \cup {"part", None} /\ plist \in BOOLEAN /\ dir \in BOOLEAN
  /\ socket \in {"none", "live", "stale"} /\ loaded \in BOOLEAN
  /\ proc \in [version : Versions \cup {"part", None}, listens : BOOLEAN]
  /\ call \in [Callers -> [op : {"none", "install", "restart", "uninstall"}, pc : Steps,
                           version : Versions \cup {None}, clean : BOOLEAN]]
  /\ told \in Report \cup {None}

Init ==
  /\ helper = None /\ plist = FALSE /\ dir = FALSE
  /\ socket = "none" /\ loaded = FALSE /\ proc = Off
  /\ call = [c \in Callers |-> Idle]
  /\ told = None

-------------------------------------------------------------------------------
At(c, pc) == call[c].pc = pc
Go(c, pc) == call' = [call EXCEPT ![c] = [op |-> @.op, pc |-> pc, version |-> @.version,
                                         clean |-> @.clean]]
Alone == \A c \in Callers : At(c, "idle")

\* The process is told to end, and removes its socket, or it is killed.
ProcEnds ==
  /\ proc' = Off
  /\ socket' \in IF proc.listens THEN {"none", "stale"} ELSE {socket}

\* The manager's checks are over: it runs as root on macOS and has found its
\* resources.
Begin(c, op, version) ==
  /\ At(c, "idle")
  /\ op # "install" => version = None
  /\ call' = [d \in Callers |->
       IF d = c THEN [op |-> op, pc |-> "bootout", version |-> version, clean |-> Alone]
       ELSE [op |-> call[d].op, pc |-> call[d].pc, version |-> call[d].version,
             clean |-> FALSE]]
  /\ told' = None
  /\ UNCHANGED <<files, service>>

After(c) ==
  CASE call[c].op = "install" -> "copy"
    [] call[c].op = "restart" -> "bootstrap"
    [] call[c].op = "uninstall" -> "rmsocket"

\* The result of bootout is not looked at: a service that is not loaded is fine.
Bootout(c) ==
  /\ At(c, "bootout")
  /\ loaded' = FALSE
  /\ ProcEnds
  /\ Go(c, After(c))
  /\ UNCHANGED <<files, told>>

BootoutFails(c) ==
  /\ At(c, "bootout") /\ loaded
  /\ call' = [call EXCEPT ![c] = [op |-> @.op, pc |-> After(c), version |-> @.version,
                                  clean |-> FALSE]]
  /\ UNCHANGED <<files, service, told>>

\* Mutant: the target is written in place.
CopyInPlace(c) ==
  /\ At(c, "copy")
  /\ helper' = "part"
  /\ Go(c, "rename")
  /\ UNCHANGED <<plist, dir, service, told>>

\* copyRegularFile: a temporary file, renamed when it is complete.
Copy(c) ==
  /\ At(c, "copy")
  /\ Go(c, "rename")
  /\ UNCHANGED <<files, service, told>>

Rename(c) ==
  /\ At(c, "rename")
  /\ helper' = call[c].version
  /\ Go(c, "plist")
  /\ UNCHANGED <<plist, dir, service, told>>

WritePlist(c) ==
  /\ At(c, "plist")
  /\ plist' = TRUE
  /\ Go(c, "mkdir")
  /\ UNCHANGED <<helper, dir, service, told>>

MakeDirectory(c) ==
  /\ At(c, "mkdir")
  /\ dir' = TRUE
  /\ Go(c, "bootstrap")
  /\ UNCHANGED <<helper, plist, service, told>>

\* launchd refuses a service that it has, and one without a property list.
Bootstrap(c) ==
  /\ At(c, "bootstrap") /\ ~loaded /\ plist
  /\ loaded' = TRUE
  /\ Go(c, "kickstart")
  /\ UNCHANGED <<files, socket, proc, told>>

\* A call that ends with success reports what it did.
End(c) ==
  /\ call' = [call EXCEPT ![c] = Idle]
  /\ told' = IF call[c].clean THEN [op |-> call[c].op, version |-> call[c].version] ELSE None

\* enable, and kickstart -k: the process is started anew.
Kickstart(c) ==
  /\ At(c, "kickstart") /\ loaded /\ helper # None
  /\ proc' = [version |-> helper, listens |-> FALSE]
  /\ socket' \in IF proc.listens THEN {"none", "stale"} ELSE {socket}
  /\ End(c)
  /\ UNCHANGED <<files, loaded>>

\* Uninstall looks at no result at all.
RemoveSocket(c) ==
  /\ At(c, "rmsocket")
  /\ socket' = "none"
  /\ Go(c, "rmhelper")
  /\ UNCHANGED <<files, loaded, proc, told>>

RemoveHelper(c) ==
  /\ At(c, "rmhelper")
  /\ helper' = None
  /\ Go(c, "rmplist")
  /\ UNCHANGED <<plist, dir, service, told>>

RemovePlist(c) ==
  /\ At(c, "rmplist")
  /\ plist' = FALSE
  /\ Go(c, "rmdir")
  /\ UNCHANGED <<helper, dir, service, told>>

\* A directory with a socket in it stays.
RemoveDirectory(c) ==
  /\ At(c, "rmdir")
  /\ dir' = IF socket = "none" THEN FALSE ELSE dir
  /\ End(c)
  /\ UNCHANGED <<helper, plist, service>>

\* A command or file operation fails and the call returns its error, or the
\* process is killed: after 90 seconds its commands are.
Fail(c) ==
  /\ ~At(c, "idle")
  /\ call' = [call EXCEPT ![c] = Idle]
  /\ told' = None
  /\ UNCHANGED <<files, service>>

-------------------------------------------------------------------------------
\* launchd runs what is at HelperPath.
Launch ==
  /\ loaded /\ proc = Off /\ helper # None
  /\ proc' = [version |-> helper, listens |-> FALSE]
  /\ UNCHANGED <<files, socket, loaded, call, told>>

\* RunServer: the directory is made, an old socket removed, a new one opened.
Listen ==
  /\ proc.version \in Versions /\ ~proc.listens
  /\ dir' = TRUE /\ socket' = "live"
  /\ proc' = [version |-> proc.version, listens |-> TRUE]
  /\ UNCHANGED <<helper, plist, loaded, call, told>>

ProcExits ==
  /\ proc # Off
  /\ ProcEnds
  /\ UNCHANGED <<files, loaded, call, told>>

\* The run directory is emptied, and launchd loads what has a property list.
Reboot ==
  /\ dir' = FALSE /\ socket' = "none" /\ proc' = Off
  /\ loaded' = plist
  /\ call' = [c \in Callers |-> Idle]
  /\ told' = IF Alone THEN told ELSE None
  /\ UNCHANGED <<helper, plist>>

Next ==
  \/ \E c \in Callers :
       \/ \E op \in {"install", "restart", "uninstall"}, v \in Versions \cup {None} :
            (op = "install" => v # None) /\ Begin(c, op, v)
       \/ Bootout(c) \/ BootoutFails(c) \/ Copy(c) \/ Rename(c) \/ WritePlist(c)
       \/ MakeDirectory(c) \/ Bootstrap(c) \/ Kickstart(c) \/ RemoveSocket(c)
       \/ RemoveHelper(c) \/ RemovePlist(c) \/ RemoveDirectory(c) \/ Fail(c)
  \/ Launch \/ Listen \/ ProcExits \/ Reboot

Spec == Init /\ [][Next]_vars

-------------------------------------------------------------------------------
\* What launchd may start is a whole binary at any moment, whatever is killed
\* when (copyRegularFile).
FilesAreWhole == helper # "part" /\ proc.version # "part"

\* After a reported installation the installed binary runs or will be started,
\* and no other, also after a crash or a reboot (Install).
InstalledRuns ==
  told # None /\ told.op = "install" =>
    /\ helper = told.version /\ plist /\ loaded
    /\ proc # Off => proc.version = told.version
    /\ proc.listens => socket = "live" /\ dir

\* After a reported removal nothing runs and nothing is left (Uninstall).
UninstalledIsGone ==
  told # None /\ told.op = "uninstall" =>
    /\ helper = None /\ ~plist /\ ~dir /\ socket = "none"
    /\ ~loaded /\ proc = Off

\* Uninstall ends with the helper stopped: does not hold, the result of bootout
\* is not looked at and the removal is reported all the same.
RemovalStops == \A c \in Callers : At(c, "rmdir") => ~loaded /\ proc = Off
===============================================================================
