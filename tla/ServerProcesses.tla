---------------------------- MODULE ServerProcesses ----------------------------
(***************************************************************************)
(* The processes of the server on Windows, as the commands `nextunnel      *)
(* server up | down | restart | status` start and stop them                *)
(* (cli/internal/system/process.go, cli/internal/command/server.go; on     *)
(* Linux the commands are systemctl's).  A process is known by the number  *)
(* in its file <name>.pid.  Numbers are given again after a process ended, *)
(* to one of the server or to a stranger.  Each command is a sequence of   *)
(* steps, one for each name, and two commands may overlap.                 *)
(***************************************************************************)
EXTENDS Sequences, SequencesExt

CONSTANTS
  Names,      \* the order of startWindowsStack
  Pids,       \* process numbers
  Callers,    \* commands at a time
  Other,      \* a process that is not the server's
  None

\* What the constants must satisfy; the MC module assumes it.
NoneAssumption == None \notin Pids /\ {None, Other} \cap ToSet(Names) = {}

VARIABLES
  runs,       \* runs[n]: what has the number n
  file,       \* file[s]: the number in s.pid
  call,       \* call[c]: what command c is at: its plan, what it does to the head
  lost        \* history: names a start or a stop of which went wrong unnoticed
vars == <<runs, file, call, lost>>

Parts == ToSet(Names)
Starts == [k \in 1..Len(Names) |-> <<"start", Names[k]>>]
Stops == [k \in 1..Len(Names) |-> <<"stop", Names[Len(Names) + 1 - k]>>]
Done == [plan |-> <<>>, at |-> "look", pid |-> None]

TypeOK ==
  /\ runs \in [Pids -> Parts \cup {Other, None}]
  /\ file \in [Parts -> Pids \cup {None}]
  /\ \A c \in Callers :
       /\ call[c].at \in {"look", "spawn", "write", "kill", "remove"}
       /\ call[c].pid \in Pids \cup {None}
       /\ ToSet(call[c].plan) \subseteq {"start", "stop"} \X Parts
  /\ lost \subseteq Parts

Init ==
  /\ runs = [n \in Pids |-> None]
  /\ file = [s \in Parts |-> None]
  /\ call = [c \in Callers |-> Done]
  /\ lost = {}

-------------------------------------------------------------------------------
Idle(c) == call[c].plan = <<>>
Step(c) == Head(call[c].plan)
At(c, what, at) == ~Idle(c) /\ Step(c)[1] = what /\ call[c].at = at
Name(c) == Step(c)[2]
\* Another command starts the same part.
Starting(c) == \E d \in Callers \ {c} :
  /\ At(d, "start", "spawn") \/ At(d, "start", "write")
  /\ Name(d) = Name(c)

\* processExists: whatever has the number will do.
Exists(n) == n # None /\ runs[n] # None

Goto(c, at, n) == call' = [call EXCEPT ![c] = [plan |-> @.plan, at |-> at, pid |-> n]]
Follow(c, plan) == call' = [call EXCEPT ![c] = [plan |-> plan, at |-> "look", pid |-> None]]
Advance(c) == Follow(c, Tail(call[c].plan))

\* StartServer, StopServer, RestartServer.
Begin(c) ==
  /\ Idle(c)
  /\ \E plan \in {Starts, Stops, Stops \o Starts} : Follow(c, plan)
  /\ UNCHANGED <<runs, file, lost>>

\* startWindowsProcess: there is one already.
SkipStart(c) ==
  /\ At(c, "start", "look") /\ Exists(file[Name(c)])
  /\ Advance(c)
  /\ UNCHANGED <<runs, file, lost>>

\* Mutant: the file is not looked at.
LookStartBlind(c) ==
  /\ At(c, "start", "look")
  /\ Goto(c, "spawn", None)
  /\ lost' = IF Starting(c) THEN lost \cup {Name(c)} ELSE lost
  /\ UNCHANGED <<runs, file>>

\* Another command may be between this look and its own file.
LookStart(c) ==
  /\ At(c, "start", "look") /\ ~Exists(file[Name(c)])
  /\ Goto(c, "spawn", None)
  /\ lost' = IF Starting(c) THEN lost \cup {Name(c)} ELSE lost
  /\ UNCHANGED <<runs, file>>

Spawn(c) ==
  /\ At(c, "start", "spawn")
  /\ \E n \in Pids :
       /\ runs[n] = None
       /\ runs' = [runs EXCEPT ![n] = Name(c)]
       /\ Goto(c, "write", n)
  /\ UNCHANGED <<file, lost>>

\* No binary, no log file, no process: the command ends, and leaves what it has
\* started.
SpawnFails(c) ==
  /\ At(c, "start", "spawn")
  /\ call' = [call EXCEPT ![c] = Done]
  /\ UNCHANGED <<runs, file, lost>>

\* The error of WriteFile is ignored.
WritePid(c) ==
  /\ At(c, "start", "write")
  /\ \/ file' = [file EXCEPT ![Name(c)] = call[c].pid] /\ UNCHANGED lost
     \/ UNCHANGED file /\ lost' = lost \cup {Name(c)}
  /\ Advance(c)
  /\ UNCHANGED runs

\* stopWindowsStack.
SkipStop(c) ==
  /\ At(c, "stop", "look") /\ file[Name(c)] = None
  /\ Advance(c)
  /\ UNCHANGED <<runs, file, lost>>

ReadPid(c) ==
  /\ At(c, "stop", "look") /\ file[Name(c)] # None
  /\ Goto(c, IF Exists(file[Name(c)]) THEN "kill" ELSE "remove", file[Name(c)])
  /\ UNCHANGED <<runs, file, lost>>

\* taskkill, whose error is ignored.
Kill(c) ==
  /\ At(c, "stop", "kill")
  /\ \/ runs' = [runs EXCEPT ![call[c].pid] = None] /\ UNCHANGED lost
     \/ runs[call[c].pid] = Name(c) /\ UNCHANGED runs /\ lost' = lost \cup {Name(c)}
  /\ Goto(c, "remove", call[c].pid)
  /\ UNCHANGED file

\* Whatever was killed is gone: a process the file names was started by another
\* command since.
RemovePid(c) ==
  /\ At(c, "stop", "remove")
  /\ file' = [file EXCEPT ![Name(c)] = None]
  /\ lost' = IF file[Name(c)] # None /\ runs[file[Name(c)]] = Name(c)
             THEN lost \cup {Name(c)} ELSE lost
  /\ Advance(c)
  /\ UNCHANGED runs

\* The command is interrupted: between a start and its file the process is lost.
Interrupt(c) ==
  /\ ~Idle(c) /\ call' = [call EXCEPT ![c] = Done]
  /\ lost' = IF At(c, "start", "write") THEN lost \cup {Name(c)} ELSE lost
  /\ UNCHANGED <<runs, file>>

-------------------------------------------------------------------------------
Ends(n) ==
  /\ runs[n] # None /\ runs' = [runs EXCEPT ![n] = None]
  /\ UNCHANGED <<file, call, lost>>

StrangerStarts(n) ==
  /\ runs[n] = None /\ runs' = [runs EXCEPT ![n] = Other]
  /\ UNCHANGED <<file, call, lost>>

Next ==
  \/ \E c \in Callers :
       \/ Begin(c) \/ SkipStart(c) \/ LookStart(c) \/ Spawn(c) \/ SpawnFails(c)
       \/ WritePid(c) \/ SkipStop(c) \/ ReadPid(c) \/ Kill(c) \/ RemovePid(c)
       \/ Interrupt(c)
  \/ \E n \in Pids : Ends(n) \/ StrangerStarts(n)

Spec == Init /\ [][Next]_vars

-------------------------------------------------------------------------------
\* A process of the server is the one its file names, or a command is about to
\* write it there: none runs that `down` would not find, whatever died, however
\* its number was given again and wherever a command was interrupted, unless a
\* write or a kill failed unnoticed or two commands met at one part (process.go:
\* startWindowsProcess, stopWindowsStack).
ServersAreTracked ==
  \A n \in Pids : runs[n] \in Parts \ lost =>
    \/ file[runs[n]] = n
    \/ \E c \in Callers : At(c, "start", "write") /\ call[c].pid = n /\ Name(c) = runs[n]

\* Hence no part runs twice.
OneOfEach ==
  \A m, n \in Pids : runs[m] \in Parts \ lost /\ runs[m] = runs[n] => m = n

\* Not so: a number that a stranger has got counts as the server's process; `up`
\* then starts nothing and `down` kills the stranger (process.go: processExists).
OwnNumbers == \A s \in Parts : file[s] # None => runs[file[s]] # Other
===============================================================================
