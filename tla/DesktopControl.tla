---------------------------- MODULE DesktopControl ----------------------------
(***************************************************************************)
(* The local control API of the desktop program and the commands           *)
(* `nextunnel desktop ...` that use it (desktop/control_server.go,         *)
(* cli/internal/desktop/control.go, cli/internal/command/desktop.go).      *)
(* A starting program listens at a free port with a new token and writes   *)
(* both into one file of the user's; a program that ends removes the file, *)
(* whoever wrote it.  Nothing keeps the program from running twice.        *)
(***************************************************************************)
EXTENDS Naturals

CONSTANTS
  Apps,       \* starts of the program, each with a token of its own
  Ports, Callers,
  Cut,        \* a file that is not whole
  None

VARIABLES
  state,      \* state[a]: what the start a has come to
  port,       \* port[a]: where it listens
  file,       \* desktop-control.json
  call,       \* call[c]: the command c: the file it read, what became of it
  served,     \* served[a]: the commands it is carrying out
  overlapped  \* history: two ran at once, or one was killed while it wrote
vars == <<state, port, file, call, served, overlapped>>

File == [app : Apps, port : Ports]
Idle == [pc |-> "idle", read |-> None, by |-> None]

TypeOK ==
  /\ state \in [Apps -> {"new", "listen", "write", "up", "deaf", "stop", "remove", "over"}]
  /\ port \in [Apps -> Ports \cup {None}]
  /\ file \in File \cup {None, Cut}
  /\ call \in [Callers -> [pc : {"idle", "send", "wait", "done", "refused"},
                           read : File \cup {None}, by : Apps \cup {None}]]
  /\ served \in [Apps -> SUBSET Callers]
  /\ overlapped \in BOOLEAN

Init ==
  /\ state = [a \in Apps |-> "new"]
  /\ port = [a \in Apps |-> None]
  /\ file = None
  /\ call = [c \in Callers |-> Idle]
  /\ served = [a \in Apps |-> {}]
  /\ overlapped = FALSE

-------------------------------------------------------------------------------
Is(a, s) == state[a] = s
Goto(a, s) == state' = [state EXCEPT ![a] = s]
Runs(a) == state[a] \notin {"new", "over"}
At(c, pc) == call[c].pc = pc
Become(c, pc, by) == call' = [call EXCEPT ![c].pc = pc, ![c].by = by]

\* startControlServer: the port is free for whoever asks next when it is closed.
Listen(a) ==
  /\ Is(a, "new") /\ Goto(a, "listen")
  /\ \E q \in Ports : (\A b \in Apps : port[b] # q) /\ port' = [port EXCEPT ![a] = q]
  /\ overlapped' = (overlapped \/ \E b \in Apps : Runs(b))
  /\ UNCHANGED <<file, call, served>>

\* os.WriteFile: the file is cut, then whole.
OpenFile(a) ==
  /\ Is(a, "listen") /\ Goto(a, "write") /\ file' = Cut
  /\ UNCHANGED <<port, call, served, overlapped>>

\* Only then are the requests at the port served.
WriteFile(a) ==
  /\ Is(a, "write") /\ Goto(a, "up") /\ file' = [app |-> a, port |-> port[a]]
  /\ UNCHANGED <<port, call, served, overlapped>>

\* The program goes on without the API.
WriteFails(a) ==
  /\ state[a] \in {"listen", "write"} /\ Goto(a, "deaf")
  /\ port' = [port EXCEPT ![a] = None]
  /\ UNCHANGED <<file, call, served, overlapped>>

\* stopControlServer: Shutdown closes the listener and waits for the requests
\* that are being served.
Shutdown(a) ==
  /\ state[a] \in {"up", "deaf"} /\ Goto(a, "stop")
  /\ port' = [port EXCEPT ![a] = None]
  /\ UNCHANGED <<file, call, served, overlapped>>

AllServed(a) ==
  /\ Is(a, "stop") /\ served[a] = {} /\ Goto(a, "remove")
  /\ UNCHANGED <<port, file, call, served, overlapped>>

Remove(a) ==
  /\ Is(a, "remove") /\ Goto(a, "over") /\ file' = None
  /\ UNCHANGED <<port, call, served, overlapped>>

Crash(a) ==
  /\ Runs(a) /\ Goto(a, "over")
  /\ port' = [port EXCEPT ![a] = None] /\ served' = [served EXCEPT ![a] = {}]
  /\ call' = [c \in Callers |->
                IF c \in served[a] /\ At(c, "wait") THEN [call[c] EXCEPT !.pc = "refused"]
                ELSE call[c]]
  /\ overlapped' = (overlapped \/ Is(a, "write"))
  /\ UNCHANGED file

-------------------------------------------------------------------------------
\* desktop.NewClient: no file, or one that is not whole, ends the command.
NewClient(c) ==
  /\ At(c, "idle") /\ file \notin {None, Cut}
  /\ call' = [call EXCEPT ![c] = [pc |-> "send", read |-> file, by |-> None]]
  /\ UNCHANGED <<state, port, file, served, overlapped>>

Answers(a, q) == Is(a, "up") /\ port[a] = q

\* Mutant: the token is not compared.
SameTokenNever(c, a) == TRUE

\* withControlAuth.
SameToken(c, a) == call[c].read.app = a

Accept(c, a) ==
  /\ At(c, "send") /\ Answers(a, call[c].read.port) /\ SameToken(c, a)
  /\ Become(c, "wait", a)
  /\ served' = [served EXCEPT ![a] = @ \cup {c}]
  /\ UNCHANGED <<state, port, file, overlapped>>

\* Nobody listens at the port, or whoever does has another token.
Refused(c) ==
  /\ At(c, "send")
  /\ \A a \in Apps : Answers(a, call[c].read.port) => ~SameToken(c, a)
  /\ Become(c, "refused", None)
  /\ UNCHANGED <<state, port, file, served, overlapped>>

HandlerReturns(c, a) ==
  /\ c \in served[a] /\ served' = [served EXCEPT ![a] = @ \ {c}]
  /\ IF At(c, "wait") THEN Become(c, "done", a) ELSE UNCHANGED call
  /\ UNCHANGED <<state, port, file, overlapped>>

\* After 15 seconds the command gives up; the handler is not told.
TimeOut(c) ==
  /\ At(c, "wait") /\ Become(c, "refused", call[c].by)
  /\ UNCHANGED <<state, port, file, served, overlapped>>

\* The next command.
Leave(c) ==
  /\ call[c].pc \in {"done", "refused"} /\ \A a \in Apps : c \notin served[a]
  /\ call' = [call EXCEPT ![c] = Idle]
  /\ UNCHANGED <<state, port, file, served, overlapped>>

Next ==
  \/ \E a \in Apps :
       \/ Listen(a) \/ OpenFile(a) \/ WriteFile(a) \/ WriteFails(a) \/ Shutdown(a)
       \/ AllServed(a) \/ Remove(a) \/ Crash(a)
  \/ \E c \in Callers :
       \/ NewClient(c) \/ Refused(c) \/ TimeOut(c) \/ Leave(c)
       \/ \E a \in Apps : Accept(c, a) \/ HandlerReturns(c, a)

Spec == Init /\ [][Next]_vars

-------------------------------------------------------------------------------
\* A command is carried out only by the program whose file it read, although the
\* file may be old and its port another program's by now (control_server.go:
\* withControlAuth).
ServedByItsReader == \A c \in Callers : call[c].by # None => call[c].by = call[c].read.app

\* A program that serves the API can be found: the file is its own, whatever
\* crashed before, unless two ran at once (control_server.go: stopControlServer).
ServerIsFound ==
  ~overlapped => \A a \in Apps : Is(a, "up") => file = [app |-> a, port |-> port[a]]

\* Nothing is served after the program has removed its file.
NothingServedLate == \A a \in Apps : state[a] \in {"remove", "over"} => served[a] = {}

\* Not so with two at once, and one that is still ending is enough: it removes
\* the file of the next.
AlwaysFound == \A a \in Apps : Is(a, "up") => file # None
===============================================================================
