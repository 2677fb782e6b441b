------------------------------ MODULE CliContexts ------------------------------
(***************************************************************************)
(* The contexts of the command line: config.json, which `config` and       *)
(* `remote login` change and every `remote` command reads                  *)
(* (cli/internal/configstore/store.go, cli/internal/command: config.go,    *)
(* remote.go, cli/internal/api/client.go).  A command reads the whole file, *)
(* changes its copy and writes the whole file, without a lock; os.WriteFile *)
(* empties the file before it writes, and two writers write over each      *)
(* other.  A token stands for the dashboard that issued it.                *)
(***************************************************************************)
CONSTANTS
  Contexts, Urls, Callers,
  Cut,        \* a file that is not JSON
  None

VARIABLES
  file,       \* config.json: None, Cut (not JSON) or a store
  call,       \* call[c]: what command c is at
  damaged     \* history: a write was interrupted, or met another
vars == <<file, call, damaged>>

Context == [plane : BOOLEAN, dashboard : Urls \cup {None}, token : Urls \cup {None}]
Store == [current : Contexts \cup {None},
          contexts : [Contexts -> Context \cup {None}]]
\* What the constants must satisfy; the MC module assumes it.
NoneAssumption ==
  /\ None \notin Contexts /\ None \notin Context
  /\ None # Cut /\ None \notin Store /\ Cut \notin Store

Empty == [current |-> None, contexts |-> [n \in Contexts |-> None]]
Idle == [pc |-> "idle", name |-> None, entry |-> None, store |-> Empty]

TypeOK ==
  /\ file \in Store \cup {None, Cut}
  /\ call \in [Callers -> [pc : {"idle", "post", "login", "set", "use", "save", "write"},
                           name : Contexts \cup {None}, entry : Context \cup {None},
                           store : Store]]
  /\ damaged \in BOOLEAN

Init == file = None /\ call = [c \in Callers |-> Idle] /\ damaged = FALSE

-------------------------------------------------------------------------------
At(c, pc) == call[c].pc = pc
Start(c, pc, n, e) ==
  /\ At(c, "idle")
  /\ call' = [call EXCEPT ![c] = [pc |-> pc, name |-> n, entry |-> e, store |-> Empty]]
  /\ UNCHANGED <<file, damaged>>
Finish(c) == call' = [call EXCEPT ![c] = Idle]
Loaded == IF file = None THEN Empty ELSE file
Save(c, store) ==
  call' = [call EXCEPT ![c] = [pc |-> "save", name |-> None, entry |-> None, store |-> store]]

\* The flags of set-context are the user's: a token is of the dashboard it is
\* given with.
BeginSet(c) ==
  \E n \in Contexts, p \in BOOLEAN, d \in Urls \cup {None} :
    (p \/ d # None) /\ Start(c, "set", n, [plane |-> p, dashboard |-> d, token |-> d])

BeginUse(c) == \E n \in Contexts : Start(c, "use", n, None)

BeginLogin(c) ==
  \E n \in Contexts, d \in Urls :
    Start(c, "post", n, [plane |-> FALSE, dashboard |-> d, token |-> None])

\* The dashboard answers with a token, or the command ends.
Post(c) ==
  /\ At(c, "post")
  /\ \/ LET d == call[c].entry.dashboard
        IN call' = [call EXCEPT ![c] =
             [pc |-> "login", name |-> @.name, store |-> @.store,
              entry |-> [plane |-> @.entry.plane, dashboard |-> d, token |-> d]]]
     \/ Finish(c)
  /\ UNCHANGED <<file, damaged>>

\* A file that is not JSON ends every command, those that would replace it too.
LoadFails(c) ==
  /\ call[c].pc \in {"login", "set", "use"} /\ file = Cut
  /\ Finish(c)
  /\ UNCHANGED <<file, damaged>>

SetContext(c) ==
  /\ At(c, "set") /\ file # Cut
  /\ LET n == call[c].name  s == Loaded
     IN Save(c, [current |-> IF s.current = None THEN n ELSE s.current,
                 contexts |-> [s.contexts EXCEPT ![n] = call[c].entry]])
  /\ UNCHANGED <<file, damaged>>

UseContext(c) ==
  /\ At(c, "use") /\ file # Cut
  /\ IF Loaded.contexts[call[c].name] = None THEN Finish(c)
     ELSE Save(c, [current |-> call[c].name, contexts |-> Loaded.contexts])
  /\ UNCHANGED <<file, damaged>>

\* Mutant: only the token is replaced.
LoginTokenOnly(c) ==
  /\ At(c, "login") /\ file # Cut
  /\ LET n == call[c].name  e == call[c].entry  s == Loaded
         old == IF s.contexts[n] = None THEN e ELSE s.contexts[n]
     IN Save(c, [current |-> n,
                 contexts |-> [s.contexts EXCEPT ![n] = [old EXCEPT !.token = e.token]]])
  /\ UNCHANGED <<file, damaged>>

\* What the context knows of a control plane stays.
Login(c) ==
  /\ At(c, "login") /\ file # Cut
  /\ LET n == call[c].name  e == call[c].entry  s == Loaded
         plane == s.contexts[n] # None /\ s.contexts[n].plane
     IN Save(c, [current |-> n,
                 contexts |-> [s.contexts EXCEPT
                                 ![n] = [plane |-> plane, dashboard |-> e.dashboard,
                                         token |-> e.token]]])
  /\ UNCHANGED <<file, damaged>>

Truncate(c) ==
  /\ At(c, "save")
  /\ file' = Cut /\ call' = [call EXCEPT ![c] = [pc |-> "write", name |-> @.name,
                                               entry |-> @.entry, store |-> @.store]]
  /\ UNCHANGED damaged

\* If another command has written since, the longer text shows behind the
\* shorter one.
Write(c) ==
  /\ At(c, "write")
  /\ \/ file' = call[c].store /\ UNCHANGED damaged
     \/ file # Cut /\ file' = Cut /\ damaged' = TRUE
  /\ Finish(c)

Interrupt(c) ==
  /\ ~At(c, "idle") /\ Finish(c)
  /\ damaged' = IF At(c, "write") THEN TRUE ELSE damaged
  /\ UNCHANGED file

Next == \E c \in Callers :
  \/ BeginSet(c) \/ BeginUse(c) \/ BeginLogin(c) \/ Post(c) \/ LoadFails(c)
  \/ SetContext(c) \/ UseContext(c) \/ Login(c) \/ Truncate(c) \/ Write(c) \/ Interrupt(c)

Spec == Init /\ [][Next]_vars

-------------------------------------------------------------------------------
Stores == {call[c].store : c \in Callers} \cup ({file} \ {None, Cut})

\* In the file and in every copy about to be written, the current context is one
\* of the contexts and a token is of the dashboard it would be sent to, whatever
\* commands read and write in between (remote.go: newRemoteLoginCommand).
ContextsFit ==
  \A s \in Stores :
    /\ s.current # None => s.contexts[s.current] # None
    /\ \A n \in Contexts : s.contexts[n] # None =>
         s.contexts[n].token \in {s.contexts[n].dashboard, None}

\* The file is JSON whenever nothing writes it, but for interrupted writes and
\* those that met.
FileReads == file = Cut => damaged \/ \E c \in Callers : At(c, "write")

\* Not so: a file that is cut stays cut, because the commands that would replace
\* it read it first (store.go: Load).
FileIsRepaired == damaged /\ (\A c \in Callers : At(c, "idle")) => file # Cut
===============================================================================
