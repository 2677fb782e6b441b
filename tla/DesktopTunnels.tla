---------------------------- MODULE DesktopTunnels ----------------------------
(***************************************************************************)
(* The tunnels of the desktop program as its user sees them                *)
(* (desktop/app.go, internal/config/store.go): rows of a SQLite table on   *)
(* one side, the tunnel managers that serve them on the other.             *)
(*                                                                         *)
(* The user interface and the local control API (control_server.go) call   *)
(* the App from goroutines of their own.  A call reads its row first, then *)
(* some calls take a.runMu, and the row it writes or the name it removes   *)
(* is the one it read.  ConnectServer builds a manager from the rows that  *)
(* are marked running; a manager it replaces is not stopped.  What a       *)
(* manager does with its connection is TunnelClient's; here it logs in,    *)
(* loses its connection, or is stopped.                                    *)
(***************************************************************************)
EXTENDS Naturals

CONSTANTS
  Ids,        \* keys of rows; a key is used once
  Names,      \* tunnel names
  Specs,      \* what a tunnel forwards: its address, ports and domain
  Callers,    \* goroutines that call the App
  None,       \* no row, no spec, no caller
  MaxLeft,    \* bound: managers that were replaced and still run
  Faults      \* whether sends and statements of the database may fail

\* A row of the table.
Row == [name : Names, spec : Specs, status : {"stopped", "running"}]
\* What the constants must satisfy; the MC module assumes it.
NoneAssumption == None \notin Row \cup Specs \cup Callers
BoundAssumption == MaxLeft \in Nat
FaultsAssumption == Faults \in BOOLEAN

VARIABLES
  rows,       \* the table tunnel_configs
  born,       \* keys given to a row so far
  mgr,        \* a.manager
  left,       \* how many managers that were replaced still run
  leftUp,     \* one of them is connected
  runMu,      \* the caller that holds a.runMu, or None
  call,       \* call[c]: the next step of caller c and the row it read
  disturbed   \* history: a call failed half way, overlapped with another
              \* or edited a tunnel that is served

others == <<left, leftUp>>
vars == <<rows, born, mgr, others, runMu, call, disturbed>>

Manager == [phase : {"idle", "dialing", "up", "stopped"},
            tunnels : [Names -> Specs \cup {None}]]
Idle == [pc |-> "idle", id |-> None, row |-> None]

Connected == mgr.phase = "up"
HasTunnel(n) == mgr.tunnels[n] # None
NameTaken(n, id) == \E i \in Ids \ {id} : rows[i] # None /\ rows[i].name = n
\* The tunnels managerConfig gives a new manager.
TunnelsOf(table) ==
  [n \in Names |->
    LET is == {i \in Ids : /\ table[i] # None
                           /\ table[i].status = "running"
                           /\ table[i].name = n}
    IN IF is = {} THEN None ELSE table[CHOOSE i \in is : TRUE].spec]

TypeOK ==
  /\ rows \in [Ids -> Row \cup {None}]
  /\ born \subseteq Ids
  /\ mgr \in Manager /\ left \in 0..MaxLeft /\ leftUp \in BOOLEAN
  /\ runMu \in Callers \cup {None}
  /\ \A c \in Callers :
       call[c].pc \in {"idle", "edit", "write", "start", "mark running", "stop",
                       "mark stopped", "remove", "delete row", "connect", "install"}
  /\ disturbed \in BOOLEAN

Init ==
  /\ rows = [i \in Ids |-> None]
  /\ born = {}
  /\ mgr = [phase |-> "idle", tunnels |-> [n \in Names |-> None]]
  /\ left = 0 /\ leftUp = FALSE
  /\ runMu = None
  /\ call = [c \in Callers |-> Idle]
  /\ disturbed = FALSE

-------------------------------------------------------------------------------
(* Steps of a call.                                                        *)

Quiet(c) == \A d \in Callers \ {c} : call[d] = Idle
Begin(c, next, id, row) ==
  /\ call[c] = Idle
  /\ call' = [call EXCEPT ![c] = [pc |-> next, id |-> id, row |-> row]]
  /\ disturbed' = (disturbed \/ ~Quiet(c))
At(c, here) == call[c].pc = here
Goto(c, next) == call' = [call EXCEPT ![c].pc = next]
Return(c) == call' = [call EXCEPT ![c] = Idle]
Lock(c) == runMu = None /\ runMu' = c
Unlock(c) == runMu = c /\ runMu' = None
SetTunnel(n, v) == mgr' = [mgr EXCEPT !.tunnels[n] = v]
\* A call that returns an error with half of its work done.
Fail(c) == Faults /\ disturbed' = TRUE /\ Return(c)

-------------------------------------------------------------------------------
(* CreateTunnel, and ImportConfig for a name that has no row.              *)
Create(id, n, s) ==
  /\ id \notin born /\ ~NameTaken(n, id)
  /\ rows' = [rows EXCEPT ![id] = [name |-> n, spec |-> s, status |-> "stopped"]]
  /\ born' = born \cup {id}
  /\ UNCHANGED <<mgr, others, runMu, call, disturbed>>

(* PublishEndpoint: CreateTunnel, then StartTunnel if the relay is there.   *)
Publish(c, id, n, s) ==
  /\ id \notin born /\ ~NameTaken(n, id) /\ Connected
  /\ LET row == [name |-> n, spec |-> s, status |-> "stopped"]
     IN /\ rows' = [rows EXCEPT ![id] = row]
        /\ Begin(c, "start", id, row)
  /\ born' = born \cup {id}
  /\ UNCHANGED <<mgr, others, runMu>>

(* UpdateTunnel: reads the row, refuses a tunnel that runs, and writes the  *)
(* whole row, with the status it read.                                      *)
EditRead(c, id) ==
  /\ rows[id] # None /\ rows[id].status = "stopped"
  /\ Begin(c, "edit", id, rows[id])
  /\ UNCHANGED <<rows, born, mgr, others, runMu>>

EditCheck(c, n, s) ==
  /\ At(c, "edit")
  /\ IF HasTunnel(call[c].row.name)
     THEN Return(c)
     ELSE call' = [call EXCEPT ![c].pc = "write", ![c].row.name = n, ![c].row.spec = s]
  /\ UNCHANGED <<rows, born, mgr, others, runMu, disturbed>>

\* Mutant: the row is put back if it was deleted.
WriteRowUpserts(c) ==
  /\ At(c, "write")
  /\ rows' = [rows EXCEPT ![call[c].id] = call[c].row]
  /\ Return(c)
  /\ UNCHANGED <<born, mgr, others, runMu, disturbed>>

WriteRow(c) ==
  LET id == call[c].id IN
  /\ At(c, "write")
  /\ IF rows[id] = None \/ NameTaken(call[c].row.name, id)
     THEN UNCHANGED rows
     ELSE rows' = [rows EXCEPT ![id] = call[c].row]
  /\ disturbed' = (disturbed \/ (rows[id] # None /\ HasTunnel(rows[id].name)))
  /\ Return(c)
  /\ UNCHANGED <<born, mgr, others, runMu>>

(* ImportConfig for a name that has a row: no look at the manager.  Each    *)
(* tunnel of the file is a call here.                                       *)
ImportRead(c, id, s) ==
  /\ rows[id] # None
  /\ Begin(c, "write", id, [rows[id] EXCEPT !.spec = s])
  /\ UNCHANGED <<rows, born, mgr, others, runMu>>

(* StartTunnel: with a.runMu, registers the tunnel as it was read, then     *)
(* marks the row, if it is still there.                                     *)
StartRead(c, id) ==
  /\ rows[id] # None
  /\ Begin(c, "start", id, rows[id])
  /\ UNCHANGED <<rows, born, mgr, others, runMu>>

StartRefused(c) ==
  /\ At(c, "start") /\ runMu = None /\ ~Connected
  /\ Return(c)
  /\ UNCHANGED <<rows, born, mgr, others, runMu, disturbed>>

AddTunnel(c) ==
  LET row == call[c].row IN
  /\ At(c, "start") /\ runMu = None /\ Connected
  /\ IF HasTunnel(row.name) THEN UNCHANGED mgr ELSE SetTunnel(row.name, row.spec)
  /\ \/ runMu' = c /\ Goto(c, "mark running") /\ UNCHANGED disturbed
     \/ ~HasTunnel(row.name) /\ Fail(c) /\ UNCHANGED runMu
  /\ UNCHANGED <<rows, born, others>>

SetStatus(c, here, s) ==
  LET id == call[c].id IN
  /\ At(c, here) /\ Unlock(c)
  /\ \/ /\ rows' = IF rows[id] = None THEN rows
                   ELSE [rows EXCEPT ![id].status = s]
        /\ Return(c) /\ UNCHANGED disturbed
     \/ Fail(c) /\ UNCHANGED rows
  /\ UNCHANGED <<born, mgr, others>>

MarkRunning(c) == SetStatus(c, "mark running", "running")

(* StopTunnel *)
StopRead(c, id) ==
  /\ rows[id] # None
  /\ Begin(c, "stop", id, rows[id])
  /\ UNCHANGED <<rows, born, mgr, others, runMu>>

RemoveTunnel(c) ==
  LET n == call[c].row.name IN
  /\ At(c, "stop") /\ runMu = None
  /\ SetTunnel(n, None)
  /\ \/ runMu' = c /\ Goto(c, "mark stopped") /\ UNCHANGED disturbed
     \/ HasTunnel(n) /\ Connected /\ Fail(c) /\ UNCHANGED runMu
  /\ UNCHANGED <<rows, born, others>>

MarkStopped(c) == SetStatus(c, "mark stopped", "stopped")

(* DeleteTunnel: without a.runMu, and whatever RemoveTunnel says.           *)
DeleteRead(c, id) ==
  /\ rows[id] # None
  /\ Begin(c, "remove", id, rows[id])
  /\ UNCHANGED <<rows, born, mgr, others, runMu>>

\* Mutant: the manager keeps the tunnel.
DeleteRemovesNothing(c) ==
  /\ At(c, "remove")
  /\ Goto(c, "delete row")
  /\ UNCHANGED <<rows, born, mgr, others, runMu, disturbed>>

DeleteRemoves(c) ==
  /\ At(c, "remove")
  /\ SetTunnel(call[c].row.name, None)
  /\ Goto(c, "delete row")
  /\ UNCHANGED <<rows, born, others, runMu, disturbed>>

DeleteRow(c) ==
  /\ At(c, "delete row")
  /\ \/ rows' = [rows EXCEPT ![call[c].id] = None] /\ Return(c) /\ UNCHANGED disturbed
     \/ Fail(c) /\ UNCHANGED rows
  /\ UNCHANGED <<born, mgr, others, runMu>>

-------------------------------------------------------------------------------
(* ConnectServer: a new manager for the rows that are marked running, so    *)
(* that what earlier calls left behind is made good.  The manager it        *)
(* replaces may still be dialing, and nobody stops it.                      *)
ConnectLock(c) ==
  /\ Lock(c) /\ ~Connected
  /\ mgr.phase = "dialing" => left < MaxLeft
  /\ call[c] = Idle
  /\ call' = [call EXCEPT ![c].pc = "connect"]
  /\ disturbed' = ~Quiet(c)
  /\ UNCHANGED <<rows, born, mgr, others>>

ListRows(c) ==
  /\ At(c, "connect")
  /\ call' = [call EXCEPT ![c].pc = "install", ![c].row = TunnelsOf(rows)]
  /\ UNCHANGED <<rows, born, mgr, others, runMu, disturbed>>

Install(c) ==
  /\ At(c, "install") /\ Unlock(c)
  /\ mgr' = [phase |-> "dialing", tunnels |-> call[c].row]
  /\ left' = IF mgr.phase \in {"dialing", "up"} THEN left + 1 ELSE left
  /\ leftUp' = (leftUp \/ mgr.phase = "up")
  /\ Return(c)
  /\ UNCHANGED <<rows, born, disturbed>>

(* DisconnectServer: stops the latest manager; its tunnels stay in its map  *)
(* and their rows stay marked.                                              *)
Disconnect ==
  /\ runMu = None
  /\ mgr' = [mgr EXCEPT !.phase = IF @ = "idle" THEN "idle" ELSE "stopped"]
  /\ UNCHANGED <<rows, born, others, runMu, call, disturbed>>

(* Manager.Start: logs in, which the relay allows one connection of a       *)
(* client at a time, and dials again when the connection is lost.           *)
LogIn ==
  /\ mgr.phase # "up" /\ ~leftUp
  /\ \/ mgr.phase = "dialing" /\ mgr' = [mgr EXCEPT !.phase = "up"] /\ UNCHANGED leftUp
     \/ left > 0 /\ leftUp' = TRUE /\ UNCHANGED mgr
  /\ UNCHANGED <<rows, born, left, runMu, call, disturbed>>

LoseConnection ==
  /\ \/ mgr.phase = "up" /\ mgr' = [mgr EXCEPT !.phase = "dialing"] /\ UNCHANGED leftUp
     \/ leftUp /\ leftUp' = FALSE /\ UNCHANGED mgr
  /\ UNCHANGED <<rows, born, left, runMu, call, disturbed>>

(* The program ends, at any moment, and starts again: startup builds a      *)
(* manager and leaves it idle.                                              *)
Restart ==
  /\ mgr' = [phase |-> "idle", tunnels |-> TunnelsOf(rows)]
  /\ left' = 0 /\ leftUp' = FALSE
  /\ runMu' = None
  /\ call' = [c \in Callers |-> Idle]
  /\ disturbed' = FALSE
  /\ UNCHANGED <<rows, born>>

Next ==
  \/ \E id \in Ids, n \in Names, s \in Specs :
       Create(id, n, s) \/ \E c \in Callers : Publish(c, id, n, s)
  \/ \E c \in Callers :
       \/ \E id \in Ids : \/ EditRead(c, id) \/ StartRead(c, id) \/ StopRead(c, id)
                          \/ DeleteRead(c, id)
                          \/ \E s \in Specs : ImportRead(c, id, s)
       \/ \E n \in Names, s \in Specs : EditCheck(c, n, s)
       \/ WriteRow(c) \/ StartRefused(c) \/ AddTunnel(c) \/ MarkRunning(c)
       \/ RemoveTunnel(c) \/ MarkStopped(c) \/ DeleteRemoves(c) \/ DeleteRow(c)
       \/ ConnectLock(c) \/ ListRows(c) \/ Install(c)
  \/ LogIn \/ LoseConnection \/ Disconnect \/ Restart

Spec == Init /\ [][Next]_vars

-------------------------------------------------------------------------------
(* Between calls that neither overlap nor fail half way, what a.manager     *)
(* serves is what the table marks as running, as the table has it: after    *)
(* any sequence of edits, starts, stops, deletions, disconnections,         *)
(* reconnections and restarts (app.go:709-897).                             *)
ServedAsStored ==
  ~disturbed /\ (\A c \in Callers : call[c] = Idle) => mgr.tunnels = TunnelsOf(rows)

(* A row that is gone stays gone: a call that read it before writes nothing *)
(* back (Store.Update, Store.UpdateStatus).                                 *)
DeletedStaysDeleted ==
  [][\A i \in born : rows[i] = None => rows'[i] = None]_vars
===============================================================================
