----------------------------- MODULE RuntimeFields -----------------------------
(***************************************************************************)
(* What the relay gives a tunnel comes back into the table of tunnels      *)
(* (desktop/app.go: GetTunnels; tunnel/manager.go; config/store.go).  A    *)
(* tunnel may ask for any port; the answer to its registration carries the *)
(* one it has; and the window, which asks for the tunnels every few        *)
(* seconds, writes that port into the row.  The public URL goes the same   *)
(* way.  One tunnel is followed; which tunnels are served is               *)
(* DesktopTunnels', the control connection is TunnelClient's.              *)
(***************************************************************************)
EXTENDS Naturals, Sequences

CONSTANTS
  Ports,      \* ports of the relay
  None,       \* the tunnel is not in the manager; no port is bound
  MaxStarts,  \* bound: how often the tunnel is started
  Cap         \* bound: messages under way in one direction

Any == 0
AnyPorts == Ports \cup {Any}
\* TunnelDef and status of a tunnel of the manager; n is history, its start.
Tunnel == [port : AnyPorts, status : {"inactive", "active", "error"}, n : Nat]
\* What the constants must satisfy; the MC module assumes it.
PortsAssumption == Any \notin Ports /\ None \notin AnyPorts \cup Tunnel
BoundAssumption == MaxStarts \in Nat /\ Cap \in Nat \ {0}

VARIABLES
  stored,       \* the row: its port, and whether it is marked running
  def,          \* the tunnel in the manager, or None: port and status
  linked,       \* the control connection is up
  registering,  \* registerAllTunnels waits for its answer
  toRelay, toClient,  \* messages under way
  bound,        \* the port the relay listens at for the tunnel, or None
  others,       \* ports other programs and clients have at the relay
  poll,         \* GetTunnels: its next step, the ports of the row and of the tunnel it read
  starts,       \* history: how often the tunnel was started
  wish,         \* history: the port the user last asked for
  mixed,        \* history: since then a poll overlapped the edit, or an answer came late
  refused,      \* history: the last registration after a reconnection was refused
  declined      \* history: a registration was refused while a port was free

conn == <<linked, registering, toRelay, toClient, bound>>
history == <<starts, wish, mixed, refused, declined>>
vars == <<stored, def, conn, others, poll, history>>

\* What validateCreateTunnelInput lets through: a port of the relay, or 0.
Valid(p) == p \in AnyPorts
Row == [port : AnyPorts, running : BOOLEAN]
\* tunnelDefFromConfig, for a tunnel of NewTunnel.
DefOf(r, n) == [port |-> r.port, status |-> "inactive", n |-> n]
Idle == [pc |-> "idle", seen |-> Any, port |-> Any]

TypeOK ==
  /\ stored \in Row /\ def \in Tunnel \cup {None}
  /\ linked \in BOOLEAN /\ registering \in BOOLEAN
  /\ Len(toRelay) <= Cap /\ Len(toClient) <= Cap
  /\ bound \in Ports \cup {None} /\ others \subseteq Ports
  /\ poll \in [pc : {"idle", "status", "write"}, seen : AnyPorts, port : AnyPorts]
  /\ starts \in 0 .. MaxStarts /\ wish \in AnyPorts
  /\ {mixed, refused, declined} \subseteq BOOLEAN

Init ==
  /\ stored = [port |-> Any, running |-> FALSE]
  /\ def = None /\ linked = FALSE /\ registering = FALSE
  /\ toRelay = <<>> /\ toClient = <<>> /\ bound = None /\ others = {}
  /\ poll = Idle /\ starts = 0 /\ wish = Any
  /\ mixed = FALSE /\ refused = FALSE /\ declined = FALSE

-------------------------------------------------------------------------------
(* What the user does; the steps of each call are in DesktopTunnels.       *)

\* UpdateTunnel, of a tunnel that is stopped.
Edit(p) ==
  /\ ~stored.running /\ def = None /\ Valid(p)
  /\ stored' = [stored EXCEPT !.port = p]
  /\ wish' = p
  /\ mixed' = (poll.pc # "idle" \/ toRelay # <<>> \/ toClient # <<>>)
  /\ declined' = FALSE
  /\ UNCHANGED <<def, conn, others, poll, starts, refused>>

\* StartTunnel, AddTunnel: the registration is sent, its answer comes later.
Start ==
  /\ linked /\ ~registering /\ def = None
  /\ starts < MaxStarts /\ Len(toRelay) < Cap
  /\ starts' = starts + 1
  /\ def' = DefOf(stored, starts + 1)
  /\ stored' = [stored EXCEPT !.running = TRUE]
  /\ toRelay' = Append(toRelay, [kind |-> "new", port |-> stored.port, n |-> starts + 1])
  /\ refused' = FALSE
  /\ UNCHANGED <<linked, registering, toClient, bound, others, poll, wish, mixed, declined>>

\* StopTunnel, RemoveTunnel: registerAllTunnels keeps it waiting.
Stop ==
  /\ def # None /\ ~registering /\ Len(toRelay) < Cap
  /\ def' = None
  /\ stored' = [stored EXCEPT !.running = FALSE]
  /\ toRelay' = IF linked THEN Append(toRelay, [kind |-> "close", port |-> Any, n |-> def.n])
                ELSE toRelay
  /\ UNCHANGED <<linked, registering, toClient, bound, others, poll, history>>

-------------------------------------------------------------------------------
(* The relay.                                                              *)

Answer(m, p) == Append(toClient, [ok |-> p # None, port |-> IF p = None THEN Any ELSE p, n |-> m.n])

\* Proxy.Start: the port that is asked for, or any that is free.
Bindable(p) == IF p = Any THEN Ports \ others ELSE {p} \ others

\* handleNewProxy and handleCloseProxy, in the order of the connection.
Serve ==
  /\ toRelay # <<>> /\ Len(toClient) < Cap
  /\ LET m == Head(toRelay)
         free == IF bound # None THEN {} ELSE Bindable(m.port)
     IN IF m.kind = "close"
        THEN bound' = None /\ UNCHANGED <<toClient, declined>>
        ELSE \/ \E p \in free :
                  bound' = p /\ toClient' = Answer(m, p) /\ UNCHANGED declined
             \/ /\ free = {} /\ toClient' = Answer(m, None)
                /\ declined' = (declined \/ (bound = None /\ others # Ports))
                /\ UNCHANGED bound
  /\ toRelay' = Tail(toRelay)
  /\ UNCHANGED <<stored, def, linked, registering, others, poll, starts, wish, mixed, refused>>

\* Other clients of the relay come and go.
OthersChange(p) ==
  /\ p # bound
  /\ others' = IF p \in others THEN others \ {p} ELSE others \cup {p}
  /\ UNCHANGED <<stored, def, conn, poll, history>>

-------------------------------------------------------------------------------
(* The client's connection.                                                *)

\* What an answer makes of the tunnel of its name, whichever start it is for:
\* registerAllTunnels leaves the status of a tunnel that is refused.
Applied(a) ==
  IF a.ok THEN [def EXCEPT !.port = a.port, !.status = "active"]
  ELSE IF registering THEN def ELSE [def EXCEPT !.status = "error"]

TakeAnswer ==
  /\ toClient # <<>>
  /\ LET a == Head(toClient)
     IN IF def = None
        THEN UNCHANGED <<def, mixed, refused>>
        ELSE /\ def' = Applied(a)
             /\ mixed' = (mixed \/ a.n # def.n)
             /\ refused' = (registering /\ ~a.ok)
  /\ toClient' = Tail(toClient) /\ registering' = FALSE
  /\ UNCHANGED <<stored, linked, toRelay, bound, others, poll, starts, wish, declined>>

\* A new connection registers the tunnel as the manager has it.
Connect ==
  /\ ~linked /\ linked' = TRUE
  /\ registering' = (def # None)
  /\ toRelay' = IF def = None THEN <<>>
                ELSE <<[kind |-> "new", port |-> def.port, n |-> def.n]>>
  /\ UNCHANGED <<stored, def, toClient, bound, others, poll, history>>

\* The relay ends the proxies of a connection that is gone.
Lose ==
  /\ linked /\ linked' = FALSE /\ registering' = FALSE
  /\ toRelay' = <<>> /\ toClient' = <<>> /\ bound' = None
  /\ UNCHANGED <<stored, def, others, poll, history>>

\* The program starts again, with the tunnels that are marked running.
Restart ==
  /\ linked' = FALSE /\ registering' = FALSE
  /\ toRelay' = <<>> /\ toClient' = <<>> /\ bound' = None
  /\ def' = IF stored.running THEN DefOf(stored, starts) ELSE None
  /\ poll' = Idle /\ refused' = FALSE
  /\ UNCHANGED <<stored, others, starts, wish, mixed, declined>>

-------------------------------------------------------------------------------
(* GetTunnels, which the window and PublishEndpoint repeat.                *)

PollLists ==
  /\ poll.pc = "idle"
  /\ poll' = [poll EXCEPT !.pc = "status", !.seen = stored.port]
  /\ UNCHANGED <<stored, def, conn, others, history>>

\* shouldPersistTunnelRuntimeFields
ShouldPersist(port) == port # Any /\ port # poll.seen

PollReads ==
  /\ poll.pc = "status"
  /\ poll' = IF def # None /\ ShouldPersist(def.port)
             THEN [poll EXCEPT !.pc = "write", !.port = def.port] ELSE Idle
  /\ UNCHANGED <<stored, def, conn, others, history>>

PollWrites ==
  /\ poll.pc = "write"
  /\ stored' = [stored EXCEPT !.port = poll.port]
  /\ poll' = Idle
  /\ UNCHANGED <<def, conn, others, history>>

Next ==
  \/ Start \/ Stop \/ Serve \/ TakeAnswer \/ Connect \/ Lose \/ Restart
  \/ PollLists \/ PollReads \/ PollWrites
  \/ \E p \in Ports : OthersChange(p)
  \/ \E p \in AnyPorts : Edit(p)

Spec == Init /\ [][Next]_vars

-------------------------------------------------------------------------------
\* A port the user chose stays in the row and in the manager, through polls,
\* answers, reconnections and restarts, unless a poll or an answer of before the
\* edit came after it (app.go: GetTunnels, UpdateTunnel; manager.go).
EditsAreKept ==
  wish # Any /\ ~mixed => stored.port = wish /\ (def # None => def.port = wish)

\* Once the messages are through, the relay listens for a tunnel that is shown
\* active, at the port that is shown, and for none that is stopped; a
\* registration that was refused after a reconnection aside.
ActiveAsShown ==
  linked /\ toRelay = <<>> /\ toClient = <<>> =>
    IF def = None THEN bound = None
    ELSE /\ bound # None => def.status = "active" /\ def.port = bound
         /\ def.status = "active" /\ ~refused => bound # None

\* A tunnel shown active after the answers is served: does not hold, a refusal
\* after a reconnection leaves the status as it was (manager.go:
\* registerAllTunnels).
ActiveIsServed ==
  linked /\ toRelay = <<>> /\ toClient = <<>> /\ def # None =>
    (def.status = "active" => bound # None)

\* A tunnel that may have any port is not refused while there is one: does not
\* hold, the first port it was given is asked for ever after (GetTunnels,
\* handleServerMessage).
AnyPortServes == wish = Any /\ ~mixed => ~declined

\* An edit is kept whatever is under way: does not hold, a poll writes back the
\* port it read before the edit.
EditsAreKeptAlways == wish # Any => stored.port = wish
===============================================================================
