----------------------------- MODULE TunnelClient -----------------------------
(***************************************************************************)
(* The tunnel client of the desktop program (desktop/internal/tunnel:      *)
(* manager.go, control.go, reconnect.go) and the relay's end of its        *)
(* control connection (client_conn.go of the relay, see RelayControl).     *)
(*                                                                         *)
(* Four kinds of goroutines share a Manager: the one that runs Start, the  *)
(* readLoop of the present ControlClient, the heartbeat loop, and the user *)
(* interface's calls of AddTunnel, RemoveTunnel and Stop.  m.client is the *)
(* client of the last login that succeeded; a connection that still logs   *)
(* in is known to nobody else.  readLoop and its channel are one queue:    *)
(* when the loop ends, some of what the relay sent has reached the channel.*)
(* What the Tunnel objects hold (status, port, counters) is for display    *)
(* and is left out, and so are the work connections, see RelaySessions.    *)
(***************************************************************************)
EXTENDS Naturals, Sequences, TLC

CONSTANTS
  Tunnels,     \* tunnel names
  Callers,     \* goroutines that call the Manager
  NoTunnel,    \* no tunnel
  MaxQueue     \* bound: no new work while so many messages are under way

ASSUME NoTunnelAssumption == NoTunnel \notin Tunnels
ASSUME QueueAssumption == MaxQueue \in Nat \ {0}

VARIABLES
  run,         \* where the goroutine of Start is
  todo,        \* tunnels registerAllTunnels has not come to yet
  current,     \* the tunnel whose answer it waits for, or NoTunnel
  hb,          \* the heartbeat loop
  ctxDone,     \* m.ctx is cancelled
  link,        \* the connection of m.client; "none" if m.client is nil
  connected,   \* m.client.connected
  chOpen,      \* readLoop of m.client runs and its channel is open
  inbox,       \* messages from the relay that nobody has handled
  outbox,      \* messages the relay has not read
  tunnels,     \* keys of m.tunnels
  pc,          \* pc[c]: the next step of caller c
  arg,         \* arg[c]: the tunnel it is about
  srv,         \* proxies the relay runs for this connection
  asked,       \* history: NewProxy messages the relay has answered, less those
               \* closed since
  mixed,       \* history: an AddTunnel was sent while tunnels were registered
  raced        \* history: tunnels that two calls changed at the same time

clientVars == <<link, connected, chOpen>>
callVars == <<pc, arg, raced>>
relayVars == <<srv, asked>>
runVars == <<run, todo, current>>
vars == <<runVars, hb, ctxDone, clientVars, inbox, outbox, tunnels, callVars,
          relayVars, mixed>>

NewProxy(t) == [type |-> "NewProxy", tunnel |-> t]
CloseProxy(t) == [type |-> "CloseProxy", tunnel |-> t]
NewProxyResp(t) == [type |-> "NewProxyResp", tunnel |-> t]
StartWorkConn(t) == [type |-> "StartWorkConn", tunnel |-> t]

Requests == {NewProxy(t) : t \in Tunnels} \cup {CloseProxy(t) : t \in Tunnels}
Answers == {NewProxyResp(t) : t \in Tunnels} \cup {StartWorkConn(t) : t \in Tunnels}

Init ==
  /\ run = "connect"
  /\ todo = {}
  /\ current = NoTunnel
  /\ hb = "none"
  /\ ctxDone = FALSE
  /\ link = "none"
  /\ connected = FALSE
  /\ chOpen = FALSE
  /\ inbox = <<>>
  /\ outbox = <<>>
  /\ tunnels \in SUBSET Tunnels
  /\ pc = [c \in Callers |-> "idle"]
  /\ arg = [c \in Callers |-> NoTunnel]
  /\ srv = {}
  /\ asked = {}
  /\ mixed = FALSE
  /\ raced = {}

\* registerAllTunnels holds m.tunnelsMu for reading.
Registering == run \in {"send", "await"}

\* A call waits for m.tunnelsMu; sync.RWMutex lets no other reader in before it.
WriterWaits == \E c \in Callers : pc[c] \in {"add", "remove"}

\* ControlClient.Send(m), which SendFails says may fail.
Send(m) ==
  /\ connected
  /\ link \in {"up", "lost"}
  /\ outbox' = IF link = "up" THEN Append(outbox, m) ELSE outbox

SendFails == ~connected \/ link # "up"

\* The relay sends m.
Reply(m) == inbox' = IF chOpen THEN Append(inbox, m) ELSE inbox

\* The environment starts nothing new while MaxQueue messages are under way.
Quiet == Len(inbox) + Len(outbox) < MaxQueue

-------------------------------------------------------------------------------
(* Start: Backoff.Run calls connectAndRun until ctx is cancelled.            *)

Dial ==
  /\ run = "connect"
  /\ run' \in {"auth", "sleep"}
  /\ UNCHANGED <<todo, current, hb, ctxDone, clientVars, inbox, outbox, tunnels,
                 callVars, relayVars, mixed>>

\* Connect does not look at ctx: it waits for the relay's answer.
LogIn ==
  /\ run = "auth"
  /\ run' = "register"
  /\ link' = "up"
  /\ connected' = TRUE
  /\ chOpen' = TRUE
  /\ inbox' = <<>>
  /\ outbox' = <<>>
  /\ srv' = {}
  /\ asked' = {}
  /\ mixed' = FALSE
  /\ UNCHANGED <<todo, current, hb, ctxDone, tunnels, callVars>>

LogInFails ==
  /\ run = "auth"
  /\ run' = "sleep"
  /\ UNCHANGED <<todo, current, hb, ctxDone, clientVars, inbox, outbox, tunnels,
                 callVars, relayVars, mixed>>

\* registerAllTunnels takes the read lock and ranges over m.tunnels.
RegisterAll ==
  /\ run = "register"
  /\ run' = "send"
  /\ todo' = tunnels
  /\ UNCHANGED <<current, hb, ctxDone, clientVars, inbox, outbox, tunnels,
                 callVars, relayVars, mixed>>

RegisterNext(t) ==
  /\ run = "send"
  /\ t \in todo
  /\ \/ Send(NewProxy(t)) /\ run' = "await" /\ current' = t
     \/ SendFails /\ run' = "close" /\ UNCHANGED <<current, outbox>>
  /\ todo' = todo \ {t}
  /\ UNCHANGED <<hb, ctxDone, clientVars, inbox, tunnels, callVars, relayVars,
                 mixed>>

\* A message of another type ends the connection.  An answer may be about any
\* tunnel; what it says goes into the Tunnel at hand, which is not shown.
Registered ==
  /\ run = "await"
  /\ inbox # <<>>
  /\ run' = IF Head(inbox).type = "NewProxyResp" THEN "send" ELSE "close"
  /\ inbox' = Tail(inbox)
  /\ current' = NoTunnel
  /\ UNCHANGED <<todo, hb, ctxDone, clientVars, outbox, tunnels, callVars, relayVars,
                 mixed>>

\* Mutant: whether the channel was closed is not asked.
RegisterLostIgnored == FALSE /\ UNCHANGED vars

RegisterLost ==
  /\ run = "await"
  /\ inbox = <<>>
  /\ ~chOpen
  /\ run' = "close"
  /\ current' = NoTunnel
  /\ UNCHANGED <<todo, hb, ctxDone, clientVars, inbox, outbox, tunnels, callVars,
                 relayVars, mixed>>

\* Every tunnel is registered; the heartbeat loop starts.
Serve ==
  /\ run = "send"
  /\ todo = {}
  /\ run' = "serve"
  /\ hb' = "wait"
  /\ UNCHANGED <<todo, current, ctxDone, clientVars, inbox, outbox, tunnels,
                 callVars, relayVars, mixed>>

\* handleServerMessage; what it does for a tunnel is not shown.
HandleMessage ==
  /\ run = "serve"
  /\ inbox # <<>>
  /\ inbox' = Tail(inbox)
  /\ UNCHANGED <<runVars, hb, ctxDone, clientVars, outbox, tunnels, callVars,
                 relayVars, mixed>>

\* client.Messages() is drained and closed.
ServeEnds ==
  /\ run = "serve"
  /\ inbox = <<>>
  /\ ~chOpen
  /\ run' = "join"
  /\ UNCHANGED <<todo, current, hb, ctxDone, clientVars, inbox, outbox, tunnels,
                 callVars, relayVars, mixed>>

\* <-heartbeatDone.
HeartbeatJoined ==
  /\ run = "join"
  /\ hb = "done"
  /\ run' = "close"
  /\ hb' = "none"
  /\ UNCHANGED <<todo, current, ctxDone, clientVars, inbox, outbox, tunnels,
                 callVars, relayVars, mixed>>

\* Mutant: connectAndRun does not defer client.Close().
CloseLeaks ==
  /\ run = "close"
  /\ run' = "sleep"
  /\ todo' = {}
  /\ UNCHANGED <<current, hb, ctxDone, clientVars, inbox, outbox, tunnels, callVars,
                 relayVars, mixed>>

\* The deferred client.Close(); what the relay still does for a closed
\* connection is not shown.
Close ==
  /\ run = "close"
  /\ run' = "sleep"
  /\ todo' = {}
  /\ link' = "closed"
  /\ inbox' = <<>>
  /\ outbox' = <<>>
  /\ srv' = {}
  /\ asked' = {}
  /\ UNCHANGED <<current, hb, ctxDone, connected, chOpen, tunnels, callVars, mixed>>

\* A retry that wins against the cancellation is one just before it.
Retry ==
  /\ run = "sleep"
  /\ run' = IF ctxDone THEN "stopped" ELSE "connect"
  /\ UNCHANGED <<todo, current, hb, ctxDone, clientVars, inbox, outbox, tunnels,
                 callVars, relayVars, mixed>>

-------------------------------------------------------------------------------
(* readLoop and the heartbeat loop.                                          *)

\* The connection breaks, or ctx is done as a message comes in: a part of the
\* inbox has been put on the channel, which is closed.
ReaderEnds ==
  /\ chOpen
  /\ \/ /\ link \in {"lost", "closed"}
        /\ \E k \in 0..Len(inbox) : inbox' = SubSeq(inbox, 1, k)
     \/ /\ ctxDone
        /\ \E k \in 0..Len(inbox) : k < Len(inbox) /\ inbox' = SubSeq(inbox, 1, k)
  /\ connected' = FALSE
  /\ chOpen' = FALSE
  /\ UNCHANGED <<runVars, hb, ctxDone, link, outbox, tunnels, callVars, relayVars,
                 mixed>>

\* A tick; while the client is not connected it passes without effect.
HeartbeatTick ==
  /\ hb = "wait"
  /\ ~ctxDone
  /\ connected
  /\ hb' = "send"
  /\ UNCHANGED <<runVars, ctxDone, clientVars, inbox, outbox, tunnels, callVars,
                 relayVars, mixed>>

\* The heartbeat itself only matters by its failure.
HeartbeatSent ==
  /\ hb = "send"
  /\ \/ connected /\ link \in {"up", "lost"} /\ hb' = "wait"
     \/ SendFails /\ hb' = "done"
  /\ UNCHANGED <<runVars, ctxDone, clientVars, inbox, outbox, tunnels, callVars,
                 relayVars, mixed>>

\* Mutant: the loop does not watch ctx.
HeartbeatStopsNever == FALSE /\ UNCHANGED vars

HeartbeatStops ==
  /\ hb = "wait"
  /\ ctxDone
  /\ hb' = "done"
  /\ UNCHANGED <<runVars, ctxDone, clientVars, inbox, outbox, tunnels, callVars,
                 relayVars, mixed>>

-------------------------------------------------------------------------------
(* AddTunnel, RemoveTunnel and Stop.                                         *)

\* A call about t has changed m.tunnels and may have to tell the relay yet.
Underway(t) ==
  \E c \in Callers :
    arg[c] = t /\ pc[c] \in {"checkAdd", "sendAdd", "checkRemove", "sendRemove"}

Step(c, from, to) ==
  /\ pc[c] = from
  /\ pc' = [pc EXCEPT ![c] = to]
  /\ UNCHANGED <<runVars, hb, inbox, relayVars>>

\* A caller comes, and waits for m.tunnelsMu.
AddTunnel(c, t) ==
  /\ Quiet
  /\ Step(c, "idle", "add")
  /\ arg' = [arg EXCEPT ![c] = t]
  /\ UNCHANGED <<ctxDone, clientVars, outbox, tunnels, mixed, raced>>

RemoveTunnel(c, t) ==
  /\ Quiet
  /\ Step(c, "idle", "remove")
  /\ arg' = [arg EXCEPT ![c] = t]
  /\ UNCHANGED <<ctxDone, clientVars, outbox, tunnels, mixed, raced>>

InsertTunnel(c) ==
  /\ ~Registering
  /\ arg[c] \notin tunnels
  /\ Step(c, "add", "checkAdd")
  /\ tunnels' = tunnels \cup {arg[c]}
  /\ raced' = IF Underway(arg[c]) THEN raced \cup {arg[c]} ELSE raced
  /\ UNCHANGED <<ctxDone, clientVars, outbox, arg, mixed>>

DeleteTunnel(c) ==
  /\ ~Registering
  /\ arg[c] \in tunnels
  /\ Step(c, "remove", "checkRemove")
  /\ tunnels' = tunnels \ {arg[c]}
  /\ raced' = IF Underway(arg[c]) THEN raced \cup {arg[c]} ELSE raced
  /\ UNCHANGED <<ctxDone, clientVars, outbox, arg, mixed>>

\* "already exists", "not found".
Rejected(c) ==
  /\ ~Registering
  /\ \/ arg[c] \in tunnels /\ Step(c, "add", "idle")
     \/ arg[c] \notin tunnels /\ Step(c, "remove", "idle")
  /\ UNCHANGED <<ctxDone, clientVars, outbox, tunnels, arg, mixed, raced>>

\* m.client != nil && m.client.IsConnected().
CheckConnected(c) ==
  /\ \/ Step(c, "checkAdd", IF connected THEN "sendAdd" ELSE "idle")
     \/ Step(c, "checkRemove", IF connected THEN "sendRemove" ELSE "idle")
  /\ UNCHANGED <<ctxDone, clientVars, outbox, tunnels, arg, mixed, raced>>

SendAdd(c) ==
  /\ Step(c, "sendAdd", "idle")
  /\ \/ Send(NewProxy(arg[c])) /\ mixed' = (mixed \/ run = "register" \/ Registering)
     \/ SendFails /\ UNCHANGED <<outbox, mixed>>
  /\ UNCHANGED <<ctxDone, clientVars, tunnels, arg, raced>>

\* Mutant: the relay is not told.
SendRemoveSkipped(c) ==
  /\ Step(c, "sendRemove", "idle")
  /\ UNCHANGED <<ctxDone, clientVars, outbox, tunnels, arg, mixed, raced>>

SendRemove(c) ==
  /\ Step(c, "sendRemove", "idle")
  /\ \/ Send(CloseProxy(arg[c]))
     \/ SendFails /\ UNCHANGED outbox
  /\ UNCHANGED <<ctxDone, clientVars, tunnels, arg, mixed, raced>>

Stop(c) ==
  /\ Step(c, "idle", "close")
  /\ ctxDone' = TRUE
  /\ UNCHANGED <<clientVars, outbox, tunnels, arg, mixed, raced>>

\* m.client.Close(), whichever client that is by now.
StopCloses(c) ==
  /\ Step(c, "close", "mark")
  /\ link' = IF link = "none" THEN "none" ELSE "closed"
  /\ UNCHANGED <<ctxDone, connected, chOpen, outbox, tunnels, arg, mixed, raced>>

\* It takes the read lock to set every tunnel's status.
StopMarks(c) ==
  /\ ~(Registering /\ WriterWaits)
  /\ Step(c, "mark", "idle")
  /\ UNCHANGED <<ctxDone, clientVars, outbox, tunnels, arg, mixed, raced>>

-------------------------------------------------------------------------------
(* The relay's end of the connection.                                        *)

\* handleNewProxy: refused if the name is taken, or for reasons of its own.
RelayNewProxy(t) ==
  /\ link = "up"
  /\ outbox # <<>>
  /\ Head(outbox) = NewProxy(t)
  /\ outbox' = Tail(outbox)
  /\ srv' \in {srv, srv \cup {t}}
  /\ Reply(NewProxyResp(t))
  /\ asked' = asked \cup {t}
  /\ UNCHANGED <<runVars, hb, ctxDone, clientVars, tunnels, callVars, mixed>>

\* Mutant: the relay forgets the proxy without stopping it.
RelayCloseProxyKeeps(t) ==
  /\ link = "up"
  /\ outbox # <<>>
  /\ Head(outbox) = CloseProxy(t)
  /\ outbox' = Tail(outbox)
  /\ asked' = asked \ {t}
  /\ UNCHANGED <<runVars, hb, ctxDone, clientVars, inbox, tunnels, callVars, srv, mixed>>

\* Mutant: the relay answers CloseProxy as it answers NewProxy.
RelayCloseProxyAnswers(t) ==
  /\ link = "up"
  /\ outbox # <<>>
  /\ Head(outbox) = CloseProxy(t)
  /\ outbox' = Tail(outbox)
  /\ srv' = srv \ {t}
  /\ asked' = asked \ {t}
  /\ Reply(NewProxyResp(t))
  /\ UNCHANGED <<runVars, hb, ctxDone, clientVars, tunnels, callVars, mixed>>

RelayCloseProxy(t) ==
  /\ link = "up"
  /\ outbox # <<>>
  /\ Head(outbox) = CloseProxy(t)
  /\ outbox' = Tail(outbox)
  /\ srv' = srv \ {t}
  /\ asked' = asked \ {t}
  /\ UNCHANGED <<runVars, hb, ctxDone, clientVars, inbox, tunnels, callVars, mixed>>

\* An external connection reaches the proxy.
RelayStartWorkConn(t) ==
  /\ link = "up"
  /\ t \in srv
  /\ Quiet
  /\ Reply(StartWorkConn(t))
  /\ UNCHANGED <<runVars, hb, ctxDone, clientVars, outbox, tunnels, callVars,
                 relayVars, mixed>>

\* The connection breaks, or the relay closes it; the relay cleans up.
Lose ==
  /\ link = "up"
  /\ link' = "lost"
  /\ outbox' = <<>>
  /\ srv' = {}
  /\ asked' = {}
  /\ UNCHANGED <<runVars, hb, ctxDone, connected, chOpen, inbox, tunnels, callVars,
                 mixed>>

\* The relay's heartbeat timer, when no heartbeat comes.
HeartbeatExpires == hb \notin {"wait", "send"} /\ Lose

-------------------------------------------------------------------------------

Run ==
  \/ Dial \/ LogIn \/ LogInFails \/ RegisterAll \/ Serve \/ Registered \/ RegisterLost
  \/ HandleMessage \/ ServeEnds \/ HeartbeatJoined \/ Close \/ Retry
  \/ \E t \in Tunnels : RegisterNext(t)

Heartbeat == HeartbeatTick \/ HeartbeatSent \/ HeartbeatStops

Continue(c) ==
  \/ InsertTunnel(c) \/ DeleteTunnel(c) \/ Rejected(c) \/ CheckConnected(c)
  \/ SendAdd(c) \/ SendRemove(c) \/ StopCloses(c) \/ StopMarks(c)

Relay == \E t \in Tunnels : RelayNewProxy(t) \/ RelayCloseProxy(t)

Next ==
  \/ Run \/ ReaderEnds \/ Heartbeat \/ Relay \/ Lose
  \/ \E t \in Tunnels : RelayStartWorkConn(t)
  \/ \E c \in Callers :
       \/ Continue(c) \/ Stop(c)
       \/ \E t \in Tunnels : AddTunnel(c, t) \/ RemoveTunnel(c, t)

\* Go schedules every goroutine that can go on; the relay reads what it is
\* sent, answers a login and drops a client that sends no heartbeats.
Fairness ==
  /\ WF_vars(Run)
  /\ WF_vars(ReaderEnds)
  /\ WF_vars(Heartbeat)
  /\ WF_vars(Relay)
  /\ WF_vars(HeartbeatExpires)
  /\ \A c \in Callers : SF_vars(Continue(c))

Spec == Init /\ [][Next]_vars

FairSpec == Spec /\ Fairness

-------------------------------------------------------------------------------
(* Properties.                                                               *)

TypeOK ==
  /\ run \in {"connect", "auth", "register", "send", "await", "serve", "join",
              "close", "sleep", "stopped"}
  /\ todo \subseteq Tunnels
  /\ current \in Tunnels \cup {NoTunnel}
  /\ hb \in {"none", "wait", "send", "done"}
  /\ ctxDone \in BOOLEAN
  /\ link \in {"none", "up", "lost", "closed"}
  /\ connected \in BOOLEAN
  /\ chOpen \in BOOLEAN
  /\ inbox \in Seq(Answers)
  /\ outbox \in Seq(Requests)
  /\ tunnels \subseteq Tunnels
  /\ pc \in [Callers -> {"idle", "add", "checkAdd", "sendAdd", "remove",
                         "checkRemove", "sendRemove", "close", "mark"}]
  /\ arg \in [Callers -> Tunnels \cup {NoTunnel}]
  /\ srv \subseteq asked
  /\ asked \subseteq Tunnels
  /\ mixed \in BOOLEAN
  /\ raced \subseteq Tunnels

\* m.tunnels and the relay agree once nothing is under way: every tunnel was
\* asked for on this connection and the relay runs no other, however calls,
\* broken connections and logins interleave.
InSync ==
  /\ run = "serve" /\ link = "up" /\ connected
  /\ outbox = <<>>
  => \A t \in Tunnels :
       ~Underway(t) /\ t \notin raced => (t \in tunnels <=> t \in asked)

\* What the relay serves is what the client registered, and every variable holds
\* what its type says (manager.go: AddTunnel, RemoveTunnel, registerAllTunnels).
ClientInSync == TypeOK /\ InSync

\* connectAndRun leaves no control connection behind when it returns, so the
\* Manager never has two of them, nor one after Start has returned.
OneControlConn ==
  run \in {"connect", "auth", "sleep", "stopped"} =>
    link \in {"none", "closed"} /\ hb = "none"

\* The answer that registerAllTunnels takes for its own is its own, although it
\* only looks at the type; unless an AddTunnel was sent in the meantime.
AnswerIsOwn ==
  run = "await" /\ inbox # <<>> /\ Head(inbox).type = "NewProxyResp" =>
    mixed \/ Head(inbox).tunnel = current

\* After Stop the goroutine of Start returns, even if it was logging in, in
\* which case Stop has closed the wrong connection or none.
StopEnds == ctxDone ~> run = "stopped"

\* AddTunnel, RemoveTunnel and Stop return, though registerAllTunnels holds the
\* lock they need while it waits for the relay.
CallsReturn == \A c \in Callers : pc[c] # "idle" ~> pc[c] = "idle"

\* manager.go, Start: "It handles reconnection automatically."
Reconnects == link = "lost" ~> run = "connect" \/ ctxDone

-------------------------------------------------------------------------------
\* For TLC: tunnels and callers are interchangeable.  The runs that check
\* liveness do not use it.
Symmetry == Permutations(Tunnels) \cup Permutations(Callers)
===============================================================================
