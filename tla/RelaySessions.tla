---------------------------- MODULE RelaySessions ----------------------------
(***************************************************************************)
(* One relay proxy (server/internal/relay/proxy.go, session.go): external  *)
(* connections wait on a channel registered in pendingSessions until the   *)
(* tunnel client dials a work connection that names the session, while     *)
(* the proxy may be stopped, its client lost, or the wait given up.        *)
(*                                                                         *)
(* Goroutines: the accept loop (one TCP session at a time between Accept   *)
(* and `go waitForWorkConn`), one waiter per session (TCP waiters, HTTP    *)
(* gateway requests in OpenWorkConn), one handler per work connection, the *)
(* callers of Stop, and the two copiers of each bridge.  A step is the     *)
(* code between two points where another goroutine can be seen: a lock     *)
(* section, a channel operation, a close, a write.                         *)
(***************************************************************************)
EXTENDS Integers, FiniteSets, TLC

CONSTANTS
  TcpSessions,   \* sessions accepted by the proxy's TCP listener
  HttpSessions,  \* sessions opened by the public HTTP gateway
  WorkConns,     \* work connections the tunnel client may dial
  NoSession,
  NoConn

Sessions == TcpSessions \cup HttpSessions

\* uuid.New gives every session an id of its own, whichever path made it.
ASSUME SessionAssumption ==
  /\ TcpSessions \cap HttpSessions = {}
  /\ NoSession \notin Sessions
  /\ NoConn \notin WorkConns

VARIABLES
  routable,      \* cc.proxies still maps the proxy's name to this proxy
  ctxDone,       \* p.ctx is cancelled
  controlUp,     \* the client's control connection accepts writes
  listenerOpen,  \* p.listener
  loop,          \* the accept loop: "running" or "exited"
  pending,       \* keys of p.pendingSessions
  buffer,        \* buffer[s]: content of s's channel (capacity 1) or NoConn
  closed,        \* closed[s]: s's channel was closed
  pc,            \* pc[s]: where the goroutine of session s is
  ext,           \* ext[t]: the external connection of TCP session t
  conn,          \* conn[s]: the work connection s received
  copying,       \* copying[t]: copy directions of t's bridge still running
  sessionCnt,    \* p.sessionCnt
  asked,         \* sessions whose StartWorkConn reached the client
  target,        \* target[w]: the session work connection w names
  work,          \* work[w]: where work connection w is
  stop           \* stop[k]: progress of each caller of Stop

vars == <<routable, ctxDone, controlUp, listenerOpen, loop, pending, buffer,
          closed, pc, ext, conn, copying, sessionCnt, asked, target, work, stop>>

proxyVars == <<routable, ctxDone, controlUp, listenerOpen, loop, stop>>
chanVars == <<pending, buffer, closed>>
workVars == <<asked, target, work>>
bridgeVars == <<conn, copying, sessionCnt>>

Directions == {"in", "out"}

\* The accept loop handles one connection at a time up to `go waitForWorkConn`.
InLoop == {"accepted", "registered", "sendFailed"}
Over == {"ended", "completed"}
Phases == InLoop \cup Over \cup {"idle", "waiting", "leaving", "joined"}

\* handleCloseProxy and cleanup take the proxy out of cc.proxies before they
\* stop it, so at most one of them does ("owner"); Shutdown stops it as well.
Stoppers == {"owner", "shutdown"}

Init ==
  /\ routable = TRUE
  /\ ctxDone = FALSE
  /\ controlUp = TRUE
  /\ listenerOpen = TRUE
  /\ loop = "running"
  /\ pending = {}
  /\ buffer = [s \in Sessions |-> NoConn]
  /\ closed = [s \in Sessions |-> FALSE]
  /\ pc = [s \in Sessions |-> "idle"]
  /\ ext = [t \in TcpSessions |-> "none"]
  /\ conn = [s \in Sessions |-> NoConn]
  /\ copying = [t \in TcpSessions |-> {}]
  /\ sessionCnt = 0
  /\ asked = {}
  /\ target = [w \in WorkConns |-> NoSession]
  /\ work = [w \in WorkConns |-> "none"]
  /\ stop = [k \in Stoppers |-> "idle"]

Goto(s, to) == pc' = [pc EXCEPT ![s] = to]

\* Close the external connection, if s is a TCP session.
CloseExternal(s) ==
  ext' = [t \in TcpSessions |-> IF t = s THEN "closed" ELSE ext[t]]

-------------------------------------------------------------------------------
(* Opening a session: acceptLoop and the first half of OpenWorkConn.        *)

LoopFree == \A t \in TcpSessions : pc[t] \notin InLoop

Accept(t) ==
  /\ loop = "running"
  /\ LoopFree
  /\ listenerOpen
  /\ pc[t] = "idle"
  /\ Goto(t, "accepted")
  /\ ext' = [ext EXCEPT ![t] = "open"]
  /\ UNCHANGED <<proxyVars, chanVars, workVars, bridgeVars>>

\* Accept fails on the closed listener; the loop returns once p.ctx is done.
LoopExits ==
  /\ loop = "running"
  /\ LoopFree
  /\ ~listenerOpen
  /\ ctxDone
  /\ loop' = "exited"
  /\ UNCHANGED <<routable, ctxDone, controlUp, listenerOpen, stop, pc, ext,
                 chanVars, workVars, bridgeVars>>

\* The gateway holds a *Proxy it looked up earlier, so this can follow Stop.
OpenWorkConn(h) ==
  /\ pc[h] = "idle"
  /\ Goto(h, "accepted")
  /\ UNCHANGED <<proxyVars, chanVars, workVars, bridgeVars, ext>>

\* p.pendingSessions[sessionID] = ch, under pendingMu.
Register(s) ==
  /\ pc[s] = "accepted"
  /\ pending' = pending \cup {s}
  /\ Goto(s, "registered")
  /\ UNCHANGED <<proxyVars, buffer, closed, workVars, bridgeVars, ext>>

SendStartWorkConn(s) ==
  /\ pc[s] = "registered"
  /\ controlUp
  /\ asked' = asked \cup {s}
  /\ Goto(s, "waiting")
  /\ UNCHANGED <<proxyVars, chanVars, target, work, bridgeVars, ext>>

\* The write fails: acceptLoop closes the external connection at once.
SendFails(s) ==
  /\ pc[s] = "registered"
  /\ ~controlUp
  /\ Goto(s, "sendFailed")
  /\ CloseExternal(s)
  /\ UNCHANGED <<proxyVars, chanVars, workVars, bridgeVars>>

\* Mutant: the session ends without removePending.
RemovePendingForgets(s) ==
  /\ pc[s] \in {"sendFailed", "leaving"}
  /\ Goto(s, "ended")
  /\ UNCHANGED <<proxyVars, chanVars, workVars, bridgeVars, ext>>

\* removePending after a failed send or after OpenWorkConn gave up.
RemovePending(s) ==
  /\ pc[s] \in {"sendFailed", "leaving"}
  /\ pending' = pending \ {s}
  /\ Goto(s, "ended")
  /\ UNCHANGED <<proxyVars, buffer, closed, workVars, bridgeVars, ext>>

-------------------------------------------------------------------------------
(* The select of waitForWorkConn and of OpenWorkConn.                       *)

\* case workConn, ok := <-ch with ok: the session takes the work connection;
\* a TCP session starts the two copiers of Bridge.
ReceiveWorkConn(s) ==
  /\ pc[s] = "waiting"
  /\ buffer[s] # NoConn
  /\ conn' = [conn EXCEPT ![s] = buffer[s]]
  /\ work' = [work EXCEPT ![buffer[s]] = "joined"]
  /\ buffer' = [buffer EXCEPT ![s] = NoConn]
  /\ copying' = [t \in TcpSessions |-> IF t = s THEN Directions ELSE copying[t]]
  /\ Goto(s, "joined")
  /\ UNCHANGED <<proxyVars, pending, closed, asked, target, sessionCnt, ext>>

\* Mutant: the select got a default case, so the wait ends on an empty channel.
ReceiveClosedNonBlocking(s) ==
  /\ pc[s] = "waiting"
  /\ buffer[s] = NoConn
  /\ Goto(s, "ended")
  /\ CloseExternal(s)
  /\ UNCHANGED <<proxyVars, chanVars, workVars, bridgeVars>>

\* Mutant: `ok` is not looked at, and the nil work connection is bridged.
ReceiveClosedUnchecked(s) ==
  /\ pc[s] = "waiting"
  /\ buffer[s] = NoConn
  /\ closed[s]
  /\ Goto(s, "joined")
  /\ UNCHANGED <<proxyVars, chanVars, workVars, bridgeVars, ext>>

\* case workConn, ok := <-ch with !ok: Stop closed the channel.
ReceiveClosed(s) ==
  /\ pc[s] = "waiting"
  /\ buffer[s] = NoConn
  /\ closed[s]
  /\ Goto(s, "ended")
  /\ CloseExternal(s)
  /\ UNCHANGED <<proxyVars, chanVars, workVars, bridgeVars>>

\* Mutant: p.ctx.Done ends the wait but the external connection stays open.
WaitCancelledLeaks(t) ==
  /\ pc[t] = "waiting"
  /\ ctxDone
  /\ Goto(t, "ended")
  /\ UNCHANGED <<proxyVars, chanVars, workVars, bridgeVars, ext>>

\* Mutant: the p.ctx.Done case is dropped, since Stop closes the channels.
WaitCancelledDropped(t) == FALSE

\* case <-p.ctx.Done() in waitForWorkConn: pendingSessions is left alone.
WaitCancelled(t) ==
  /\ pc[t] = "waiting"
  /\ ctxDone
  /\ Goto(t, "ended")
  /\ CloseExternal(t)
  /\ UNCHANGED <<proxyVars, chanVars, workVars, bridgeVars>>

\* case <-ctx.Done() in OpenWorkConn: the HTTP request went away.
RequestCancelled(h) ==
  /\ pc[h] = "waiting"
  /\ Goto(h, "leaving")
  /\ UNCHANGED <<proxyVars, chanVars, workVars, bridgeVars, ext>>

\* Mutant: the wait has no timer.
WaitTimedOutDropped(h) == FALSE

\* case <-time.After(WorkConnTimeout) in OpenWorkConn.
WaitTimedOut(h) ==
  /\ pc[h] = "waiting"
  /\ Goto(h, "leaving")
  /\ UNCHANGED <<proxyVars, chanVars, workVars, bridgeVars, ext>>

-------------------------------------------------------------------------------
(* A work connection: handleWorkConnStream and DeliverWorkConn.             *)

\* The client answers a StartWorkConn; the server looks the proxy up.
WorkConnArrives(w, s) ==
  /\ work[w] = "none"
  /\ s \in asked
  /\ target' = [target EXCEPT ![w] = s]
  /\ work' = [work EXCEPT ![w] = IF routable THEN "found" ELSE "closed"]
  /\ UNCHANGED <<proxyVars, chanVars, asked, bridgeVars, pc, ext>>

\* Mutant: the channel is looked up but not deleted from the map.
TakePendingKeeps(w) ==
  /\ work[w] = "found"
  /\ work' = [work EXCEPT ![w] =
                IF target[w] \in pending THEN "sending" ELSE "closed"]
  /\ UNCHANGED <<proxyVars, chanVars, asked, target, bridgeVars, pc, ext>>

\* Under pendingMu: take the channel out of the map, or reject.
TakePending(w) ==
  /\ work[w] = "found"
  /\ work' = [work EXCEPT ![w] =
                IF target[w] \in pending THEN "sending" ELSE "closed"]
  /\ pending' = pending \ {target[w]}
  /\ UNCHANGED <<proxyVars, buffer, closed, asked, target, bridgeVars, pc, ext>>

\* Mutant: no return after the send, so the work connection is closed too.
SendOnChannelCloses(w) ==
  LET s == target[w] IN
  /\ work[w] = "sending"
  /\ IF buffer[s] = NoConn THEN buffer' = [buffer EXCEPT ![s] = w] ELSE UNCHANGED buffer
  /\ work' = [work EXCEPT ![w] = "closed"]
  /\ UNCHANGED <<proxyVars, pending, closed, asked, target, bridgeVars, pc, ext>>

\* Outside pendingMu: the non-blocking send, which rejects if ch is full.
SendOnChannel(w) ==
  LET s == target[w] IN
  /\ work[w] = "sending"
  /\ IF buffer[s] = NoConn
       THEN /\ buffer' = [buffer EXCEPT ![s] = w]
            /\ work' = [work EXCEPT ![w] = "buffered"]
       ELSE /\ work' = [work EXCEPT ![w] = "closed"]
            /\ UNCHANGED buffer
  /\ UNCHANGED <<proxyVars, pending, closed, asked, target, bridgeVars, pc, ext>>

-------------------------------------------------------------------------------
(* ProxySession.Bridge, and the gateway's use of its connection.            *)

\* io.Copy returns (peer closed, error, or closeBoth by the other copier) and
\* closeBoth closes both ends, whichever copier is first.
CopyEnds(t, d) ==
  /\ pc[t] = "joined"
  /\ d \in copying[t]
  /\ copying' = [copying EXCEPT ![t] = @ \ {d}]
  /\ work' = [work EXCEPT ![conn[t]] = "closed"]
  /\ CloseExternal(t)
  /\ UNCHANGED <<proxyVars, chanVars, asked, target, conn, sessionCnt, pc>>

\* Mutant: sessionCnt is treated as a gauge of running sessions.
BridgeCompletesDown(t) ==
  /\ pc[t] = "joined"
  /\ copying[t] = {}
  /\ sessionCnt' = sessionCnt - 1
  /\ Goto(t, "completed")
  /\ UNCHANGED <<proxyVars, chanVars, workVars, conn, copying, ext>>

\* wg.Wait returns; onSessionComplete counts the session.
BridgeCompletes(t) ==
  /\ pc[t] = "joined"
  /\ copying[t] = {}
  /\ sessionCnt' = sessionCnt + 1
  /\ Goto(t, "completed")
  /\ UNCHANGED <<proxyVars, chanVars, workVars, conn, copying, ext>>

\* The HTTP transport closes the connection after the response (keep-alives
\* are disabled).
GatewayDone(h) ==
  /\ pc[h] = "joined"
  /\ work' = [work EXCEPT ![conn[h]] = "closed"]
  /\ Goto(h, "completed")
  /\ UNCHANGED <<proxyVars, chanVars, asked, target, bridgeVars, ext>>

-------------------------------------------------------------------------------
(* The client's context and connection, and Stop.                           *)

\* cc.cancel: heartbeat timeout, admin disconnect, cleanup or Shutdown.
CancelClient ==
  /\ ~ctxDone
  /\ ctxDone' = TRUE
  /\ UNCHANGED <<routable, controlUp, listenerOpen, loop, stop, chanVars,
                 workVars, bridgeVars, pc, ext>>

\* The control connection is closed, here or by the network.
LoseControl ==
  /\ controlUp
  /\ controlUp' = FALSE
  /\ UNCHANGED <<routable, ctxDone, listenerOpen, loop, stop, chanVars,
                 workVars, bridgeVars, pc, ext>>

\* handleCloseProxy, or cleanup once the read loop has failed: the proxy
\* leaves cc.proxies, then Stop is called.
RemoveProxy ==
  /\ routable
  /\ routable' = FALSE
  /\ stop' = [stop EXCEPT !["owner"] = "called"]
  /\ UNCHANGED <<ctxDone, controlUp, listenerOpen, loop, chanVars, workVars,
                 bridgeVars, pc, ext>>

\* Server.Shutdown stops proxies after it cancelled and closed the clients.
ShutdownStops ==
  /\ stop["shutdown"] = "idle"
  /\ ctxDone
  /\ ~controlUp
  /\ stop' = [stop EXCEPT !["shutdown"] = "called"]
  /\ UNCHANGED <<routable, ctxDone, controlUp, listenerOpen, loop, chanVars,
                 workVars, bridgeVars, pc, ext>>

StopCancels(k) ==
  /\ stop[k] = "called"
  /\ ctxDone' = TRUE
  /\ stop' = [stop EXCEPT ![k] = "cancelled"]
  /\ UNCHANGED <<routable, controlUp, listenerOpen, loop, chanVars, workVars,
                 bridgeVars, pc, ext>>

StopClosesListener(k) ==
  /\ stop[k] = "cancelled"
  /\ listenerOpen' = FALSE
  /\ stop' = [stop EXCEPT ![k] = "unlistened"]
  /\ UNCHANGED <<routable, ctxDone, controlUp, loop, chanVars, workVars,
                 bridgeVars, pc, ext>>

\* Mutant: the channels are closed but stay in the map.
StopDrainsKeeps(k) ==
  /\ stop[k] = "unlistened"
  /\ closed' = [s \in Sessions |-> closed[s] \/ s \in pending]
  /\ stop' = [stop EXCEPT ![k] = "done"]
  /\ UNCHANGED <<routable, ctxDone, controlUp, listenerOpen, loop, pending,
                 buffer, workVars, bridgeVars, pc, ext>>

\* Under pendingMu: close every registered channel and empty the map.
StopDrains(k) ==
  /\ stop[k] = "unlistened"
  /\ closed' = [s \in Sessions |-> closed[s] \/ s \in pending]
  /\ pending' = {}
  /\ stop' = [stop EXCEPT ![k] = "done"]
  /\ UNCHANGED <<routable, ctxDone, controlUp, listenerOpen, loop, buffer,
                 workVars, bridgeVars, pc, ext>>

-------------------------------------------------------------------------------

Waiter(s) ==
  \/ ReceiveWorkConn(s)
  \/ ReceiveClosed(s)
  \/ s \in TcpSessions /\ WaitCancelled(s)
  \/ s \in HttpSessions /\ WaitTimedOut(s)

Opener(s) ==
  Register(s) \/ SendStartWorkConn(s) \/ SendFails(s) \/ RemovePending(s)

Deliverer(w) == TakePending(w) \/ SendOnChannel(w)

Stopping(k) == StopCancels(k) \/ StopClosesListener(k) \/ StopDrains(k)

Next ==
  \/ \E s \in Sessions : Opener(s) \/ Waiter(s)
  \/ \E t \in TcpSessions :
       \/ Accept(t)
       \/ BridgeCompletes(t)
       \/ \E d \in Directions : CopyEnds(t, d)
  \/ \E h \in HttpSessions :
       OpenWorkConn(h) \/ RequestCancelled(h) \/ GatewayDone(h)
  \/ \E w \in WorkConns :
       \/ Deliverer(w)
       \/ \E s \in Sessions : WorkConnArrives(w, s)
  \/ \E k \in Stoppers : Stopping(k)
  \/ LoopExits
  \/ CancelClient
  \/ LoseControl
  \/ RemoveProxy
  \/ ShutdownStops

\* The scheduler runs every goroutine that can run.  Nothing makes a peer
\* accept, dial, hang up or disconnect; but a control connection that is gone
\* fails the read loop, whose cleanup stops the proxy, and a copier whose
\* connections were closed by the other one returns.
Fairness ==
  /\ \A s \in Sessions : WF_vars(Opener(s)) /\ WF_vars(Waiter(s))
  /\ \A w \in WorkConns : WF_vars(Deliverer(w))
  /\ \A k \in Stoppers : WF_vars(Stopping(k))
  /\ \A t \in TcpSessions :
       /\ WF_vars(BridgeCompletes(t))
       /\ \A d \in Directions :
            WF_vars(copying[t] # Directions /\ CopyEnds(t, d))
  /\ WF_vars(LoopExits)
  /\ WF_vars(~controlUp /\ RemoveProxy)

Spec == Init /\ [][Next]_vars
FairSpec == Spec /\ Fairness

-------------------------------------------------------------------------------
(* Properties.                                                              *)

TypeOK ==
  /\ routable \in BOOLEAN
  /\ ctxDone \in BOOLEAN
  /\ controlUp \in BOOLEAN
  /\ listenerOpen \in BOOLEAN
  /\ loop \in {"running", "exited"}
  /\ pending \subseteq Sessions
  /\ buffer \in [Sessions -> WorkConns \cup {NoConn}]
  /\ closed \in [Sessions -> BOOLEAN]
  /\ pc \in [Sessions -> Phases]
  /\ ext \in [TcpSessions -> {"none", "open", "closed"}]
  /\ conn \in [Sessions -> WorkConns \cup {NoConn}]
  /\ copying \in [TcpSessions -> SUBSET Directions]
  /\ sessionCnt \in Nat
  /\ asked \subseteq Sessions
  /\ target \in [WorkConns -> Sessions \cup {NoSession}]
  /\ work \in [WorkConns -> {"none", "found", "sending", "buffered", "joined", "closed"}]
  /\ stop \in [Stoppers -> {"idle", "called", "cancelled", "unlistened", "done"}]

\* The server cannot panic on a channel.  Stop closes a channel only while it
\* is registered and not yet closed; DeliverWorkConn sends after it released
\* pendingMu, yet never on a closed channel and never on a full one (its
\* `default:` branch is dead code), although Stop may run in between.
ChannelSafe ==
  /\ \A s \in pending : ~closed[s] /\ buffer[s] = NoConn
  /\ \A w \in WorkConns : work[w] = "sending" =>
       /\ target[w] \notin pending
       /\ ~closed[target[w]]
       /\ buffer[target[w]] = NoConn

\* However many work connections name a session, at most one of them ever gets
\* past pendingSessions: being taken out of the map is what serialises them.
OneDelivery ==
  \A v, w \in WorkConns :
    /\ work[v] \in {"sending", "buffered", "joined"}
    /\ work[w] \in {"sending", "buffered", "joined"}
    /\ target[v] = target[w]
    => v = w

\* While the proxy runs, pendingSessions holds no entry whose waiter is gone.
\* (After p.ctx is cancelled waitForWorkConn leaves its entry behind.)
NoStalePending ==
  ~ctxDone => \A s \in pending : pc[s] \notin {"idle", "accepted"} \cup Over

\* A work connection is left in a channel nobody will read, and so never
\* closed, only if the wait was given up: the proxy was cancelled, or an HTTP
\* request timed out or went away between DeliverWorkConn's map lookup and the
\* receive.  A running proxy never strands the connection of a TCP session.
StrandedOnlyAfterGiveUp ==
  \A w \in WorkConns :
    /\ work[w] \in {"sending", "buffered"}
    /\ pc[target[w]] \in Over \cup {"leaving"}
    => ctxDone \/ target[w] \in HttpSessions

\* When a TCP session is over its external connection is closed, and so is
\* the work connection it was bridged with; completed bridges, and only they,
\* are counted in sessionCnt, once.
SessionsReleased ==
  /\ \A t \in TcpSessions : pc[t] \in Over => ext[t] = "closed"
  /\ \A s \in Sessions :
       /\ pc[s] = "completed" => work[conn[s]] = "closed"
       /\ pc[s] = "ended" => conn[s] = NoConn
  /\ sessionCnt = Cardinality({t \in TcpSessions : pc[t] = "completed"})

\* A bridge starts with both of its ends open: neither a timeout, nor Stop, nor
\* another bridge has closed them while the session waited.
BridgeStartsOpen ==
  [][\A s \in Sessions :
       pc[s] # "joined" /\ pc'[s] = "joined" =>
         /\ work[conn'[s]] = "buffered"
         /\ s \in TcpSessions => ext[s] = "open"]_vars

\* Where a session is, for a reader who does not see the proxy's goroutines.
sessionPhase ==
  [s \in Sessions |-> CASE pc[s] = "idle" -> "new"
                        [] pc[s] = "joined" -> "joined"
                        [] pc[s] \in Over -> "over"
                        [] OTHER -> "open"]

R == INSTANCE Rendezvous WITH phase <- sessionPhase, partner <- conn

\* The promise of Rendezvous: each session is joined at most once, with a work
\* connection that was dialled for it and serves no other session.
ImplementsRendezvous == R!Spec

\* OpenWorkConn returns to the gateway whatever the client does, because it
\* waits at most WorkConnTimeout.
HttpWaitReturns ==
  \A h \in HttpSessions : pc[h] = "accepted" ~> pc[h] \in Over \cup {"joined"}

\* Once the control connection is gone the accept loop exits and no external
\* connection is left waiting: each is closed or in a bridge that was made
\* before (bridges are not cut by Stop).
ControlLossSettles ==
  ~controlUp ~>
    /\ loop = "exited"
    /\ \A t \in TcpSessions : pc[t] \in Over \cup {"idle", "joined"}

\* config.go describes WorkConnTimeout as "timeout waiting for work
\* connection": a wait for a work connection ends.  waitForWorkConn, the wait
\* of a TCP session, does not use it.
WaitEnds ==
  \A s \in Sessions : pc[s] = "waiting" ~> pc[s] # "waiting"

-------------------------------------------------------------------------------
(* The inductive invariant from which RelaySessionsProofs proves the safety *)
(* properties.  Its parts follow a channel from pendingSessions, through    *)
(* DeliverWorkConn, to the session that receives from it.                   *)

\* A registered channel is open and empty, and no delivery is under way on it.
PendingInv ==
  \A s \in pending :
    /\ ~closed[s]
    /\ buffer[s] = NoConn
    /\ conn[s] = NoConn
    /\ \A w \in WorkConns :
         target[w] = s => work[w] \notin {"sending", "buffered", "joined"}

\* Before registration nothing knows the session; only a session whose
\* StartWorkConn was sent can be named by a work connection.
FreshInv ==
  /\ \A s \in Sessions :
       /\ pc[s] \in {"idle", "accepted"} =>
            s \notin pending /\ buffer[s] = NoConn /\ ~closed[s]
       /\ pc[s] \in InLoop \cup {"idle"} => s \notin asked
       /\ pc[s] \notin {"joined", "completed"} => conn[s] = NoConn
  /\ \A w \in WorkConns :
       /\ work[w] = "none" <=> target[w] = NoSession
       /\ target[w] # NoSession => target[w] \in asked

\* A delivery that took the channel owns it until the session receives.
DeliveryInv ==
  /\ \A w \in WorkConns :
       /\ work[w] = "sending" => ~closed[target[w]] /\ buffer[target[w]] = NoConn
       /\ work[w] = "buffered" => buffer[target[w]] = w
       /\ work[w] \in {"sending", "buffered"} => conn[target[w]] = NoConn
       /\ work[w] = "joined" => conn[target[w]] = w
  /\ \A s \in Sessions : buffer[s] # NoConn =>
       work[buffer[s]] = "buffered" /\ target[buffer[s]] = s

\* A session that received holds a work connection dialled for it.
ConnInv ==
  \A s \in Sessions :
    /\ pc[s] \in {"joined", "completed"} => conn[s] # NoConn
    /\ conn[s] # NoConn =>
         /\ target[conn[s]] = s
         /\ work[conn[s]] \in {"joined", "closed"}
         /\ s \notin pending
    /\ pc[s] = "completed" => work[conn[s]] = "closed"

\* The external connection closes with the first copier, or with the wait.
ExternalInv ==
  \A t \in TcpSessions :
    /\ pc[t] \in {"accepted", "registered", "waiting"} => ext[t] = "open"
    /\ pc[t] \in {"sendFailed", "ended", "completed"} => ext[t] = "closed"
    /\ pc[t] # "leaving"
    /\ pc[t] = "joined" /\ copying[t] # Directions =>
         ext[t] = "closed" /\ work[conn[t]] = "closed"

\* onSessionComplete ran once for each completed bridge.
CountInv ==
  LET Completed == {t \in TcpSessions : pc[t] = "completed"} IN
  /\ IsFiniteSet(Completed)
  /\ sessionCnt = Cardinality(Completed)

SessionInv ==
  /\ TypeOK
  /\ PendingInv
  /\ FreshInv
  /\ DeliveryInv
  /\ OneDelivery
  /\ ConnInv
  /\ ExternalInv
  /\ NoStalePending
  /\ StrandedOnlyAfterGiveUp

IInv == SessionInv /\ CountInv

-------------------------------------------------------------------------------
\* For TLC: session ids of one kind and work connections are interchangeable,
\* and no property names one of them.
Symmetry == Permutations(TcpSessions) \cup Permutations(WorkConns)
===============================================================================
