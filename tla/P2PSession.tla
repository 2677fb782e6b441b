------------------------------ MODULE P2PSession ------------------------------
(***************************************************************************)
(* One direct connection between two desktop programs                      *)
(* (desktop/internal/p2p/engine.go, ice.go, punch.go): the initiator's     *)
(* InitiateP2P and HandleP2PAnswer, the responder's HandleP2POffer, the    *)
(* connectivity checks of both ICE agents, the hole punching that follows  *)
(* and Engine.Close at any time.                                           *)
(*                                                                         *)
(* A path stands for a pair of candidate addresses, the same one seen from *)
(* both ends; what it carries in either direction is up to the network.    *)
(* The socket of a session has several readers: the agent's loop, which    *)
(* nobody stops, the punch reader, then WireGuard.  A packet the wrong one *)
(* takes is lost like one the network drops: net keeps every punch packet  *)
(* sent, and each is read once, again or never.                            *)
(***************************************************************************)
EXTENDS Naturals, FiniteSets

CONSTANTS
  Paths,      \* pairs of candidates
  None        \* no path

\* What the constants must satisfy; the MC module assumes it.
NoneAssumption == None \notin Paths

VARIABLES
  carries,    \* carries[s]: paths on which packets of s reach the other side
  signal,     \* the offer and the answer on their way through the relay
  pc,         \* pc[s]: where the call that works on the session is
  engine,     \* engine[s]: e.state
  stored,     \* stored[s]: the session is in e.sessions
  socket,     \* socket[s]: the agent's UDP socket
  pair,       \* pair[s][p]: state of the candidate pair in the checklist
  selected,   \* selected[s]: a.selectedPair
  nominating, \* nominating[s]: pairs that succeeded and saw no selected pair
  reader,     \* reader[s]: readPunchPackets runs
  resp,       \* resp[s]: the path in respCh, or None
  net,        \* punch packets sent on a path that carries them
  result,     \* result[s]: the path Punch returned, or None
  wg,         \* wg[s]: the WireGuard device
  late        \* history, late[s]: a call ran on when e.Close was called

checks == <<pair, selected, nominating>>
punch == <<reader, resp, net, result>>
vars == <<carries, signal, pc, engine, stored, socket, checks, punch, wg, late>>

Sides == {"initiator", "responder"}
Peer(s) == IF s = "initiator" THEN "responder" ELSE "initiator"
Packets == [to : Sides, kind : {"syn", "synack", "ack"}, path : Paths]

TypeOK ==
  /\ carries \in [Sides -> SUBSET Paths]
  /\ signal \in {"none", "offer", "accept", "reject"}
  /\ pc \in [Sides -> {"idle", "gather", "send", "wait", "check", "punch",
                       "establish", "done", "failed"}]
  /\ engine \in [Sides -> {"idle", "exchanging", "checking", "punching",
                           "establishing", "connected", "failed", "closed"}]
  /\ stored \in [Sides -> BOOLEAN]
  /\ socket \in [Sides -> {"none", "open", "closed"}]
  /\ pair \in [Sides -> [Paths -> {"none", "waiting", "in_progress", "succeeded", "failed"}]]
  /\ selected \in [Sides -> Paths \cup {None}]
  /\ nominating \in [Sides -> SUBSET Paths]
  /\ reader \in [Sides -> BOOLEAN]
  /\ resp \in [Sides -> Paths \cup {None}]
  /\ net \subseteq Packets
  /\ result \in [Sides -> Paths \cup {None}]
  /\ wg \in [Sides -> {"none", "up", "closed"}]
  /\ late \in [Sides -> BOOLEAN]

Init ==
  /\ carries \in [Sides -> SUBSET Paths]
  /\ signal = "none"
  /\ pc = [s \in Sides |-> "idle"]
  /\ engine = [s \in Sides |-> "idle"]
  /\ stored = [s \in Sides |-> FALSE]
  /\ socket = [s \in Sides |-> "none"]
  /\ pair = [s \in Sides |-> [p \in Paths |-> "none"]]
  /\ selected = [s \in Sides |-> None]
  /\ nominating = [s \in Sides |-> {}]
  /\ reader = [s \in Sides |-> FALSE]
  /\ resp = [s \in Sides |-> None]
  /\ net = {}
  /\ result = [s \in Sides |-> None]
  /\ wg = [s \in Sides |-> "none"]
  /\ late = [s \in Sides |-> FALSE]

Goto(s, here) == pc' = [pc EXCEPT ![s] = here]
Working(s) == pc[s] \in {"gather", "send", "check", "punch", "establish"}
CloseSocket(s) == socket' = [socket EXCEPT ![s] = IF @ = "open" THEN "closed" ELSE @]
\* A packet of s can arrive on path p: it is carried and the peer listens.
Arrives(s, p) == p \in carries[s] /\ socket[s] = "open" /\ socket[Peer(s)] = "open"
Send(s, kind, p) ==
  net' = IF Arrives(s, p) THEN net \cup {[to |-> Peer(s), kind |-> kind, path |-> p]}
         ELSE net

-------------------------------------------------------------------------------
(* Signalling.                                                             *)

\* A call stores its session; Close is not looked at.
Begin(s) ==
  /\ pc[s] = "idle"
  /\ stored' = [stored EXCEPT ![s] = TRUE]
  /\ late' = [late EXCEPT ![s] = @ \/ engine[s] = "closed"]

Initiate ==
  /\ Begin("initiator")
  /\ Goto("initiator", "gather")
  /\ UNCHANGED <<carries, signal, engine, socket, checks, punch, wg>>

TakeOffer ==
  /\ signal = "offer"
  /\ signal' = "none"
  /\ Begin("responder")
  /\ Goto("responder", "gather")
  /\ UNCHANGED <<carries, engine, socket, checks, punch, wg>>

\* The two NATs do not match.
RefuseOffer ==
  /\ signal = "offer"
  /\ signal' \in {"reject", "none"}
  /\ Begin("responder")
  /\ Goto("responder", "failed")
  /\ UNCHANGED <<carries, engine, socket, checks, punch, wg>>

\* DetectNAT, when nothing is cached, or the bind of GatherCandidates fails.
GatherFails(s) ==
  /\ pc[s] = "gather"
  /\ Goto(s, "failed")
  /\ engine' \in {engine, [engine EXCEPT ![s] = "failed"]}
  /\ signal' \in IF s = "responder" THEN {"reject", "none"} ELSE {signal}
  /\ UNCHANGED <<carries, stored, socket, checks, punch, wg, late>>

Gather(s) ==
  /\ pc[s] = "gather"
  /\ socket' = [socket EXCEPT ![s] = "open"]
  /\ Goto(s, "send")
  /\ UNCHANGED <<carries, signal, engine, stored, checks, punch, wg, late>>

SendOffer ==
  /\ pc["initiator"] = "send"
  /\ signal' \in {"offer", "none"}     \* the relay may drop it
  /\ engine' = [engine EXCEPT !["initiator"] = "exchanging"]
  /\ Goto("initiator", "wait")
  /\ UNCHANGED <<carries, stored, socket, checks, punch, wg, late>>

BeginChecks(s) ==
  /\ pair' = [pair EXCEPT ![s] = [p \in Paths |-> "waiting"]]
  /\ engine' = [engine EXCEPT ![s] = "checking"]
  /\ Goto(s, "check")
  /\ UNCHANGED <<selected, nominating>>

SendAnswer ==
  /\ pc["responder"] = "send"
  /\ signal' \in {"accept", "none"}
  /\ BeginChecks("responder")
  /\ UNCHANGED <<carries, stored, socket, punch, wg, late>>

SendFails(s) ==
  /\ pc[s] = "send"
  /\ CloseSocket(s)
  /\ Goto(s, "failed")
  /\ UNCHANGED <<carries, signal, engine, stored, checks, punch, wg, late>>

TakeAnswer ==
  /\ signal = "accept" /\ pc["initiator"] = "wait"
  /\ stored["initiator"]
  /\ signal' = "none"
  /\ BeginChecks("initiator")
  /\ UNCHANGED <<carries, stored, socket, punch, wg, late>>

\* The session is closed and gone, or the answer is a refusal.
AnswerIsNo ==
  /\ signal \in {"accept", "reject"} /\ pc["initiator"] = "wait"
  /\ signal = "reject" \/ ~stored["initiator"]
  /\ signal' = "none"
  /\ Goto("initiator", "failed")
  /\ UNCHANGED <<carries, engine, stored, socket, checks, punch, wg, late>>

-------------------------------------------------------------------------------
(* Connectivity checks.                                                    *)

\* One tick of StartChecks takes the next waiting pair.
StartCheck(s, p) ==
  /\ pc[s] = "check" /\ pair[s][p] = "waiting"
  /\ pair' = [pair EXCEPT ![s][p] = "in_progress"]
  /\ UNCHANGED <<carries, signal, pc, engine, stored, socket, selected, nominating, punch, wg, late>>

\* The agent's loop of the peer answers, and ours hands the answer over.
CheckSucceeds(s, p) ==
  /\ pair[s][p] = "in_progress"
  /\ Arrives(s, p) /\ Arrives(Peer(s), p)
  /\ pair' = [pair EXCEPT ![s][p] = "succeeded"]
  /\ nominating' = [nominating EXCEPT ![s] = IF selected[s] = None THEN @ \cup {p} ELSE @]
  /\ UNCHANGED <<carries, signal, pc, engine, stored, socket, selected, punch, wg, late>>

Nominate(s, p) ==
  /\ p \in nominating[s]
  /\ nominating' = [nominating EXCEPT ![s] = @ \ {p}]
  /\ selected' = [selected EXCEPT ![s] = p]
  /\ UNCHANGED <<carries, signal, pc, engine, stored, socket, pair, punch, wg, late>>

CheckFails(s, p) ==
  /\ pair[s][p] = "in_progress"
  /\ pair' = [pair EXCEPT ![s][p] = "failed"]
  /\ UNCHANGED <<carries, signal, pc, engine, stored, socket, selected, nominating, punch, wg, late>>

ChecksPass(s) ==
  /\ pc[s] = "check"
  /\ \A p \in Paths : pair[s][p] # "waiting"
  /\ selected[s] # None
  /\ engine' = [engine EXCEPT ![s] = "punching"]
  /\ reader' = [reader EXCEPT ![s] = TRUE]
  /\ Goto(s, "punch")
  /\ UNCHANGED <<carries, signal, stored, socket, checks, resp, net, result, wg, late>>

\* Only the responder's call closes the agent.
GiveUp(s) ==
  /\ Goto(s, "failed")
  /\ IF s = "responder" THEN CloseSocket(s) ELSE UNCHANGED socket

\* All pairs failed, MaxCheckTime is over or the context is done.
ChecksFail(s) ==
  /\ pc[s] = "check"
  /\ GiveUp(s)
  /\ UNCHANGED <<carries, signal, engine, stored, checks, punch, wg, late>>

-------------------------------------------------------------------------------
(* Hole punching.                                                          *)

SendSyn(s) ==
  /\ pc[s] = "punch"
  /\ Send(s, "syn", selected[s])
  /\ UNCHANGED <<carries, signal, pc, engine, stored, socket, checks, reader, resp, result, wg, late>>

Reads(s, m) == m.to = s /\ reader[s] /\ socket[s] = "open"

ReadSyn(s, m) ==
  /\ Reads(s, m) /\ m.kind = "syn"
  /\ Send(s, "synack", m.path)
  /\ UNCHANGED <<carries, signal, pc, engine, stored, socket, checks, reader, resp, result, wg, late>>

ReadAnswer(s, m) ==
  /\ Reads(s, m) /\ m.kind \in {"synack", "ack"}
  /\ IF m.kind = "synack" THEN Send(s, "ack", m.path) ELSE UNCHANGED net
  /\ resp' = [resp EXCEPT ![s] = m.path]
  /\ reader' = [reader EXCEPT ![s] = FALSE]
  /\ UNCHANGED <<carries, signal, pc, engine, stored, socket, checks, result, wg, late>>

\* The reader looks at doneCh only between two packets.
ReaderStops(s) ==
  /\ reader[s] /\ pc[s] # "punch"
  /\ reader' = [reader EXCEPT ![s] = FALSE]
  /\ UNCHANGED <<carries, signal, pc, engine, stored, socket, checks, resp, net, result, wg, late>>

Verified(s) ==
  /\ pc[s] = "punch" /\ resp[s] # None
  /\ result' = [result EXCEPT ![s] = resp[s]]
  /\ engine' = [engine EXCEPT ![s] = "establishing"]
  /\ Goto(s, "establish")
  /\ UNCHANGED <<carries, signal, stored, socket, checks, reader, resp, net, wg, late>>

PunchFails(s) ==
  /\ pc[s] = "punch"
  /\ GiveUp(s)
  /\ UNCHANGED <<carries, signal, engine, stored, checks, punch, wg, late>>

Establish(s) ==
  /\ pc[s] = "establish"
  /\ wg' = [wg EXCEPT ![s] = "up"]
  /\ engine' = [engine EXCEPT ![s] = "connected"]
  /\ Goto(s, "done")
  /\ UNCHANGED <<carries, signal, stored, socket, checks, punch, late>>

EstablishFails(s) ==
  /\ pc[s] = "establish"
  /\ wg' = [wg EXCEPT ![s] = "closed"]
  /\ GiveUp(s)
  /\ UNCHANGED <<carries, signal, engine, stored, checks, punch, late>>

\* Mutant: the agent is left to its loop.
CloseKeepsAgent(s) ==
  /\ engine[s] # "closed"
  /\ engine' = [engine EXCEPT ![s] = "closed"]
  /\ stored' = [stored EXCEPT ![s] = FALSE]
  /\ wg' = [wg EXCEPT ![s] = IF @ = "up" THEN "closed" ELSE @]
  /\ late' = [late EXCEPT ![s] = @ \/ Working(s)]
  /\ UNCHANGED <<carries, signal, pc, socket, checks, punch>>

Close(s) ==
  /\ engine[s] # "closed"
  /\ engine' = [engine EXCEPT ![s] = "closed"]
  /\ stored' = [stored EXCEPT ![s] = FALSE]
  /\ IF stored[s]
     THEN /\ CloseSocket(s)
          /\ wg' = [wg EXCEPT ![s] = IF @ = "up" THEN "closed" ELSE @]
     ELSE UNCHANGED <<socket, wg>>
  /\ late' = [late EXCEPT ![s] = @ \/ Working(s)]
  /\ UNCHANGED <<carries, signal, pc, checks, punch>>

-------------------------------------------------------------------------------
Signalling ==
  \/ Initiate \/ TakeOffer \/ RefuseOffer \/ SendOffer \/ SendAnswer
  \/ TakeAnswer \/ AnswerIsNo
  \/ \E s \in Sides : GatherFails(s) \/ Gather(s) \/ SendFails(s)

Checking ==
  \E s \in Sides :
    \/ ChecksPass(s) \/ ChecksFail(s)
    \/ \E p \in Paths : \/ StartCheck(s, p) \/ CheckSucceeds(s, p)
                        \/ Nominate(s, p) \/ CheckFails(s, p)

Punching ==
  \/ \E m \in net, s \in Sides : ReadSyn(s, m) \/ ReadAnswer(s, m)
  \/ \E s \in Sides : \/ SendSyn(s) \/ ReaderStops(s) \/ Verified(s)
                      \/ PunchFails(s) \/ Establish(s) \/ EstablishFails(s)

Next == Signalling \/ Checking \/ Punching \/ \E s \in Sides : Close(s)

Spec == Init /\ [][Next]_vars

-------------------------------------------------------------------------------
\* A side takes a path for verified only if packets pass it both ways: the
\* punch reader never returns on a packet its peer sent unasked
\* (readPunchPackets, Punch), whoever else reads the sockets.
VerifiedBothWays ==
  \A s \in Sides : result[s] # None =>
    result[s] \in carries["initiator"] \cap carries["responder"]

\* Engine.Close leaves no socket and no WireGuard device behind, unless a call
\* on the session was inside the engine when it came, or came after it.
ClosedReleases ==
  \A s \in Sides : engine[s] = "closed" /\ ~late[s] =>
    socket[s] # "open" /\ wg[s] # "up"
===============================================================================
