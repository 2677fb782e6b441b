---------------------------- MODULE MCDesktopPaths ----------------------------
(***************************************************************************)
(* What the desktop program does about paths to its peers, for TLC: the    *)
(* detection of the NAT, a direct session, the choice of a relay, the      *)
(* probes of a link, the scheduler of paths, the migrator, the mesh, what  *)
(* is forwarded over the relay, and the wire protocol under all of it.  A  *)
(* behaviour is one of one part, as in MCDesktopApp.                       *)
(***************************************************************************)
EXTENDS Naturals, Sequences, TLC

CONSTANTS Paths, Ids, Callers, Loop, None, Ifaces, Addrs, Cap,
          Nodes, Limit, MaxUp, MaxDown, MaxJoins, MaxChunks,
          Retries, Slowest, MaxProbes, Window,
          WireCap, MaxMsgs, MaxRaw

VARIABLES
  part,
  carries, signal, pc, engine, stored, socket, pair, selected, nominating,
  reader, resp, net, result, wg, late,
  paths, lost, lossy, active, locked, cooling, evaluating, heard, call, overlapped,
  addresses, known, events, migration, running, alive, taken, seen, blind, twice,
  linked, served, up, down, meshPeers, sending, state, looping, peers, age, routes,
  offered, joins, told,
  quic, chan, shut, copy, relay, client, sent, got, broken,
  device, honours, listening, test, attempt, step, expired, requests, answers, mapped,
  verdict, spoiled,
  dial, connected, latency, live, chosen, cancelled, loop, looked, candidates, since, ever,
  probing, probes, entries, appending, pruned, wire, read, metrics, raced, tardy,
  use, lock, writing, stream, end, closed, framing, held, order, handled, rawSent, raw

sessionVars == <<carries, signal, pc, engine, stored, socket, pair, selected,
                 nominating, reader, resp, net, result, wg, late>>
schedulerVars == <<paths, lost, lossy, active, locked, cooling, evaluating, heard,
                   call, overlapped>>
migrationVars == <<addresses, known, events, migration, running, alive, taken, seen,
                   blind, twice>>
meshVars == <<linked, served, up, down, meshPeers, sending, state, looping, peers,
              age, routes, offered, joins, told>>
forwardingVars == <<quic, chan, shut, copy, relay, client, sent, got, broken>>
natVars == <<device, honours, listening, test, attempt, step, expired, requests, answers,
             mapped, verdict, spoiled>>
relayVars == <<dial, connected, latency, live, chosen, cancelled, loop, looked, candidates,
               since, ever>>
probeVars == <<probing, probes, entries, appending, pruned, wire, read, metrics, raced, tardy>>
wireVars == <<use, lock, writing, stream, end, closed, framing, held, order, handled,
              rawSent, raw>>
vars == <<part, sessionVars, schedulerVars, migrationVars, meshVars, forwardingVars,
          natVars, relayVars, probeVars, wireVars>>

Session == INSTANCE P2PSession
Scheduler == INSTANCE PathScheduler WITH down <- lost, running <- evaluating
Migration == INSTANCE NetworkMigration WITH net <- addresses, state <- migration
Mesh == INSTANCE Mesh
Forwarding == INSTANCE WorkConns
Detection == INSTANCE NatDetection
Choice == INSTANCE RelaySelection WITH Relays <- Paths, alive <- live, active <- chosen
Prober == INSTANCE LinkProbing WITH running <- probing, late <- tardy
Protocol == INSTANCE WireProtocol
  WITH Writers <- Ids, Cap <- WireCap, reader <- framing

\* What the parts take for granted of their constants.
ASSUME ConstantsFit ==
  /\ Session!NoneAssumption
  /\ Scheduler!NoneAssumption
  /\ Migration!NoneAssumption /\ Migration!CapAssumption /\ Migration!IfacesAssumption
  /\ Mesh!BoundsAssumption /\ Mesh!NodesAssumption
  /\ Forwarding!BoundAssumption
  /\ Detection!RetriesAssumption
  /\ Choice!SlowestAssumption /\ Choice!NoneAssumption
  /\ Prober!WindowAssumption /\ Prober!NoneAssumption
  /\ Protocol!NoneAssumption /\ Protocol!BoundsAssumption

Init ==
  /\ part \in {"session", "scheduler", "migration", "mesh", "forwarding",
              "nat", "relays", "probing", "wire"}
  /\ Session!Init /\ Scheduler!Init /\ Migration!Init /\ Mesh!Init /\ Forwarding!Init
  /\ Detection!Init /\ Choice!Init /\ Prober!Init
  /\ Protocol!Init
  /\ part # "forwarding" => quic
  /\ part # "session" => \A s \in Session!Sides : carries[s] = {}
  /\ part # "wire" => use = "control"
  /\ part # "nat" => device = "open" /\ honours
  /\ part # "migration" => \A i \in Ifaces : addresses[i] = None

Next ==
  /\ UNCHANGED part
  /\ IF part = "session" THEN Session!Next ELSE UNCHANGED sessionVars
  /\ IF part = "scheduler" THEN Scheduler!Next ELSE UNCHANGED schedulerVars
  /\ IF part = "migration" THEN Migration!Next ELSE UNCHANGED migrationVars
  /\ IF part = "mesh" THEN Mesh!Next ELSE UNCHANGED meshVars
  /\ IF part = "forwarding" THEN Forwarding!Next ELSE UNCHANGED forwardingVars
  /\ IF part = "nat" THEN Detection!Next ELSE UNCHANGED natVars
  /\ IF part = "relays" THEN Choice!Next ELSE UNCHANGED relayVars
  /\ IF part = "probing" THEN Prober!Next ELSE UNCHANGED probeVars
  /\ IF part = "wire" THEN Protocol!Next ELSE UNCHANGED wireVars

Spec == Init /\ [][Next]_vars

Symmetry == Permutations(Ids) \cup Permutations(Addrs)

-------------------------------------------------------------------------------
\* A verified path carries packets both ways, and a closed session keeps
\* neither its socket nor its device (punch.go: readPunchPackets, Punch;
\* engine.go: Close); the type of the NAT it starts from is the one the answers
\* show, with the address they show (nat/detect.go).
SessionIsSound ==
  /\ part = "session" =>
       Session!TypeOK /\ Session!VerifiedBothWays /\ Session!ClosedReleases
  /\ part = "nat" => Detection!TypeOK /\ Detection!VerdictIsTrue /\ Detection!PublishedIsMapped

\* The active path is a registered one (scheduler.go), the active relay a
\* connected one of least latency after an undisturbed evaluation
\* (relay/manager.go), and the loss both are chosen by counts every probe once
\* (probe/loss.go).
ActiveIsRegistered ==
  /\ part = "scheduler" => Scheduler!TypeOK /\ Scheduler!ActiveIsRegistered
  /\ part = "relays" =>
       Choice!TypeOK /\ Choice!SettlesOnBest /\ Choice!ActiveWasConnected
  /\ part = "probing" => Prober!TypeOK /\ Prober!MarksAreRight /\ Prober!LossIsPartial

\* Observers are told what the detector knows (detector.go, migration.go).
ViewFollowsEvents ==
  part = "migration" => Migration!TypeOK /\ Migration!ViewFollowsEvents

\* Members of the mesh are told of each other (relay/server.go, p2p/mesh.go).
EveryoneIsTold == part = "mesh" => Mesh!TypeOK /\ Mesh!EveryoneIsTold

\* No answer is cut short while the user's own direction is open, and the end of
\* one connection reaches the other (session.go: Bridge; tunnel.go:
\* bridgeConnections); messages arrive whole and in order, and the bytes of a
\* session begin where its frame ends (protocol/codec.go).
ForwardingIsSound ==
  /\ part = "forwarding" =>
       Forwarding!TypeOK /\ Forwarding!AnswerIsWhole /\ Forwarding!EndsSpread
  /\ part = "wire" =>
       /\ Protocol!TypeOK /\ Protocol!FramesAreWhole
       /\ Protocol!NothingIsLost /\ Protocol!RawFollowsFrame
===============================================================================
