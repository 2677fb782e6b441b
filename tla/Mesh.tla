--------------------------------- MODULE Mesh ---------------------------------
(***************************************************************************)
(* The mesh of desktop programs and the relay's list of its members        *)
(* (desktop/internal/p2p/mesh.go; server/internal/relay/server.go and      *)
(* client_conn.go).  A router joins and leaves by messages on its control  *)
(* connection.  The relay's reader of that connection changes meshPeers,   *)
(* builds the new list under the lock and sends it, member by member,      *)
(* outside it: lists of two readers can overtake each other.  The tunnels  *)
(* themselves are P2PSession's; here a transport appears once an offer     *)
(* has been sent.                                                          *)
(***************************************************************************)
EXTENDS Naturals, Sequences, SequencesExt, FiniteSets

CONSTANTS
  Nodes,      \* routers
  Limit,      \* PeerTimeout in ping rounds, 4 in the code
  MaxUp,      \* bound: messages to the relay that are not read yet
  MaxDown,    \* bound: messages to a router that are not read yet
  MaxJoins    \* bound: how often a router joins

\* What the constants must satisfy; the MC module assumes it.
BoundsAssumption == {Limit, MaxUp, MaxDown, MaxJoins} \subseteq Nat \ {0}
NodesAssumption == IsFiniteSet(Nodes)

VARIABLES
  linked,     \* nodes whose control connection is up, as they see it
  served,     \* nodes in s.clients
  up,         \* up[n]: messages from n to the relay
  down,       \* down[n]: messages from the relay to n
  meshPeers,  \* s.meshPeers
  sending,    \* sending[n]: the list n's reader sends and who is still to get it
  state,      \* state[n]: the router's state
  looping,    \* nodes whose health and timeout loops run
  peers,      \* peers[n]: m.peers
  age,        \* age[n][p]: ping rounds since n has heard of p
  routes,     \* routes[n]: m.routes
  offered,    \* offered[n]: peers an offer of n has gone to
  joins,      \* joins[n]: how often n has joined
  told        \* history, told[n]: members n has been told of since it joined

wire == <<linked, served, up, down>>
relay == <<meshPeers, sending>>
router == <<state, looping, peers, age, routes, offered, joins, told>>
vars == <<wire, relay, router>>

Msg == [kind : {"list"}, list : SUBSET Nodes]
       \cup [kind : {"join", "leave"}]
       \cup [kind : {"ping"}, peer : Nodes]
Sending == [list : SUBSET Nodes, rest : SUBSET Nodes]
Quiet == [list |-> {}, rest |-> {}]

TypeOK ==
  /\ linked \subseteq Nodes /\ served \subseteq Nodes /\ meshPeers \subseteq Nodes
  /\ looping \subseteq Nodes
  /\ \A n \in Nodes :
       /\ Len(up[n]) <= MaxUp /\ Len(down[n]) <= MaxDown
       /\ Range(up[n]) \cup Range(down[n]) \subseteq Msg
  /\ sending \in [Nodes -> Sending]
  /\ state \in [Nodes -> {"offline", "connected"}]
  /\ peers \in [Nodes -> SUBSET Nodes] /\ routes \in [Nodes -> SUBSET Nodes]
  /\ offered \in [Nodes -> SUBSET Nodes]
  /\ age \in [Nodes -> [Nodes -> 0..Limit]]
  /\ joins \in [Nodes -> 0..MaxJoins] /\ told \in [Nodes -> SUBSET Nodes]

Init ==
  /\ linked = {} /\ served = {} /\ meshPeers = {}
  /\ up = [n \in Nodes |-> <<>>] /\ down = up
  /\ sending = [n \in Nodes |-> Quiet]
  /\ state = [n \in Nodes |-> "offline"] /\ looping = {}
  /\ peers = [n \in Nodes |-> {}] /\ routes = peers /\ offered = peers /\ told = peers
  /\ age = [n \in Nodes |-> [p \in Nodes |-> 0]]
  /\ joins = [n \in Nodes |-> 0]

-------------------------------------------------------------------------------
(* The control connections.                                                *)

Link(n) ==
  /\ n \notin linked \cup served
  /\ linked' = linked \cup {n} /\ served' = served \cup {n}
  /\ UNCHANGED <<up, down, relay, router>>

Lose(n) ==
  /\ n \in linked
  /\ linked' = linked \ {n}
  /\ down' = [down EXCEPT ![n] = <<>>]
  /\ UNCHANGED <<served, up, relay, router>>

\* A message of n; a write to a lost connection fails and is not retried.
CanSay(n) == n \in linked => Len(up[n]) < MaxUp
Say(n, msgs) ==
  up' = [up EXCEPT ![n] = IF n \in linked THEN @ \o msgs ELSE @]

-------------------------------------------------------------------------------
(* The relay.                                                              *)

Reads(n) == up[n] # <<>> /\ sending[n] = Quiet

\* The broadcast starts: list and members are copied under the lock.
Broadcast(n, members) ==
  sending' = [sending EXCEPT ![n] = [list |-> members, rest |-> members]]

\* Mutant: the list is built before the peer is in it.
RegisterMeshPeerLater(n) ==
  /\ Reads(n) /\ Head(up[n]).kind = "join"
  /\ meshPeers' = meshPeers \cup {n}
  /\ Broadcast(n, meshPeers)
  /\ up' = [up EXCEPT ![n] = Tail(@)]
  /\ UNCHANGED <<linked, served, down, router>>

RegisterMeshPeer(n) ==
  /\ Reads(n) /\ Head(up[n]).kind = "join"
  /\ meshPeers' = meshPeers \cup {n}
  /\ Broadcast(n, meshPeers')
  /\ up' = [up EXCEPT ![n] = Tail(@)]
  /\ UNCHANGED <<linked, served, down, router>>

Unregister(n) ==
  /\ meshPeers' = meshPeers \ {n}
  /\ IF n \in meshPeers THEN Broadcast(n, meshPeers') ELSE UNCHANGED sending

UnregisterMeshPeer(n) ==
  /\ Reads(n) /\ Head(up[n]).kind = "leave"
  /\ Unregister(n)
  /\ up' = [up EXCEPT ![n] = Tail(@)]
  /\ UNCHANGED <<linked, served, down, router>>

\* The list goes to the next member, or to nobody if its client is gone.
SendPeerList(n, m) ==
  /\ m \in sending[n].rest
  /\ sending' = [sending EXCEPT ![n] =
                   IF @.rest = {m} THEN Quiet
                   ELSE [list |-> @.list, rest |-> @.rest \ {m}]]
  /\ IF m \in served /\ m \in linked
     THEN /\ Len(down[m]) < MaxDown
          /\ down' = [down EXCEPT ![m] = Append(@, [kind |-> "list", list |-> sending[n].list])]
     ELSE UNCHANGED down
  /\ UNCHANGED <<linked, served, up, meshPeers, router>>

\* forwardP2PMessage has no case for a ping: it logs it and drops it, so that no
\* router ever answers one and HandleMeshPing and HandleMeshPong are not called.
ForwardP2PMessage(n) ==
  /\ Reads(n) /\ Head(up[n]).kind = "ping"
  /\ up' = [up EXCEPT ![n] = Tail(@)]
  /\ UNCHANGED <<linked, served, down, relay, router>>

\* The reader meets the end of a lost connection.
Cleanup(n) ==
  /\ n \in served \ linked
  /\ up[n] = <<>> /\ sending[n] = Quiet
  /\ Unregister(n)
  /\ served' = served \ {n}
  /\ UNCHANGED <<linked, up, down, router>>

-------------------------------------------------------------------------------
(* The router.                                                             *)

JoinMesh(n) ==
  /\ joins[n] < MaxJoins /\ CanSay(n) /\ n \notin looping
  /\ n \in linked      \* else the send fails and JoinMesh returns
  /\ joins' = [joins EXCEPT ![n] = @ + 1]
  /\ Say(n, <<[kind |-> "join"]>>)
  /\ looping' = looping \cup {n}
  /\ state' = [state EXCEPT ![n] = "connected"]
  /\ told' = [told EXCEPT ![n] = {}]
  /\ UNCHANGED <<linked, served, down, relay, peers, age, routes, offered>>

\* New peers get an offer; a peer that is not in the list stays.
HandleMeshPeerList(n) ==
  /\ down[n] # <<>> /\ Head(down[n]).kind = "list"
  /\ LET list == Head(down[n]).list \ {n}
     IN /\ peers' = [peers EXCEPT ![n] = @ \cup list]
        /\ offered' = [offered EXCEPT ![n] = @ \cup (list \ peers[n])]
        /\ age' = [age EXCEPT ![n] = [p \in Nodes |-> IF p \in list THEN 0 ELSE @[p]]]
  /\ state' = [state EXCEPT ![n] = "connected"]
  /\ told' = [told EXCEPT ![n] = @ \cup Head(down[n]).list]
  /\ down' = [down EXCEPT ![n] = Tail(@)]
  /\ UNCHANGED <<linked, served, up, relay, looping, routes, joins>>

\* One ping interval: every message of the one before has arrived.
Settled == \A n \in Nodes : up[n] = <<>> /\ down[n] = <<>> /\ sending[n] = Quiet
Round(n) ==
  /\ n \in looping /\ Settled
  /\ Cardinality(peers[n]) <= MaxUp
  /\ Say(n, SetToSeq({[kind |-> "ping", peer |-> p] : p \in peers[n]}))
  /\ LET late == {p \in peers[n] : age[n][p] = Limit}
     IN /\ peers' = [peers EXCEPT ![n] = @ \ late]
        /\ routes' = [routes EXCEPT ![n] = @ \ late]
        /\ age' = [age EXCEPT ![n] = [p \in Nodes |->
                      IF p \in peers[n] \ late THEN @[p] + 1 ELSE 0]]
  /\ UNCHANGED <<linked, served, down, relay, state, looping, offered, joins, told>>

LeaveMesh(n) ==
  /\ n \in looping /\ CanSay(n)
  /\ looping' = looping \ {n}
  /\ Say(n, <<[kind |-> "leave"]>>)
  /\ peers' = [peers EXCEPT ![n] = {}]
  /\ routes' = [routes EXCEPT ![n] = {}]
  /\ offered' = [offered EXCEPT ![n] = {}]
  /\ age' = [age EXCEPT ![n] = [p \in Nodes |-> 0]]
  /\ state' = [state EXCEPT ![n] = "offline"]
  /\ UNCHANGED <<linked, served, down, relay, joins, told>>

AddPeerRoute(n, p) ==
  /\ p \in offered[n] \/ n \in offered[p]
  /\ p # n /\ p \notin routes[n]
  /\ routes' = [routes EXCEPT ![n] = @ \cup {p}]
  /\ age' = [age EXCEPT ![n][p] = 0]
  /\ UNCHANGED <<wire, relay, state, looping, peers, offered, joins, told>>

RemovePeerRoute(n, p) ==
  /\ p \in routes[n]
  /\ routes' = [routes EXCEPT ![n] = @ \ {p}]
  /\ UNCHANGED <<wire, relay, state, looping, peers, age, offered, joins, told>>

-------------------------------------------------------------------------------
Relay(n) ==
  \/ RegisterMeshPeer(n) \/ UnregisterMeshPeer(n) \/ ForwardP2PMessage(n) \/ Cleanup(n)
  \/ \E m \in Nodes : SendPeerList(n, m)

Router(n) ==
  \/ JoinMesh(n) \/ HandleMeshPeerList(n) \/ Round(n) \/ LeaveMesh(n)
  \/ \E p \in Nodes : AddPeerRoute(n, p) \/ RemovePeerRoute(n, p)

Next == \E n \in Nodes : Link(n) \/ Lose(n) \/ Relay(n) \/ Router(n)

Spec == Init /\ [][Next]_vars

-------------------------------------------------------------------------------
\* Two members know of each other: once every list on its way has arrived, a
\* member has been told of every other one since it joined, even if lists
\* overtook each other or members came, left and lost their connections
\* meanwhile (registerMeshPeer, broadcastMeshPeerList).
Members == meshPeers \cap looping \cap linked
EveryoneIsTold == Settled => \A n, m \in Members : n \in told[m]

\* A peer that is in the mesh and connected like the router itself is not timed
\* out: its pongs keep it alive (mesh.go:353 "pings all known peers",
\* client_conn.go:94 "reuse P2P forwarding for mesh ping/pong").
OnlySilentPeersTimeOut ==
  [][\A n \in looping \cap looping' : 
       n \in Members => (peers[n] \ peers'[n]) \cap Members = {}]_vars
===============================================================================
