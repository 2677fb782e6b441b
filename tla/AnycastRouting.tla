---------------------------- MODULE AnycastRouting ----------------------------
(***************************************************************************)
(* The choice of an edge node for a client address                         *)
(* (server/internal/anycast/router.go, geoip.go): a table of nodes, a      *)
(* table from addresses and prefixes to regions, a DNS answer that is      *)
(* computed under the lock of one table and then under that of the other,  *)
(* and a router over a provider of places that does the same.  Places lie  *)
(* on a line, with the point (0, 0) at 0; an operator that depends on the  *)
(* order of a Go map is the set of what it may return.                     *)
(***************************************************************************)
EXTENDS Integers, FiniteSets, Sequences

CONSTANTS
  Ids,        \* node IDs
  Clients,    \* client addresses
  Prefixes,   \* prefixes, each of every client address
  Coordinates,\* the place of each region, 0 if the code knows none
  Priorities, \* lower is better
  None

\* What the constants must satisfy; the MC module assumes it.
CoordinatesAssumption == Coordinates \in [DOMAIN Coordinates -> Nat]
PrioritiesAssumption == Priorities \subseteq Int

VARIABLES
  nodes,      \* r.nodes, a function on the registered IDs
  mapping,    \* g.mapping, a function on the mapped keys
  asked,      \* the region Resolve has found and not yet used, or None
  answer,     \* the record of the last Resolve, or None
  moved       \* history: nodes have changed since

vars == <<nodes, mapping, asked, answer, moved>>

Regions == DOMAIN Coordinates
Keys == Clients \cup Prefixes
NodeInfo == [region : Regions, healthy : BOOLEAN, priority : Priorities]
Unknown == "unknown"   \* no region
Partial(S, T) == UNION {[D -> T] : D \in SUBSET S}
Put(g, k, v) == [j \in DOMAIN g \cup {k} |-> IF j = k THEN v ELSE g[j]]
Drop(g, k) == [j \in DOMAIN g \ {k} |-> g[j]]

TypeOK ==
  /\ nodes \in Partial(Ids, NodeInfo)
  /\ mapping \in Partial(Keys, Regions)
  /\ asked \in Regions \cup {None, Unknown}
  /\ answer = None \/ answer \in [node : Ids, region : Regions, at : Nat]
  /\ moved \in BOOLEAN

Init ==
  /\ nodes = [i \in {} |-> None] /\ mapping = [k \in {} |-> None]
  /\ asked = None /\ answer = None /\ moved = FALSE

AddNode(i, n) ==
  /\ nodes' = Put(nodes, i, n) /\ moved' = TRUE
  /\ UNCHANGED <<mapping, asked, answer>>

RemoveNode(i) ==
  /\ i \in DOMAIN nodes
  /\ nodes' = Drop(nodes, i) /\ moved' = TRUE
  /\ UNCHANGED <<mapping, asked, answer>>

UpdateHealth(i, healthy) ==
  /\ i \in DOMAIN nodes
  /\ moved' = TRUE
  /\ nodes' = [nodes EXCEPT ![i] = [region |-> @.region, healthy |-> healthy,
                                     priority |-> @.priority]]
  /\ UNCHANGED <<mapping, asked, answer>>

AddMapping(k, region) ==
  /\ mapping' = Put(mapping, k, region)
  /\ UNCHANGED <<nodes, asked, answer, moved>>

-------------------------------------------------------------------------------
Distance(p, i) ==
  LET q == Coordinates[nodes[i].region] IN IF p < q THEN q - p ELSE p - q
Healthy == {i \in DOMAIN nodes : nodes[i].healthy}

\* The order of the candidates: distance, then priority.
Before(p, i, j) ==
  \/ Distance(p, i) < Distance(p, j)
  \/ Distance(p, i) = Distance(p, j) /\ nodes[i].priority < nodes[j].priority

SelectNearest(p) == {i \in Healthy : \A j \in Healthy : ~Before(p, j, i)}

\* The lists of up to count candidates.
SelectNearestWithFailover(p, count) ==
  LET n == IF count < Cardinality(Healthy) THEN count ELSE Cardinality(Healthy)
  IN {q \in [1..n -> Healthy] :
        /\ \A j, k \in 1..n : j < k => q[j] # q[k] /\ ~Before(p, q[k], q[j])
        /\ \A i \in Healthy \ {q[k] : k \in 1..n} : \A k \in 1..n : ~Before(p, i, q[k])}

\* Within a region the priority does not count.
SelectByRegion(p, region) ==
  LET here == {i \in Healthy : nodes[i].region = region}
  IN {i \in here : \A j \in here : Distance(p, i) <= Distance(p, j)}

\* The regions Resolve may find: the exact address first, then any prefix.
ResolveRegion(c) ==
  IF c \in DOMAIN mapping THEN {mapping[c]}
  ELSE {mapping[k] : k \in Prefixes \cap DOMAIN mapping}

\* Lookup of a StaticGeoProvider.  Unknown regions and addresses are at (0, 0).
StaticPlaces(c) ==
  IF ResolveRegion(c) = {} THEN {0} ELSE {Coordinates[r] : r \in ResolveRegion(c)}

SelectNearestForIP(c) == UNION {SelectNearest(p) : p \in StaticPlaces(c)}

-------------------------------------------------------------------------------
\* GeoDNSServer.Resolve: the region, then the node; without a region the record
\* names the node's.
BeginResolve(c) ==
  /\ asked = None
  /\ asked' \in (IF ResolveRegion(c) = {} THEN {Unknown} ELSE ResolveRegion(c))
  /\ UNCHANGED <<nodes, mapping, answer, moved>>

EndResolve ==
  /\ asked # None
  /\ LET p == IF asked = Unknown THEN 0 ELSE Coordinates[asked]
     IN IF SelectNearest(p) = {} THEN answer' = None
        ELSE \E i \in SelectNearest(p) :
               answer' = [node |-> i, at |-> p,
                          region |-> IF asked = Unknown THEN nodes[i].region ELSE asked]
  /\ asked' = None /\ moved' = FALSE
  /\ UNCHANGED <<nodes, mapping>>

Next ==
  \/ \E i \in Ids, n \in NodeInfo : AddNode(i, n)
  \/ \E i \in Ids : RemoveNode(i) \/ \E healthy \in BOOLEAN : UpdateHealth(i, healthy)
  \/ \E k \in Keys, r \in Regions : AddMapping(k, r)
  \/ \E c \in Clients : BeginResolve(c)
  \/ EndResolve

Spec == Init /\ [][Next]_vars

-------------------------------------------------------------------------------
\* The two ways to a node agree: GeoDNS and the router over the static provider
\* may return the same nodes for every client, and a failover list begins with
\* one of them (router.go: Resolve, regionCoordinates, SelectNearestWithFailover;
\* geoip.go: SelectNearestForIP).
WaysAgree ==
  \A c \in Clients :
    LET regions == ResolveRegion(c)
        dns == IF regions = {} THEN SelectNearest(0)
               ELSE UNION {SelectNearest(Coordinates[r]) : r \in regions}
    IN /\ SelectNearestForIP(c) = dns
       /\ Healthy # {} => \A p \in StaticPlaces(c) :
            SelectNearest(p) = {q[1] : q \in SelectNearestWithFailover(p, 2)}
       /\ \A p \in StaticPlaces(c) : \A i \in SelectNearest(p) :
            \E j \in SelectByRegion(p, nodes[i].region) : Distance(p, i) = Distance(p, j)

\* As long as the nodes have not changed, the answer names a healthy node with no
\* nearer one, wherever the mapping has moved since the question.
AnswerIsNearest == answer # None /\ ~moved => answer.node \in SelectNearest(answer.at)

\* Violated: the region of a record is that of its node.
RegionIsServed == answer # None /\ ~moved => nodes[answer.node].region = answer.region
===============================================================================
