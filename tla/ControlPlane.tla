----------------------------- MODULE ControlPlane -----------------------------
(***************************************************************************)
(* Node registration and virtual addresses in the control plane            *)
(* (server/internal/controlplane: the node handlers and pruneLoop of       *)
(* server.go, node_registry.go, virtual_network.go, the SQLite store).     *)
(* What the server knows of a node is spread over four places with no lock *)
(* or transaction across them: the allocator and the registry's cache in   *)
(* memory, the nodes and ip_allocations tables on disk.  The server is     *)
(* started with the virtual network enabled and may crash at any point.    *)
(*                                                                         *)
(* A process is an HTTP handler goroutine or the prune loop; a step is one *)
(* access to one of the four places.  A request whose reads end it without *)
(* a change is not shown.  Store writes may fail; a failed read of         *)
(* ip_allocations takes the path of a missing row, as in the code.         *)
(***************************************************************************)
EXTENDS IPAM

CONSTANTS
  Requests,    \* handler goroutines; each serves any number of requests
  Pruner,      \* the goroutine of pruneLoop
  Absent       \* "no such node", in the cache or the nodes table

ASSUME AbsentAssumption == Absent \notin Nat \cup Nodes
ASSUME PrunerAssumption == Pruner \notin Requests

Procs == Requests \cup {Pruner}

VARIABLES
  ips,        \* ips[n]: the ip_allocations row of n, or NoAddr
  saved,      \* saved[n]: VirtualIP in n's row of nodes, or Absent
  cache,      \* cache[n]: VirtualIP of registry.nodes[n], or Absent
  step,       \* step[q]: the next access of process q
  node,       \* node[q]: the node it works on, or Absent
  addr,       \* addr[q]: VirtualIP in its own NodeInfo
  repairing,  \* requests that run AssignNode for BuildConfig
  batch,      \* prunedIDs
  up,         \* the server runs
  disturbed   \* history: nodes about which the properties claim nothing

storeVars == <<ips, saved>>
procVars == <<step, node, addr, repairing, batch>>
vars == <<ipamVars, storeVars, cache, procVars, up, disturbed>>

\* "scan" and "drain" are the two loops of a tick of pruneLoop.
Resting == {"idle", "scan", "drain"}
Steps == Resting \cup
  {"reserve", "allocate", "persist", "save", "cache",  \* AssignNode, Register
   "node", "lookup",                                   \* BuildConfig
   "evict",                                            \* PruneStaleIDs
   "delete", "release", "unrow",                       \* Deregister, ReleaseNode
   "load", "fill", "beat"}                             \* Heartbeat

Row == Usable \cup {NoAddr, Absent}

\* A first start, on a database whose nodes may be older than ip_allocations.
Init ==
  /\ IPAMInit
  /\ ips = [n \in Nodes |-> NoAddr]
  /\ saved \in [Nodes -> {Absent, NoAddr}]
  /\ cache = saved
  /\ step = [q \in Procs |-> "idle"]
  /\ node = [q \in Procs |-> Absent]
  /\ addr = [q \in Procs |-> NoAddr]
  /\ repairing = {}
  /\ batch = {}
  /\ up = TRUE
  /\ disturbed = {}

\* Somebody is working on node n.
InProgress(n) == n \in batch \/ \E q \in Procs : node[q] = n

\* A deletion or pruning of n has not released its address yet.
Leaving(n) ==
  \/ n \in batch
  \/ \E q \in Procs : node[q] = n /\ step[q] \in {"evict", "delete", "release", "unrow"}

\* A new request about n, or a failed store write, leaves n to chance if the
\* condition Upset holds.
Disturb(n, Upset) == disturbed' = IF Upset THEN disturbed \cup {n} ELSE disturbed

Alone(q) == \A p \in Procs \ {q} : node[p] # node[q]

Goto(q, s) ==
  /\ step' = [step EXCEPT ![q] = s]
  /\ UNCHANGED <<node, addr, repairing, batch>>

\* Request r is about node n and holds address x.
Begin(r, n, x, s) ==
  /\ up
  /\ step[r] = "idle"
  /\ step' = [step EXCEPT ![r] = s]
  /\ node' = [node EXCEPT ![r] = n]
  /\ addr' = [addr EXCEPT ![r] = x]
  /\ UNCHANGED <<repairing, batch, up>>

\* The handler returns, or the pruner turns to its next node.
Rest(q, s) ==
  /\ step' = [step EXCEPT ![q] = s]
  /\ node' = [node EXCEPT ![q] = Absent]
  /\ addr' = [addr EXCEPT ![q] = NoAddr]
  /\ repairing' = repairing \ {q}

Finish(q) == Rest(q, "idle") /\ UNCHANGED batch

-------------------------------------------------------------------------------
(* POST /nodes: AssignNode, then NodeRegistry.Register.                      *)

\* GetIPAllocation: any error, not only a missing row, leads to Allocate.
AfterLookup(n) == {"allocate"} \cup (IF ips[n] # NoAddr THEN {"reserve"} ELSE {})

Register(r, n) ==
  /\ \E s \in AfterLookup(n) :
       Begin(r, n, IF s = "reserve" THEN ips[n] ELSE NoAddr, s)
  /\ Disturb(n, Leaving(n))
  /\ UNCHANGED <<ipamVars, storeVars, cache>>

ReserveRow(r) ==
  /\ step[r] = "reserve"
  /\ \/ Reserve(node[r], addr[r]) /\ Goto(r, "save")
     \/ ~Reservable(node[r], addr[r]) /\ Finish(r) /\ UNCHANGED ipamVars
  /\ UNCHANGED <<storeVars, cache, up, disturbed>>

AllocateAddr(r) ==
  /\ step[r] = "allocate"
  /\ \/ \E x \in 0..(Size - 1) :
          /\ Allocate(node[r], x)
          /\ addr' = [addr EXCEPT ![r] = x]
          /\ step' = [step EXCEPT ![r] = "persist"]
          /\ UNCHANGED <<node, repairing, batch>>
     \/ Exhausted(node[r]) /\ Finish(r) /\ UNCHANGED ipamVars
  /\ UNCHANGED <<storeVars, cache, up, disturbed>>

\* Mutant: an error of SaveIPAllocation is logged and the handler goes on.
PersistIgnoresError(r) ==
  /\ step[r] = "persist"
  /\ ips' \in {ips, [ips EXCEPT ![node[r]] = addr[r]]}
  /\ Goto(r, "save")
  /\ UNCHANGED <<ipamVars, saved, cache, up, disturbed>>

\* SaveIPAllocation; if it fails the address goes back to the allocator.
Persist(r) ==
  LET n == node[r] IN
  /\ step[r] = "persist"
  /\ \/ /\ ips' = [ips EXCEPT ![n] = addr[r]]
        /\ Goto(r, "save")
        /\ UNCHANGED <<ipamVars, disturbed>>
     \/ /\ Release(n)
        /\ Finish(r)
        /\ Disturb(n, ips[n] # NoAddr \/ ~Alone(r))
        /\ UNCHANGED ips
  /\ UNCHANGED <<saved, cache, up>>

\* SaveNode; if it fails handleRegisterNode calls ReleaseNode.
Save(r) ==
  LET n == node[r] IN
  /\ step[r] = "save"
  /\ \/ /\ saved' = [saved EXCEPT ![n] = addr[r]]
        /\ IF r \in repairing THEN Finish(r) ELSE Goto(r, "cache")
        /\ UNCHANGED disturbed
     \/ /\ IF r \in repairing THEN Finish(r) ELSE Goto(r, "release")
        /\ Disturb(n, r \notin repairing /\ (saved[n] # Absent \/ ~Alone(r)))
        /\ UNCHANGED saved
  /\ UNCHANGED <<ipamVars, ips, cache, up>>

CacheNode(r) ==
  /\ step[r] = "cache"
  /\ cache' = [cache EXCEPT ![node[r]] = addr[r]]
  /\ Finish(r)
  /\ UNCHANGED <<ipamVars, storeVars, up, disturbed>>

-------------------------------------------------------------------------------
(* GET /nodes/{id}/routes of a node without an address: BuildConfig repairs. *)

GetRoutes(r, n) ==
  /\ Begin(r, n, NoAddr, "node")
  /\ Disturb(n, Leaving(n))
  /\ UNCHANGED <<ipamVars, storeVars, cache>>

\* GetNode finds the node's row.
Repair(r) ==
  /\ step[r] = "node"
  /\ IF saved[node[r]] # Absent
       THEN /\ step' = [step EXCEPT ![r] = "lookup"]
            /\ repairing' = repairing \cup {r}
            /\ UNCHANGED <<node, addr, batch>>
       ELSE Finish(r)
  /\ UNCHANGED <<ipamVars, storeVars, cache, up, disturbed>>

RepairLookup(r) ==
  /\ step[r] = "lookup"
  /\ \E s \in AfterLookup(node[r]) :
       /\ step' = [step EXCEPT ![r] = s]
       /\ addr' = [addr EXCEPT ![r] = IF s = "reserve" THEN ips[node[r]] ELSE NoAddr]
  /\ UNCHANGED <<node, repairing, batch, ipamVars, storeVars, cache, up, disturbed>>

-------------------------------------------------------------------------------
(* DELETE /nodes/{id} and pruneLoop.                                         *)

Delete(r, n) ==
  /\ Begin(r, n, NoAddr, "delete")
  /\ cache' = [cache EXCEPT ![n] = Absent]
  /\ Disturb(n, InProgress(n))
  /\ UNCHANGED <<ipamVars, storeVars>>

\* PruneStaleIDs finds a stale node in the cache; any node that has not been
\* heard of for long enough may be.
PruneStale(n) ==
  /\ up
  /\ step[Pruner] \in {"idle", "scan"}
  /\ cache[n] # Absent
  /\ n \notin batch
  /\ step' = [step EXCEPT ![Pruner] = "evict"]
  /\ node' = [node EXCEPT ![Pruner] = n]
  /\ Disturb(n, InProgress(n))
  /\ UNCHANGED <<addr, repairing, batch, ipamVars, storeVars, cache, up>>

\* It deletes whatever the cache holds for the node by now.
Evict(q) ==
  /\ step[q] = "evict"
  /\ cache' = [cache EXCEPT ![node[q]] = Absent]
  /\ Goto(q, "delete")
  /\ UNCHANGED <<ipamVars, storeVars, up, disturbed>>

\* DeleteNode: an error ends handleDeleteNode; PruneStaleIDs ignores it.
DeleteNode(q) ==
  LET n == node[q] IN
  /\ step[q] = "delete"
  /\ \/ saved' = [saved EXCEPT ![n] = Absent] /\ UNCHANGED disturbed
     \/ UNCHANGED saved /\ Disturb(n, q = Pruner)
  /\ IF q = Pruner
       THEN Rest(q, "scan") /\ batch' = batch \cup {n}
       ELSE IF saved'[n] = Absent THEN Goto(q, "release") ELSE Finish(q)
  /\ UNCHANGED <<ipamVars, ips, cache, up>>

\* The second loop of the tick: the next node of prunedIDs.
PruneRelease(n) ==
  /\ step[Pruner] \in {"scan", "drain"}
  /\ n \in batch
  /\ step' = [step EXCEPT ![Pruner] = "release"]
  /\ node' = [node EXCEPT ![Pruner] = n]
  /\ batch' = batch \ {n}
  /\ UNCHANGED <<addr, repairing, ipamVars, storeVars, cache, up, disturbed>>

\* Mutant: the address is kept for the node's return.
ReleaseAddrKeeps(q) ==
  /\ step[q] = "release"
  /\ Goto(q, "unrow")
  /\ UNCHANGED <<ipamVars, storeVars, cache, up, disturbed>>

\* Mutant: only the allocator is told; the row is left for the next start.
ReleaseAddrOnly(q) ==
  /\ step[q] = "release"
  /\ Release(node[q])
  /\ Finish(q)
  /\ UNCHANGED <<storeVars, cache, up, disturbed>>

\* ReleaseNode: first the allocator, ...
ReleaseAddr(q) ==
  /\ step[q] = "release"
  /\ Release(node[q])
  /\ Goto(q, "unrow")
  /\ UNCHANGED <<storeVars, cache, up, disturbed>>

\* ... then the row of ip_allocations.
DeleteRow(q) ==
  LET n == node[q] IN
  /\ step[q] = "unrow"
  /\ \/ ips' = [ips EXCEPT ![n] = NoAddr] /\ UNCHANGED disturbed
     \/ UNCHANGED ips /\ Disturb(n, ips[n] # NoAddr)
  /\ Rest(q, IF q = Pruner /\ batch # {} THEN "drain" ELSE "idle")
  /\ UNCHANGED <<batch, ipamVars, saved, cache, up>>

-------------------------------------------------------------------------------
(* POST /nodes/{id}/heartbeat.                                               *)

Heartbeat(r, n) ==
  /\ IF cache[n] # Absent THEN Begin(r, n, cache[n], "beat")
                          ELSE Begin(r, n, NoAddr, "load")
  /\ Disturb(n, Leaving(n))
  /\ UNCHANGED <<ipamVars, storeVars, cache>>

Load(r) ==
  LET n == node[r] IN
  /\ step[r] = "load"
  /\ IF saved[n] # Absent
       THEN /\ addr' = [addr EXCEPT ![r] = saved[n]]
            /\ step' = [step EXCEPT ![r] = "fill"]
            /\ UNCHANGED <<node, repairing, batch>>
       ELSE Finish(r)
  /\ UNCHANGED <<ipamVars, storeVars, cache, up, disturbed>>

Fill(r) ==
  /\ step[r] = "fill"
  /\ cache' = [cache EXCEPT ![node[r]] = addr[r]]
  /\ Goto(r, "beat")
  /\ UNCHANGED <<ipamVars, storeVars, up, disturbed>>

\* SaveNode inserts the row again if it was deleted; an error changes nothing.
Beat(r) ==
  /\ step[r] = "beat"
  /\ saved' \in {saved, [saved EXCEPT ![node[r]] = addr[r]]}
  /\ Finish(r)
  /\ UNCHANGED <<ipamVars, ips, cache, up, disturbed>>

-------------------------------------------------------------------------------
(* A crash, at any point, and the next start.                                *)

\* restoreAllocations succeeds: no two rows hold the same address.
Restorable == \A m, n \in Nodes : m # n /\ ips[m] # NoAddr => ips[m] # ips[n]

\* nextHost after Reserve was called for every row, in any order.
RestoredNext ==
  LET Nexts == {1} \cup {x \in 2..(Size - 2) : \E n \in Nodes : ips[n] + 1 = x} IN
  {x \in Nexts : \A y \in Nexts : y <= x}

\* Mutant: the allocator starts empty, without restoreAllocations.
CrashRestartForgets ==
  /\ UNCHANGED up
  /\ allocated' = [n \in Nodes |-> NoAddr]
  /\ nextHost' = 1
  /\ cache' = saved
  /\ step' = [q \in Procs |-> "idle"]
  /\ node' = [q \in Procs |-> Absent]
  /\ addr' = [q \in Procs |-> NoAddr]
  /\ repairing' = {}
  /\ batch' = {}
  /\ disturbed' = disturbed \cup {n \in Nodes : InProgress(n)}
  /\ UNCHANGED storeVars

CrashRestart ==
  /\ up' = Restorable
  /\ allocated' = IF Restorable THEN ips ELSE [n \in Nodes |-> NoAddr]
  /\ nextHost' \in IF Restorable THEN RestoredNext ELSE {1}
  /\ cache' = saved
  /\ step' = [q \in Procs |-> "idle"]
  /\ node' = [q \in Procs |-> Absent]
  /\ addr' = [q \in Procs |-> NoAddr]
  /\ repairing' = {}
  /\ batch' = {}
  /\ disturbed' = disturbed \cup {n \in Nodes : InProgress(n)}
  /\ UNCHANGED storeVars

-------------------------------------------------------------------------------

Continue(q) ==
  \/ ReserveRow(q) \/ AllocateAddr(q) \/ Persist(q) \/ Save(q) \/ CacheNode(q)
  \/ Repair(q) \/ RepairLookup(q)
  \/ Evict(q) \/ DeleteNode(q) \/ ReleaseAddr(q) \/ DeleteRow(q)
  \/ Load(q) \/ Fill(q) \/ Beat(q)

Next ==
  \/ \E q \in Procs : Continue(q)
  \/ \E n \in Nodes :
       \/ PruneStale(n) \/ PruneRelease(n)
       \/ \E r \in Requests :
            Register(r, n) \/ GetRoutes(r, n) \/ Delete(r, n) \/ Heartbeat(r, n)
  \/ CrashRestart

Spec == Init /\ [][Next]_vars

-------------------------------------------------------------------------------
(* Properties.                                                               *)

TypeOK ==
  /\ IPAMTypeOK
  /\ ips \in [Nodes -> Usable \cup {NoAddr}]
  /\ saved \in [Nodes -> Row]
  /\ cache \in [Nodes -> Row]
  /\ step \in [Procs -> Steps]
  /\ node \in [Procs -> Nodes \cup {Absent}]
  /\ addr \in [Procs -> Usable \cup {NoAddr}]
  /\ repairing \subseteq Procs
  /\ batch \subseteq Nodes
  /\ up \in BOOLEAN
  /\ disturbed \subseteq Nodes

HasAddr(n) == cache[n] \in Usable

\* A registered node that nobody is working on has its address in all four
\* places, so a heartbeat, a re-registration and a restart all agree on it.
RegisteredAgrees ==
  \A n \in Nodes :
    up /\ n \notin disturbed /\ ~InProgress(n) /\ HasAddr(n) =>
      /\ allocated[n] = cache[n]
      /\ ips[n] = cache[n]
      /\ saved[n] \in {cache[n], NoAddr}

\* Two nodes that are in use never share an address.
LiveAddressesDistinct ==
  \A m, n \in Nodes :
    /\ up /\ m # n
    /\ HasAddr(m) /\ m \notin disturbed
    /\ HasAddr(n) /\ n \notin disturbed
    => cache[m] # cache[n]

\* A node that is gone holds no address: not in memory, not on disk.
GoneIsReleased ==
  \A n \in Nodes :
    up /\ n \notin disturbed /\ ~InProgress(n) /\ saved[n] = Absent =>
      /\ cache[n] = Absent
      /\ allocated[n] = NoAddr
      /\ ips[n] = NoAddr

\* The allocator knows every row, so it cannot give its address away.
RowsAreAllocated ==
  \A n \in Nodes :
    /\ up /\ n \notin disturbed
    /\ \A q \in Procs : ~(node[q] = n /\ step[q] = "unrow")
    /\ ips[n] # NoAddr
    => allocated[n] = ips[n]

\* A node keeps its address for as long as it is registered, whatever it asks
\* for and across restarts.
AddressSticky ==
  [][\A n \in Nodes :
       HasAddr(n) /\ cache'[n] \in Usable /\ n \notin disturbed' /\ up' =>
         cache'[n] = cache[n]]_vars

\* virtual_network.go, where AssignNode reserves a persisted address: the same
\* address must not be used again in later allocations.
NoSharedAddress ==
  \A m, n \in Nodes : up /\ m # n /\ HasAddr(m) => cache[m] # cache[n]

-------------------------------------------------------------------------------
(* The inductive invariant of ControlPlaneProofs: a busy process works on a  *)
(* node, which is what keeps the addresses it copies in their type.          *)

BusyInv == \A q \in Procs : step[q] \notin Resting => node[q] \in Nodes

IInv == TypeOK /\ BusyInv /\ AddressesUnique
===============================================================================
