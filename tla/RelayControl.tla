----------------------------- MODULE RelayControl -----------------------------
(***************************************************************************)
(* The control side of the relay server: control connections log in under  *)
(* a client ID, open and close proxies, lose their connection and are      *)
(* cleaned up, while work connections look proxies up and Shutdown takes   *)
(* everything down (server/internal/relay/server.go, client_conn.go, the   *)
(* endpoint routes of gateway.go, DisconnectClient of admin.go).           *)
(*                                                                         *)
(* One goroutine per control connection runs handleControlConn and then    *)
(* readLoop, so its handlers are sequential; its program counter is        *)
(* phase[k] and the proxy it is working on is job[k].  The server's maps   *)
(* are shared by all of them and each access takes that map's lock, which  *)
(* makes it one step.  Cancelling contexts has its effect on the sessions   *)
(* of a proxy and is modelled in RelaySessions.                            *)
(***************************************************************************)
EXTENDS Naturals, FiniteSets, TLC

CONSTANTS
  Conns,        \* control connections, one per TCP connection
  Ids,          \* client IDs
  Names,        \* proxy names
  Domains,      \* public endpoint domains
  Proxies,      \* *Proxy values, each created at most once
  MaxProxies,   \* MaxProxiesPerClient
  None

ASSUME NoneAssumption ==
  None \notin Conns \cup Names \cup Domains \cup Proxies
ASSUME MaxProxiesAssumption == MaxProxies \in Nat

VARIABLES
  clients,    \* clients[id]: s.clients
  registered, \* registered[id, name]: s.proxies, keyed clientID/name
  routes,     \* routes[d]: s.endpointRoutes
  phase,      \* phase[k]: where the goroutine of connection k is
  id,         \* id[k]: the client ID k logs in with
  open,       \* open[k]: k's connection can be read and written
  table,      \* table[k][name]: cc.proxies
  job,        \* job[k]: the proxy k's handler or cleanup works on
  left,       \* left[k]: proxies cleanup has still to take down
  info,       \* info[p]: p.info and p.clientConn, None before NewProxy
  listening,  \* proxies whose listener is open
  stopped,    \* proxies whose Stop ran
  work,       \* work[p]: a work connection for a session of p
  scan,       \* scan[p]: the client handleWorkConnStream settled on
  shutdown,   \* progress of Server.Shutdown
  toClose,    \* its snapshot of s.clients
  toStop,     \* its snapshot of s.proxies
  dupIds      \* history: IDs under which two live connections were admitted

serverVars == <<clients, registered, routes>>
connVars == <<phase, id, open, table, job, left>>
proxyVars == <<info, listening, stopped>>
workVars == <<work, scan>>
shutdownVars == <<shutdown, toClose, toStop>>
vars == <<serverVars, connVars, proxyVars, workVars, shutdownVars, dupIds>>

ProxyInfo == [owner : Conns, name : Names, domain : Domains \cup {None},
              listens : BOOLEAN]
ASSUME InfoAssumption == None \notin ProxyInfo

\* The phases of handleNewProxy, handleCloseProxy and cleanup.
NewPhases == {"new.route", "new.start", "new.insert", "new.register"}
ClosePhases == {"close.route", "close.stop", "close.unregister"}
CleanPhases == {"clean.swap", "clean.next", "clean.route", "clean.stop",
                "clean.unregister"}
Serving == {"serving"} \cup NewPhases \cup ClosePhases
Phases == {"none", "checked", "gone"} \cup Serving \cup CleanPhases

Init ==
  /\ clients = [i \in Ids |-> None]
  /\ registered = [key \in Ids \X Names |-> None]
  /\ routes = [d \in Domains |-> None]
  /\ phase = [k \in Conns |-> "none"]
  /\ id \in [Conns -> Ids]
  /\ open = [k \in Conns |-> TRUE]
  /\ table = [k \in Conns |-> [n \in Names |-> None]]
  /\ job = [k \in Conns |-> None]
  /\ left = [k \in Conns |-> {}]
  /\ info = [p \in Proxies |-> None]
  /\ listening = {}
  /\ stopped = {}
  /\ work = [p \in Proxies |-> "none"]
  /\ scan = [p \in Proxies |-> None]
  /\ shutdown = "running"
  /\ toClose = {}
  /\ toStop = {}
  /\ dupIds = {}

Held(k) == {table[k][n] : n \in Names} \ {None}
Key(p) == <<id[info[p].owner], info[p].name>>

Goto(k, to) == phase' = [phase EXCEPT ![k] = to]

-------------------------------------------------------------------------------
(* handleControlConn: log in.                                               *)

\* The duplicate check, under clientsMu.RLock.
CheckLogin(k) ==
  /\ phase[k] = "none"
  /\ IF clients[id[k]] = None
       THEN Goto(k, "checked") /\ UNCHANGED open
       ELSE Goto(k, "gone") /\ open' = [open EXCEPT ![k] = FALSE]
  /\ UNCHANGED <<serverVars, id, table, job, left, proxyVars,
                 workVars, shutdownVars, dupIds>>

\* The auth response is written (or the connection dropped), then the map is
\* updated under a second lock.
Admit(k) ==
  /\ phase[k] = "checked"
  /\ open[k]
  /\ clients' = [clients EXCEPT ![id[k]] = k]
  /\ dupIds' = IF clients[id[k]] = None THEN dupIds ELSE dupIds \cup {id[k]}
  /\ Goto(k, "serving")
  /\ UNCHANGED <<registered, routes, id, open, table, job, left, proxyVars,
                 workVars, shutdownVars>>

LoginFails(k) ==
  /\ phase[k] = "checked"
  /\ ~open[k]
  /\ Goto(k, "gone")
  /\ UNCHANGED <<serverVars, id, open, table, job, left, proxyVars,
                 workVars, shutdownVars, dupIds>>

-------------------------------------------------------------------------------
(* handleNewProxy.  Its refusals (limit, name in use, bad payload) leave    *)
(* the state alone.                                                         *)

\* Mutant: a name that is in use is not refused.
NewProxyUnchecked(k, p, n, d, port) ==
  LET listens == port \/ d = None IN
  /\ phase[k] = "serving"
  /\ open[k]
  /\ Cardinality(Held(k)) < MaxProxies
  /\ info[p] = None
  /\ info' = [info EXCEPT ![p] =
                [owner |-> k, name |-> n, domain |-> d, listens |-> listens]]
  /\ job' = [job EXCEPT ![k] = p]
  /\ Goto(k, IF d # None THEN "new.route" ELSE "new.start")
  /\ UNCHANGED <<serverVars, id, open, table, left, listening, stopped,
                 workVars, shutdownVars, dupIds>>

NewProxy(k, p, n, d, port) ==
  LET listens == port \/ d = None IN
  /\ phase[k] = "serving"
  /\ open[k]
  /\ Cardinality(Held(k)) < MaxProxies
  /\ table[k][n] = None
  /\ info[p] = None
  /\ info' = [info EXCEPT ![p] =
                [owner |-> k, name |-> n, domain |-> d, listens |-> listens]]
  /\ job' = [job EXCEPT ![k] = p]
  /\ Goto(k, IF d # None THEN "new.route" ELSE "new.start")
  /\ UNCHANGED <<serverVars, id, open, table, left, listening, stopped,
                 workVars, shutdownVars, dupIds>>

\* registerEndpointRoute; a taken domain ends the request, and with it the
\* *Proxy, which nothing refers to yet.
RegisterRoute(k) ==
  LET p == job[k]
      d == info[p].domain
  IN
  /\ phase[k] = "new.route"
  /\ IF routes[d] \in {None, p}
       THEN /\ routes' = [routes EXCEPT ![d] = p]
            /\ Goto(k, IF info[p].listens THEN "new.start" ELSE "new.insert")
            /\ UNCHANGED <<job, info>>
       ELSE /\ Goto(k, "serving")
            /\ job' = [job EXCEPT ![k] = None]
            /\ info' = [info EXCEPT ![p] = None]
            /\ UNCHANGED routes
  /\ UNCHANGED <<clients, registered, id, open, table, left, listening, stopped,
                 workVars, shutdownVars, dupIds>>

WithoutRoute(p) == [d \in Domains |-> IF routes[d] = p THEN None ELSE routes[d]]

\* Proxy.Start binds the listener and starts the accept loop.
StartProxy(k) ==
  /\ phase[k] = "new.start"
  /\ listening' = listening \cup {job[k]}
  /\ Goto(k, "new.insert")
  /\ UNCHANGED <<serverVars, id, open, table, job, left, info, stopped,
                 workVars, shutdownVars, dupIds>>

\* The port is taken: the route is withdrawn.
StartFails(k) ==
  /\ phase[k] = "new.start"
  /\ routes' = WithoutRoute(job[k])
  /\ job' = [job EXCEPT ![k] = None]
  /\ Goto(k, "serving")
  /\ UNCHANGED <<clients, registered, id, open, table, left, proxyVars,
                 workVars, shutdownVars, dupIds>>

InsertProxy(k) ==
  /\ phase[k] = "new.insert"
  /\ table' = [table EXCEPT ![k][info[job[k]].name] = job[k]]
  /\ Goto(k, "new.register")
  /\ UNCHANGED <<serverVars, id, open, job, left, proxyVars, workVars,
                 shutdownVars, dupIds>>

\* registerProxy, then the response.
RegisterProxy(k) ==
  /\ phase[k] = "new.register"
  /\ registered' = [registered EXCEPT ![Key(job[k])] = job[k]]
  /\ job' = [job EXCEPT ![k] = None]
  /\ Goto(k, "serving")
  /\ UNCHANGED <<clients, routes, id, open, table, left, proxyVars,
                 workVars, shutdownVars, dupIds>>

-------------------------------------------------------------------------------
(* handleCloseProxy, and cleanup, which does the same for every proxy.      *)

CloseProxy(k, n) ==
  /\ phase[k] = "serving"
  /\ open[k]
  /\ table[k][n] # None
  /\ job' = [job EXCEPT ![k] = table[k][n]]
  /\ table' = [table EXCEPT ![k][n] = None]
  /\ Goto(k, "close.route")
  /\ UNCHANGED <<serverVars, id, open, left, proxyVars, workVars,
                 shutdownVars, dupIds>>

\* Mutant: the route is left to be overwritten by the next registration.
UnrouteSkipped(k) ==
  /\ phase[k] \in {"close.route", "clean.route"}
  /\ Goto(k, IF phase[k] = "close.route" THEN "close.stop" ELSE "clean.stop")
  /\ UNCHANGED <<serverVars, id, open, table, job, left, proxyVars, workVars,
                 shutdownVars, dupIds>>

\* unregisterEndpointRoute: only if the route still is this proxy's.
Unroute(k) ==
  /\ phase[k] \in {"close.route", "clean.route"}
  /\ routes' = WithoutRoute(job[k])
  /\ Goto(k, IF phase[k] = "close.route" THEN "close.stop" ELSE "clean.stop")
  /\ UNCHANGED <<clients, registered, id, open, table, job, left,
                 proxyVars, workVars, shutdownVars, dupIds>>

StopProxy(k) ==
  /\ phase[k] \in {"close.stop", "clean.stop"}
  /\ listening' = listening \ {job[k]}
  /\ stopped' = stopped \cup {job[k]}
  /\ Goto(k, IF phase[k] = "close.stop" THEN "close.unregister"
                                        ELSE "clean.unregister")
  /\ UNCHANGED <<serverVars, id, open, table, job, left, info,
                 workVars, shutdownVars, dupIds>>

\* Mutant: the server's map is cleared by proxy name alone.
UnregisterProxyByName(k) ==
  /\ phase[k] \in {"close.unregister", "clean.unregister"}
  /\ registered' = [key \in Ids \X Names |->
                      IF key[2] = info[job[k]].name THEN None ELSE registered[key]]
  /\ job' = [job EXCEPT ![k] = None]
  /\ Goto(k, IF phase[k] = "close.unregister" THEN "serving" ELSE "clean.next")
  /\ UNCHANGED <<clients, routes, id, open, table, left, proxyVars, workVars,
                 shutdownVars, dupIds>>

\* unregisterProxy deletes by key, whichever proxy is there.
UnregisterProxy(k) ==
  /\ phase[k] \in {"close.unregister", "clean.unregister"}
  /\ registered' = [registered EXCEPT ![Key(job[k])] = None]
  /\ job' = [job EXCEPT ![k] = None]
  /\ Goto(k, IF phase[k] = "close.unregister" THEN "serving" ELSE "clean.next")
  /\ UNCHANGED <<clients, routes, id, open, table, left, proxyVars,
                 workVars, shutdownVars, dupIds>>

\* readLoop returns on a read error; cleanup stops the timer.
ReadFails(k) ==
  /\ phase[k] = "serving"
  /\ ~open[k]
  /\ Goto(k, "clean.swap")
  /\ UNCHANGED <<serverVars, id, open, table, job, left, proxyVars, workVars,
                 shutdownVars, dupIds>>

\* Mutant: cc.proxies is replaced before it is copied.
SwapProxiesLoses(k) ==
  /\ phase[k] = "clean.swap"
  /\ table' = [table EXCEPT ![k] = [n \in Names |-> None]]
  /\ Goto(k, "clean.next")
  /\ UNCHANGED <<serverVars, id, open, job, left, proxyVars, workVars,
                 shutdownVars, dupIds>>

\* Mutant: removeClient is the first step of cleanup instead of the last.
SwapProxiesRemovesClient(k) ==
  /\ phase[k] = "clean.swap"
  /\ clients' = [clients EXCEPT ![id[k]] = None]
  /\ left' = [left EXCEPT ![k] = Held(k)]
  /\ table' = [table EXCEPT ![k] = [n \in Names |-> None]]
  /\ Goto(k, "clean.next")
  /\ UNCHANGED <<registered, routes, id, open, job, proxyVars, workVars,
                 shutdownVars, dupIds>>

\* Mutant: map entries without a proxy are copied as well.
SwapProxiesCopiesNil(k) ==
  /\ phase[k] = "clean.swap"
  /\ left' = [left EXCEPT ![k] = {table[k][n] : n \in Names}]
  /\ table' = [table EXCEPT ![k] = [n \in Names |-> None]]
  /\ Goto(k, "clean.next")
  /\ UNCHANGED <<serverVars, id, open, job, proxyVars, workVars, shutdownVars,
                 dupIds>>

\* Under proxiesMu cleanup takes every proxy out of cc.proxies.
SwapProxies(k) ==
  /\ phase[k] = "clean.swap"
  /\ left' = [left EXCEPT ![k] = Held(k)]
  /\ table' = [table EXCEPT ![k] = [n \in Names |-> None]]
  /\ Goto(k, "clean.next")
  /\ UNCHANGED <<serverVars, id, open, job, proxyVars, workVars,
                 shutdownVars, dupIds>>

NextProxy(k) ==
  /\ phase[k] = "clean.next"
  /\ \E p \in left[k] :
       /\ job' = [job EXCEPT ![k] = p]
       /\ left' = [left EXCEPT ![k] = @ \ {p}]
  /\ Goto(k, "clean.route")
  /\ UNCHANGED <<serverVars, id, open, table, proxyVars, workVars,
                 shutdownVars, dupIds>>

\* removeClient deletes by ID, whichever connection is there.
RemoveClient(k) ==
  /\ phase[k] = "clean.next"
  /\ left[k] = {}
  /\ clients' = [clients EXCEPT ![id[k]] = None]
  /\ open' = [open EXCEPT ![k] = FALSE]
  /\ Goto(k, "gone")
  /\ UNCHANGED <<registered, routes, id, table, job, left,
                 proxyVars, workVars, shutdownVars, dupIds>>

-------------------------------------------------------------------------------
(* What ends a connection.                                                  *)

\* The network or the client drops the connection.
Disconnect(k) ==
  /\ open[k]
  /\ phase[k] # "none"
  /\ open' = [open EXCEPT ![k] = FALSE]
  /\ UNCHANGED <<serverVars, phase, id, table, job, left, proxyVars,
                 workVars, shutdownVars, dupIds>>

\* The timer of resetHeartbeat fires, whatever the handlers are doing.
HeartbeatExpires(k) ==
  /\ phase[k] \in Serving
  /\ open' = [open EXCEPT ![k] = FALSE]
  /\ UNCHANGED <<serverVars, phase, id, table, job, left, proxyVars, workVars,
                 shutdownVars, dupIds>>

\* DisconnectClient(id) of the admin API: cc.close of whoever is registered.
DisconnectClient(i) ==
  LET k == clients[i] IN
  /\ k # None
  /\ open' = [open EXCEPT ![k] = FALSE]
  /\ UNCHANGED <<serverVars, phase, id, table, job, left, proxyVars, workVars,
                 shutdownVars, dupIds>>

-------------------------------------------------------------------------------
(* Sessions, as far as the control side decides them.                       *)

\* A session of p starts, by its listener or by a gateway request, whose route
\* lookup may be older than the route's withdrawal: the client is asked for a
\* work connection.
StartSession(p) ==
  /\ info[p] # None
  /\ LET k == info[p].owner IN
       /\ open[k]
       /\ \/ p \in listening
          \/ info[p].domain # None /\ ~(phase[k] = "new.route" /\ job[k] = p)
  /\ work[p] = "none"
  /\ work' = [work EXCEPT ![p] = "asked"]
  /\ UNCHANGED <<serverVars, connVars, proxyVars, scan, shutdownVars, dupIds>>

Owners(n) == {k \in Conns : table[k][n] # None /\ clients[id[k]] = k}

\* Mutant: any client is taken, without asking whether it has the proxy.
ScanClientsAny(p) ==
  /\ work[p] = "asked"
  /\ \E i \in Ids : clients[i] # None /\ scan' = [scan EXCEPT ![p] = clients[i]]
  /\ work' = [work EXCEPT ![p] = "scanned"]
  /\ UNCHANGED <<serverVars, connVars, proxyVars, shutdownVars, dupIds>>

\* handleWorkConnStream scans s.clients, in map order, for the proxy's name.
ScanClients(p) ==
  /\ work[p] = "asked"
  /\ IF Owners(info[p].name) = {}
       THEN /\ work' = [work EXCEPT ![p] = "rejected"]
            /\ UNCHANGED scan
       ELSE /\ \E k \in Owners(info[p].name) : scan' = [scan EXCEPT ![p] = k]
            /\ work' = [work EXCEPT ![p] = "scanned"]
  /\ UNCHANGED <<serverVars, connVars, proxyVars, shutdownVars, dupIds>>

\* It reads the proxy again, outside clientsMu, and delivers to that proxy,
\* which knows the session only if it is the one that asked.
DeliverWorkConn(p) ==
  /\ work[p] = "scanned"
  /\ work' = [work EXCEPT ![p] =
                IF table[scan[p]][info[p].name] = p THEN "delivered" ELSE "rejected"]
  /\ scan' = [scan EXCEPT ![p] = None]
  /\ UNCHANGED <<serverVars, connVars, proxyVars, shutdownVars, dupIds>>

-------------------------------------------------------------------------------
(* Server.Shutdown.                                                         *)

\* After s.cancel and the listeners: copy s.clients under its lock.
ShutdownCopiesClients ==
  /\ shutdown = "running"
  /\ shutdown' = "closing"
  /\ toClose' = {clients[i] : i \in Ids} \ {None}
  /\ UNCHANGED <<serverVars, connVars, proxyVars, workVars, toStop, dupIds>>

ShutdownCloses(k) ==
  /\ shutdown = "closing"
  /\ k \in toClose
  /\ toClose' = toClose \ {k}
  /\ open' = [open EXCEPT ![k] = FALSE]
  /\ UNCHANGED <<serverVars, phase, id, table, job, left, proxyVars, workVars,
                 shutdown, toStop, dupIds>>

ShutdownCopiesProxies ==
  /\ shutdown = "closing"
  /\ toClose = {}
  /\ shutdown' = "stopping"
  /\ toStop' = {registered[key] : key \in Ids \X Names} \ {None}
  /\ UNCHANGED <<serverVars, connVars, proxyVars, workVars, toClose, dupIds>>

ShutdownStops(p) ==
  /\ shutdown = "stopping"
  /\ p \in toStop
  /\ toStop' = toStop \ {p}
  /\ listening' = listening \ {p}
  /\ stopped' = stopped \cup {p}
  /\ UNCHANGED <<serverVars, connVars, info, workVars, shutdown, toClose, dupIds>>

ShutdownReturns ==
  /\ shutdown = "stopping"
  /\ toStop = {}
  /\ shutdown' = "returned"
  /\ UNCHANGED <<serverVars, connVars, proxyVars, workVars, toClose, toStop, dupIds>>

-------------------------------------------------------------------------------

\* What the goroutine of connection k does without waiting for a message.
Handler(k) ==
  \/ Admit(k) \/ LoginFails(k)
  \/ RegisterRoute(k) \/ StartProxy(k) \/ StartFails(k)
  \/ InsertProxy(k) \/ RegisterProxy(k)
  \/ Unroute(k) \/ StopProxy(k) \/ UnregisterProxy(k)
  \/ ReadFails(k) \/ SwapProxies(k) \/ NextProxy(k) \/ RemoveClient(k)

Shutdown ==
  \/ ShutdownCopiesClients
  \/ \E k \in Conns : ShutdownCloses(k)
  \/ ShutdownCopiesProxies
  \/ \E p \in Proxies : ShutdownStops(p)
  \/ ShutdownReturns

Next ==
  \/ \E k \in Conns :
       \/ CheckLogin(k)
       \/ Handler(k)
       \/ Disconnect(k)
       \/ HeartbeatExpires(k)
       \/ \E n \in Names :
            \/ CloseProxy(k, n)
            \/ \E p \in Proxies, d \in Domains \cup {None}, port \in BOOLEAN :
                 NewProxy(k, p, n, d, port)
  \/ \E i \in Ids : DisconnectClient(i)
  \/ \E p \in Proxies : StartSession(p) \/ ScanClients(p) \/ DeliverWorkConn(p)
  \/ Shutdown

Spec == Init /\ [][Next]_vars

-------------------------------------------------------------------------------
(* Properties.                                                              *)

TypeOK ==
  /\ clients \in [Ids -> Conns \cup {None}]
  /\ registered \in [Ids \X Names -> Proxies \cup {None}]
  /\ routes \in [Domains -> Proxies \cup {None}]
  /\ phase \in [Conns -> Phases]
  /\ id \in [Conns -> Ids]
  /\ open \in [Conns -> BOOLEAN]
  /\ table \in [Conns -> [Names -> Proxies \cup {None}]]
  /\ job \in [Conns -> Proxies \cup {None}]
  /\ left \in [Conns -> SUBSET Proxies]
  /\ info \in [Proxies -> ProxyInfo \cup {None}]
  /\ listening \subseteq Proxies
  /\ stopped \subseteq Proxies
  /\ work \in [Proxies -> {"none", "asked", "scanned", "delivered", "rejected"}]
  /\ scan \in [Proxies -> Conns \cup {None}]
  /\ shutdown \in {"running", "closing", "stopping", "returned"}
  /\ toClose \subseteq Conns
  /\ toStop \subseteq Proxies
  /\ dupIds \subseteq Ids

\* Cleanup forgets nothing, even when two connections share a client ID: once
\* a connection is gone no listener, public route, server-map entry or table of
\* its own refers to a proxy it created.
GoneLeavesNothing ==
  \A k \in Conns : phase[k] = "gone" =>
    /\ Held(k) = {} /\ left[k] = {} /\ job[k] = None
    /\ \A p \in Proxies : info[p] # None /\ info[p].owner = k =>
         /\ p \notin listening
         /\ \A d \in Domains : routes[d] # p
         /\ \A key \in Ids \X Names : registered[key] # p

\* A public route always leads to a proxy that serves that domain and still
\* runs: it is withdrawn before the proxy stops (Shutdown, which closes the
\* gateway first, does not withdraw routes).
RoutesLeadToRunning ==
  \A d \in Domains : routes[d] # None =>
    /\ info[routes[d]] # None
    /\ info[routes[d]].domain = d
    /\ routes[d] \in stopped => shutdown # "running"

\* Unless its ID was admitted twice, a connection that is being served is the
\* one its ID finds: the admin API, P2P forwarding and Shutdown reach it.
ServedIsFindable ==
  \A k \in Conns :
    phase[k] \in Serving \cup CleanPhases /\ id[k] \notin dupIds => clients[id[k]] = k

\* Unless its ID was admitted twice, every proxy of a connection between two
\* messages is in the server's map, which Shutdown and the statistics use.
ProxiesAreRegistered ==
  \A k \in Conns, n \in Names :
    phase[k] = "serving" /\ table[k][n] # None /\ id[k] \notin dupIds =>
      registered[<<id[k], n>>] = table[k][n]

\* A proxy that runs is in the server's table, and every table holds what its
\* type says (client_conn.go: handleNewProxy; server.go: registerProxy).
TablesAgree == TypeOK /\ ProxiesAreRegistered

\* Every open listener can still be stopped by its owner: it is in cc.proxies,
\* or the handler or cleanup under way has it in hand.
ListenersAreOwned ==
  \A p \in listening :
    LET k == info[p].owner IN
    phase[k] # "gone" /\ p \in Held(k) \cup left[k] \cup {job[k]}

Registered(p) ==
  LET k == info[p].owner IN clients[id[k]] = k /\ table[k][info[p].name] = p

SharesName(p) ==
  \E q \in Proxies :
    /\ info[q] # None
    /\ info[q].name = info[p].name
    /\ info[q].owner # info[p].owner

\* A work connection is refused only if its proxy is not in cc.proxies, or its
\* client not in s.clients, or another client uses the same proxy name.
RefusedOnlyIfGone ==
  [][\A p \in Proxies :
       work[p] # "rejected" /\ work'[p] = "rejected" =>
         ~Registered(p) \/ SharesName(p)]_vars

\* server.go refuses a login with "client ID already connected", after a
\* "Check for duplicate client ID": at most one connection is served per ID.
OneConnPerId ==
  \A j, k \in Conns :
    phase[j] \in Serving /\ phase[k] \in Serving /\ id[j] = id[k] => j = k

\* server.go: "Find the client that owns this proxy".  A work connection finds
\* the proxy that asked for it as long as that proxy is registered.
OwnerIsFound ==
  [][\A p \in Proxies :
       work[p] # "rejected" /\ work'[p] = "rejected" => ~Registered(p)]_vars

-------------------------------------------------------------------------------
\* For TLC: connections, client IDs and proxy objects are interchangeable.
Symmetry == Permutations(Conns) \cup Permutations(Ids) \cup Permutations(Proxies)
===============================================================================
