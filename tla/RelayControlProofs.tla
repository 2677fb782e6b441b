-------------------------- MODULE RelayControlProofs --------------------------
(***************************************************************************)
(* Proofs about RelayControl, for any connections, client IDs, names,      *)
(* domains and proxies: what each step of a handler, of cleanup and of     *)
(* Shutdown knows about the proxy it has in hand.                          *)
(***************************************************************************)
EXTENDS RelayControl, TLAPS

Created(p) == info[p] # None
Mine(k, p) == p \in Proxies /\ Created(p) /\ info[p].owner = k

\* The proxy is in its connection's table, or cleanup took it from there.
Has(p) ==
  LET k == info[p].owner IN table[k][info[p].name] = p \/ p \in left[k]

\* Its connection's handler or cleanup has p in hand, at one of the places.
InHand(p, places) ==
  LET k == info[p].owner IN job[k] = p /\ phase[k] \in places

CleanJob == {"clean.route", "clean.stop", "clean.unregister"}

JobInv ==
  \A k \in Conns :
    IF phase[k] \in NewPhases \cup ClosePhases \cup CleanJob
      THEN Mine(k, job[k]) /\ job[k] \notin left[k]
      ELSE job[k] = None

\* The new proxy's place in the table is free until it is inserted, and a
\* proxy that is being closed has left it.
PlaceInv ==
  \A k \in Conns :
    LET place == table[k][info[job[k]].name] IN
    /\ phase[k] \in {"new.route", "new.start", "new.insert"} \cup ClosePhases => place = None
    /\ phase[k] = "new.register" => place = job[k]

TableInv ==
  \A k \in Conns, n \in Names : table[k][n] # None =>
    /\ Mine(k, table[k][n]) /\ info[table[k][n]].name = n
    /\ phase[k] \in Serving \cup {"clean.swap"}

LeftInv ==
  \A k \in Conns, p \in Proxies : p \in left[k] =>
    Mine(k, p) /\ phase[k] \in CleanPhases \ {"clean.swap"}

ListenInv ==
  \A p \in listening :
    Created(p) /\ (Has(p) \/ InHand(p, {"new.insert", "new.register", "close.route",
                                        "close.stop", "clean.route", "clean.stop"}))

RouteInv ==
  \A d \in Domains, p \in Proxies : routes[d] = p =>
    /\ Created(p) /\ info[p].domain = d
    /\ Has(p) \/ InHand(p, {"new.start", "new.insert", "new.register", "close.route",
                            "clean.route"})

RegInv ==
  \A key \in Ids \X Names, p \in Proxies : registered[key] = p =>
    /\ Created(p) /\ key = Key(p)
    /\ Has(p) \/ InHand(p, ClosePhases \cup CleanJob)

StopInv ==
  shutdown = "running" =>
    \A p \in stopped :
      /\ Created(p) /\ ~Has(p)
      /\ InHand(p, Phases) => InHand(p, {"close.unregister", "clean.unregister"})

RegisteredInv ==
  \A k \in Conns, n \in Names :
    /\ phase[k] \in Serving \cup {"clean.swap"} /\ table[k][n] # None
    /\ ~(phase[k] = "new.register" /\ job[k] = table[k][n])
    /\ id[k] \notin dupIds
    => registered[<<id[k], n>>] = table[k][n]

AskInv ==
  \A p \in Proxies : work[p] # "none" => Created(p) /\ ~InHand(p, {"new.route"})

\* Whoever the scan settled on has, or had, a proxy of that name.
Settled(p) ==
  /\ scan[p] \in Conns
  /\ \/ scan[p] = info[p].owner
     \/ \E q \in Proxies : /\ Created(q) /\ ~InHand(q, {"new.route"})
                           /\ info[q].name = info[p].name /\ info[q].owner = scan[p]
ScanInv == \A p \in Proxies : work[p] = "scanned" => Settled(p)

\* Four parts: what connections have in hand, where a proxy can be reached
\* from, who is found, and what work connections know.
HandsInv == TypeOK /\ JobInv /\ PlaceInv /\ TableInv /\ LeftInv
PlacesInv == ListenInv /\ RouteInv /\ RegInv /\ StopInv
FoundInv == ServedIsFindable /\ RegisteredInv
WorkInv == AskInv /\ ScanInv

IInv == HandsInv /\ PlacesInv /\ FoundInv /\ WorkInv

\* What a work connection has found stays found as long as no proxy that was
\* published disappears.
LEMMA ScanFrame ==
  ASSUME WorkInv, UNCHANGED <<work, scan>>,
         \A q \in Proxies : Created(q) /\ ~InHand(q, {"new.route"}) =>
           /\ Created(q)' /\ ~InHand(q, {"new.route"})'
           /\ info'[q] = info[q]
  PROVE  WorkInv'
<1>1. AskInv'
  BY DEF WorkInv, AskInv
<1>2. ScanInv'
  <2> SUFFICES ASSUME NEW p \in Proxies, work[p] = "scanned"
               PROVE  Settled(p)'
    BY DEF ScanInv
  <2>1. Settled(p) /\ info'[p] = info[p]
    BY DEF WorkInv, ScanInv, AskInv
  <2> QED BY <2>1 DEF Settled
<1> QED BY <1>1, <1>2 DEF WorkInv

\* Before its route is registered nothing refers to a new proxy.
LEMMA Unpublished ==
  ASSUME HandsInv, PlacesInv, NEW k \in Conns, NEW p, Mine(k, p),
         InHand(p, {"new.route"})
  PROVE  /\ p \notin listening /\ \A d \in Domains : routes[d] # p
         /\ \A key \in Ids \X Names : registered[key] # p
         /\ shutdown = "running" => p \notin stopped
<1>1. ~Has(p)
  BY NoneAssumption DEF HandsInv, PlaceInv, LeftInv, InHand, Has, CleanPhases, Mine
<1>2. \A places : InHand(p, places) => "new.route" \in places
  BY DEF InHand
<1> USE DEF Mine
<1>3. p \notin listening
  BY <1>1, <1>2 DEF PlacesInv, ListenInv
<1>4. \A d \in Domains : routes[d] # p
  BY <1>1, <1>2 DEF PlacesInv, RouteInv
<1>5. \A key \in Ids \X Names : registered[key] # p
  BY <1>1, <1>2 DEF PlacesInv, RegInv, ClosePhases, CleanJob
<1>6. shutdown = "running" => p \notin stopped
  BY <1>2 DEF PlacesInv, StopInv, InHand, Phases, Serving, NewPhases
<1> QED BY <1>3, <1>4, <1>5, <1>6

LEMMA RouteTypes ==
  ASSUME TypeOK, JobInv, NEW k \in Conns, RegisterRoute(k)
  PROVE  TypeOK'
<1> DEFINE p == job[k]
           d == info[p].domain
<1>1. Mine(k, p)
  BY DEF JobInv, RegisterRoute, NewPhases
<1>2. p \in Proxies
  BY <1>1 DEF Mine
<1>3. PICK to \in {"new.start", "new.insert", "serving"} : phase' = [phase EXCEPT ![k] = to]
  BY DEF RegisterRoute, Goto
<1>4. phase' \in [Conns -> Phases]
  BY <1>3 DEF TypeOK, Phases, Serving, NewPhases
<1>5. routes' \in [Domains -> Proxies \cup {None}]
  <2>1. routes' \in {routes, [routes EXCEPT ![d] = p]}
    BY DEF RegisterRoute
  <2> QED BY <1>2, <2>1 DEF TypeOK
<1>6. job' \in [Conns -> Proxies \cup {None}]
  <2>1. job' \in {job, [job EXCEPT ![k] = None]}
    BY DEF RegisterRoute
  <2> QED BY <2>1 DEF TypeOK
<1>7. info' \in [Proxies -> ProxyInfo \cup {None}]
  <2>1. info' \in {info, [info EXCEPT ![p] = None]}
    BY DEF RegisterRoute
  <2> QED BY <2>1 DEF TypeOK
<1>8. UNCHANGED <<clients, registered, id, open, table, left, listening, stopped,
                  workVars, shutdownVars, dupIds>>
  BY DEF RegisterRoute
<1> QED BY <1>4, <1>5, <1>6, <1>7, <1>8 DEF TypeOK, workVars, shutdownVars

\* Logging in, and what ends a connection.
LEMMA LoginKeeps ==
  ASSUME IInv,
         \/ \E k \in Conns : \/ CheckLogin(k) \/ Admit(k) \/ LoginFails(k)
                             \/ Disconnect(k) \/ HeartbeatExpires(k)
         \/ \E i \in Ids : DisconnectClient(i)
  PROVE  IInv'
<1> USE NoneAssumption, InfoAssumption
        DEF IInv, HandsInv, PlacesInv, FoundInv, WorkInv, TypeOK, JobInv, PlaceInv,
            TableInv, LeftInv, ListenInv, RouteInv, RegInv, StopInv, ServedIsFindable,
            RegisteredInv, AskInv, ScanInv, Settled, Created, Mine, Has, InHand, CleanJob,
            Key, Goto, serverVars, connVars, proxyVars, workVars, shutdownVars, Phases, Serving,
            NewPhases, ClosePhases, CleanPhases, ProxyInfo
<1>1. ASSUME NEW k \in Conns, CheckLogin(k) PROVE IInv'
  <2>1. CASE clients[id[k]] = None
    <3>1. phase' = [phase EXCEPT ![k] = "checked"] /\ UNCHANGED open
      BY <1>1, <2>1 DEF CheckLogin
    <3> QED BY <1>1, <3>1 DEF CheckLogin
  <2>2. CASE clients[id[k]] # None
    <3>1. phase' = [phase EXCEPT ![k] = "gone"] /\ open' = [open EXCEPT ![k] = FALSE]
      BY SMTT(30), <1>1, <2>2 DEF CheckLogin
    <3> QED BY SMTT(30), <1>1, <3>1 DEF CheckLogin
  <2> QED BY <2>1, <2>2
<1>2. ASSUME NEW k \in Conns, Admit(k) PROVE IInv'
  <2>1. HandsInv' BY SMTT(30), <1>2 DEF Admit
  <2>2. PlacesInv' BY <1>2 DEF Admit
  <2>3. FoundInv' BY <1>2 DEF Admit
  <2>4. WorkInv' BY SMTT(30), <1>2 DEF Admit
  <2> QED BY <2>1, <2>2, <2>3, <2>4
<1>3. ASSUME NEW k \in Conns, LoginFails(k) PROVE IInv'
  BY SMTT(30), <1>3 DEF LoginFails
<1>4. ASSUME NEW k \in Conns, Disconnect(k) PROVE IInv'
  BY SMTT(30), <1>4 DEF Disconnect
<1>5. ASSUME NEW k \in Conns, HeartbeatExpires(k) PROVE IInv'
  BY SMTT(30), <1>5 DEF HeartbeatExpires
<1>6. ASSUME NEW i \in Ids, DisconnectClient(i) PROVE IInv'
  BY SMTT(30), <1>6 DEF DisconnectClient
<1> HIDE DEF IInv
<1> QED BY <1>1, <1>2, <1>3, <1>4, <1>5, <1>6

\* A proxy is created, published, started, inserted and registered.
LEMMA NewProxyKeeps ==
  ASSUME IInv,
         NEW c \in Conns,
         \/ \E n \in Names, p \in Proxies, d \in Domains \cup {None}, port \in BOOLEAN :
              NewProxy(c, p, n, d, port)
         \/ RegisterRoute(c) \/ StartProxy(c) \/ StartFails(c)
         \/ InsertProxy(c) \/ RegisterProxy(c)
  PROVE  IInv'
<1> USE NoneAssumption, InfoAssumption
        DEF IInv, HandsInv, PlacesInv, FoundInv, WorkInv, TypeOK, JobInv, PlaceInv,
            TableInv, LeftInv, ListenInv, RouteInv, RegInv, StopInv, ServedIsFindable,
            RegisteredInv, AskInv, ScanInv, Settled, Created, Mine, Has, InHand, CleanJob,
            Key, Goto, serverVars, connVars, proxyVars, workVars, shutdownVars, Phases, Serving,
            NewPhases, ClosePhases, CleanPhases, ProxyInfo
<1>1. ASSUME NEW k \in Conns, NEW n \in Names, NEW p \in Proxies,
             NEW d \in Domains \cup {None}, NEW port \in BOOLEAN,
             NewProxy(k, p, n, d, port) PROVE IInv'
  <2>1. HandsInv' BY SMTT(30), <1>1 DEF NewProxy
  <2>2. PlacesInv' BY <1>1 DEF NewProxy
  <2>3. FoundInv' BY <1>1 DEF NewProxy
  <2>4. WorkInv'
    <3>1. \A q \in Proxies : Created(q) => info'[q] = info[q] /\ q # p
      BY <1>1 DEF NewProxy
    <3>2. PICK to \in {"new.route", "new.start"} : phase' = [phase EXCEPT ![k] = to]
      BY <1>1 DEF NewProxy
    <3>3. job' = [job EXCEPT ![k] = p] /\ UNCHANGED <<work, scan>>
      BY <1>1 DEF NewProxy
    <3>4. \A q \in Proxies : Created(q) /\ ~InHand(q, {"new.route"}) =>
            Created(q)' /\ ~InHand(q, {"new.route"})'
      BY SMTT(30), <3>1, <3>2, <3>3
    <3> QED BY <3>1, <3>3, <3>4, ScanFrame
  <2> QED BY SMTT(30), <2>1, <2>2, <2>3, <2>4
<1>2. ASSUME NEW k \in Conns, RegisterRoute(k) PROVE IInv'
  <2> DEFINE p == job[k]
             d == info[p].domain
  <2>1. /\ Mine(k, p) /\ p \notin left[k] /\ p # None
        /\ InHand(p, {"new.route"}) /\ table[k][info[p].name] = None /\ ~Has(p)
    BY SMTT(30), <1>2 DEF RegisterRoute
  <2>2. CASE /\ routes' = [routes EXCEPT ![d] = p] /\ UNCHANGED <<job, info>>
             /\ routes[d] \in {None, p}
             /\ Goto(k, IF info[p].listens THEN "new.start" ELSE "new.insert")
    <3>1. PICK to \in {"new.start", "new.insert"} : phase' = [phase EXCEPT ![k] = to]
      BY <2>2
    <3>2. UNCHANGED <<clients, registered, id, open, table, left, listening, stopped,
                      workVars, shutdownVars, dupIds>>
      BY <1>2 DEF RegisterRoute
    <3>3. TypeOK' BY <1>2, RouteTypes
    <3>4. JobInv' /\ PlaceInv' /\ TableInv' /\ LeftInv' BY <2>1, <2>2, <3>1, <3>2
    <3>5. HandsInv' BY SMTT(30), <3>3, <3>4
    <3>6. PlacesInv' BY <2>1, <2>2, <3>1, <3>2
    <3>7. FoundInv' BY <2>1, <2>2, <3>1, <3>2
    <3>8. \A q \in Proxies : ~InHand(q, {"new.route"}) => ~InHand(q, {"new.route"})'
      BY <2>2, <3>1
    <3>9. WorkInv' BY SMTT(30), <2>2, <3>2, <3>8, ScanFrame
    <3> QED BY <3>5, <3>6, <3>7, <3>9
  <2>3. CASE /\ Goto(k, "serving") /\ job' = [job EXCEPT ![k] = None]
             /\ info' = [info EXCEPT ![p] = None] /\ UNCHANGED routes
    <3>1. UNCHANGED <<clients, registered, id, open, table, left, listening, stopped,
                      workVars, shutdownVars, dupIds>>
      BY SMTT(30), <1>2 DEF RegisterRoute
    <3>2. /\ p \notin listening /\ \A e \in Domains : routes[e] # p
          /\ \A key \in Ids \X Names : registered[key] # p
          /\ shutdown = "running" => p \notin stopped
      BY <2>1, Unpublished
    <3>3. \A x \in Conns : p \notin left[x] /\ \A n \in Names : table[x][n] # p
      BY SMTT(30), <2>1
    <3>4. HandsInv' BY SMTT(30), <1>2, <2>1, <2>3, <3>1, <3>3 DEF RegisterRoute
    <3>5. PlacesInv' BY <2>1, <2>3, <3>1, <3>2, <3>3
    <3>6. FoundInv' BY <2>1, <2>3, <3>1, <3>3
    <3>7. \A q \in Proxies : Created(q) /\ ~InHand(q, {"new.route"}) =>
            Created(q)' /\ ~InHand(q, {"new.route"})' /\ info'[q] = info[q]
      BY <2>1, <2>3
    <3>8. WorkInv' BY <3>1, <3>7, ScanFrame
    <3> QED BY <3>4, <3>5, <3>6, <3>8
  <2> QED BY <1>2, <2>2, <2>3 DEF RegisterRoute
<1>3. ASSUME NEW k \in Conns, StartProxy(k) PROVE IInv'
  <2>1. HandsInv' BY <1>3 DEF StartProxy
  <2>2. PlacesInv' BY <1>3 DEF StartProxy
  <2>3. FoundInv' BY <1>3 DEF StartProxy
  <2>4. WorkInv' BY <1>3 DEF StartProxy
  <2> QED BY <2>1, <2>2, <2>3, <2>4
<1>4. ASSUME NEW k \in Conns, StartFails(k) PROVE IInv'
  <2>1. HandsInv' BY SMTT(30), <1>4 DEF StartFails, WithoutRoute
  <2>2. PlacesInv' BY <1>4 DEF StartFails, WithoutRoute
  <2>3. FoundInv' BY <1>4 DEF StartFails, WithoutRoute
  <2>4. WorkInv' BY SMTT(30), <1>4 DEF StartFails, WithoutRoute
  <2> QED BY <2>1, <2>2, <2>3, <2>4
<1>5. ASSUME NEW k \in Conns, InsertProxy(k) PROVE IInv'
  <2>1. HandsInv' BY SMTT(30), <1>5 DEF InsertProxy
  <2>2. PlacesInv' BY <1>5 DEF InsertProxy
  <2>3. FoundInv' BY <1>5 DEF InsertProxy
  <2>4. WorkInv' BY SMTT(30), <1>5 DEF InsertProxy
  <2> QED BY <2>1, <2>2, <2>3, <2>4
<1>6. ASSUME NEW k \in Conns, RegisterProxy(k) PROVE IInv'
  <2>1. HandsInv' BY SMTT(30), <1>6 DEF RegisterProxy
  <2>2. PlacesInv' BY SMTT(30), <1>6 DEF RegisterProxy
  <2>3. FoundInv' BY SMTT(30), <1>6 DEF RegisterProxy
  <2>4. WorkInv' BY SMTT(30), <1>6 DEF RegisterProxy
  <2> QED BY <2>1, <2>2, <2>3, <2>4
<1> HIDE DEF IInv
<1> QED BY <1>1, <1>2, <1>3, <1>4, <1>5, <1>6

\* It is taken down by handleCloseProxy or cleanup.
LEMMA CloseKeeps ==
  ASSUME IInv,
         NEW c \in Conns,
         \/ \E n \in Names : CloseProxy(c, n)
         \/ Unroute(c) \/ StopProxy(c) \/ UnregisterProxy(c) \/ ReadFails(c)
         \/ SwapProxies(c) \/ NextProxy(c) \/ RemoveClient(c)
  PROVE  IInv'
<1> USE NoneAssumption, InfoAssumption
        DEF IInv, HandsInv, PlacesInv, FoundInv, WorkInv, TypeOK, JobInv, PlaceInv,
            TableInv, LeftInv, ListenInv, RouteInv, RegInv, StopInv, ServedIsFindable,
            RegisteredInv, AskInv, ScanInv, Settled, Created, Mine, Has, InHand, CleanJob,
            Key, Goto, serverVars, connVars, proxyVars, workVars, shutdownVars, Phases, Serving,
            NewPhases, ClosePhases, CleanPhases, ProxyInfo
<1>1. ASSUME NEW k \in Conns, NEW n \in Names, CloseProxy(k, n) PROVE IInv'
  <2>1. HandsInv' BY SMTT(30), <1>1 DEF CloseProxy
  <2>2. PlacesInv' BY <1>1 DEF CloseProxy
  <2>3. FoundInv' BY <1>1 DEF CloseProxy
  <2>4. WorkInv' BY SMTT(30), <1>1 DEF CloseProxy
  <2> QED BY SMTT(30), <2>1, <2>2, <2>3, <2>4
<1>2. ASSUME NEW k \in Conns, Unroute(k) PROVE IInv'
  <2>1. HandsInv' BY SMTT(30), <1>2 DEF Unroute, WithoutRoute
  <2>2. PlacesInv' BY <1>2 DEF Unroute, WithoutRoute
  <2>3. FoundInv' BY <1>2 DEF Unroute, WithoutRoute
  <2>4. WorkInv' BY <1>2 DEF Unroute, WithoutRoute
  <2> QED BY <2>1, <2>2, <2>3, <2>4
<1>3. ASSUME NEW k \in Conns, StopProxy(k) PROVE IInv'
  <2>1. HandsInv' BY SMTT(30), <1>3 DEF StopProxy
  <2>2. PlacesInv' BY <1>3 DEF StopProxy
  <2>3. FoundInv' BY <1>3 DEF StopProxy
  <2>4. WorkInv' BY SMTT(30), <1>3 DEF StopProxy
  <2> QED BY <2>1, <2>2, <2>3, <2>4
<1>4. ASSUME NEW k \in Conns, UnregisterProxy(k) PROVE IInv'
  <2>1. HandsInv' BY SMTT(30), <1>4 DEF UnregisterProxy
  <2>2. PlacesInv' BY SMTT(30), <1>4 DEF UnregisterProxy
  <2>3. FoundInv' BY SMTT(30), <1>4 DEF UnregisterProxy
  <2>4. WorkInv' BY SMTT(30), <1>4 DEF UnregisterProxy
  <2> QED BY <2>1, <2>2, <2>3, <2>4
<1>5. ASSUME NEW k \in Conns, ReadFails(k) PROVE IInv'
  BY <1>5 DEF ReadFails
<1>6. ASSUME NEW k \in Conns, SwapProxies(k) PROVE IInv'
  <2>1. HandsInv' BY SMTT(30), <1>6 DEF SwapProxies, Held
  <2>2. PlacesInv' BY <1>6 DEF SwapProxies, Held
  <2>3. FoundInv' BY <1>6 DEF SwapProxies, Held
  <2>4. WorkInv' BY <1>6 DEF SwapProxies, Held
  <2> QED BY <2>1, <2>2, <2>3, <2>4
<1>7. ASSUME NEW k \in Conns, NextProxy(k) PROVE IInv'
  <2>1. HandsInv' BY SMTT(30), <1>7 DEF NextProxy
  <2>2. PlacesInv' BY <1>7 DEF NextProxy
  <2>3. FoundInv' BY <1>7 DEF NextProxy
  <2>4. WorkInv' BY SMTT(30), <1>7 DEF NextProxy
  <2> QED BY <2>1, <2>2, <2>3, <2>4
<1>8. ASSUME NEW k \in Conns, RemoveClient(k) PROVE IInv'
  <2>1. HandsInv' BY SMTT(30), <1>8 DEF RemoveClient
  <2>2. PlacesInv' BY <1>8 DEF RemoveClient
  <2>3. FoundInv' BY <1>8 DEF RemoveClient
  <2>4. WorkInv' BY SMTT(30), <1>8 DEF RemoveClient
  <2> QED BY <2>1, <2>2, <2>3, <2>4
<1> HIDE DEF IInv
<1> QED BY <1>1, <1>2, <1>3, <1>4, <1>5, <1>6, <1>7, <1>8

\* Work connections look for it.
LEMMA WorkKeeps ==
  ASSUME IInv,
         \E p \in Proxies : StartSession(p) \/ ScanClients(p) \/ DeliverWorkConn(p)
  PROVE  IInv'
<1> USE NoneAssumption, InfoAssumption
        DEF IInv, HandsInv, PlacesInv, FoundInv, WorkInv, TypeOK, JobInv, PlaceInv,
            TableInv, LeftInv, ListenInv, RouteInv, RegInv, StopInv, ServedIsFindable,
            RegisteredInv, AskInv, ScanInv, Settled, Created, Mine, Has, InHand, CleanJob,
            Key, Goto, serverVars, connVars, proxyVars, workVars, shutdownVars, Phases, Serving,
            NewPhases, ClosePhases, CleanPhases, ProxyInfo
<1>1. ASSUME NEW p \in Proxies, StartSession(p) PROVE IInv'
  <2>1. HandsInv' BY SMTT(30), <1>1 DEF StartSession
  <2>2. PlacesInv' BY <1>1 DEF StartSession
  <2>3. FoundInv' BY <1>1 DEF StartSession
  <2>4. WorkInv'
    <3>1. Created(p) /\ UNCHANGED <<info, job, phase, scan>>
          /\ work' = [work EXCEPT ![p] = "asked"]
      BY <1>1 DEF StartSession
    <3>2. ~InHand(p, {"new.route"})
      <4>1. CASE p \in listening
        <5>1. Has(p) \/ ~InHand(p, {"new.route"})
          BY <4>1
        <5> QED BY <3>1, <5>1
      <4>2. CASE ~(phase[info[p].owner] = "new.route" /\ job[info[p].owner] = p)
        BY <4>2
      <4> QED BY <1>1, <4>1, <4>2 DEF StartSession
    <3>3. AskInv'
      BY <3>1, <3>2
    <3>4. ScanInv'
      <4> SUFFICES ASSUME NEW q \in Proxies, work'[q] = "scanned"
                   PROVE  Settled(q)'
        OBVIOUS
      <4>1. work[q] = "scanned"
        BY <3>1
      <4>2. Settled(q)
        BY <4>1
      <4> QED BY <3>1, <4>2
    <3> QED BY <3>3, <3>4
  <2> QED BY SMTT(30), <2>1, <2>2, <2>3, <2>4
<1>2. ASSUME NEW p \in Proxies, ScanClients(p) PROVE IInv'
  <2>1. HandsInv'
    <3>1. CASE Owners(info[p].name) = {}
      BY <1>2, <3>1 DEF ScanClients
    <3>2. ASSUME NEW k \in Owners(info[p].name),
                 scan' = [scan EXCEPT ![p] = k], work' = [work EXCEPT ![p] = "scanned"]
          PROVE  HandsInv'
      BY SMTT(30), <1>2, <3>2 DEF ScanClients, Owners
    <3> QED BY <1>2, <3>1, <3>2 DEF ScanClients
  <2>2. PlacesInv' BY <1>2 DEF ScanClients, Owners
  <2>3. FoundInv' BY <1>2 DEF ScanClients, Owners
  <2>4. WorkInv'
    <3>1. UNCHANGED <<info, job, phase>> /\ work[p] = "asked"
      BY <1>2 DEF ScanClients
    <3>2. AskInv'
      BY <1>2, <3>1 DEF ScanClients
    <3>3. \A q \in Proxies \ {p} : work'[q] = work[q] /\ scan'[q] = scan[q]
      BY <1>2 DEF ScanClients
    <3>4. work'[p] = "scanned" => Settled(p)'
      <4> SUFFICES ASSUME NEW k \in Owners(info[p].name), scan' = [scan EXCEPT ![p] = k]
                   PROVE  Settled(p)'
        BY <1>2 DEF ScanClients
      <4> DEFINE q == table[k][info[p].name]
      <4>1. /\ k \in Conns /\ q \in Proxies /\ Created(q)
            /\ info[q].name = info[p].name /\ info[q].owner = k
        BY SMTT(30), <3>1 DEF Owners
      <4>2. ~InHand(q, {"new.route"})
        BY <4>1 DEF Owners
      <4>3. scan'[p] = k
        BY <3>1
      <4> QED BY <3>1, <4>1, <4>2, <4>3
    <3>5. ScanInv'
      <4> SUFFICES ASSUME NEW q \in Proxies, work'[q] = "scanned" PROVE Settled(q)'
        OBVIOUS
      <4>1. CASE q = p
        BY <3>4, <4>1
      <4>2. CASE q # p
        <5>1. Settled(q) /\ scan'[q] = scan[q]
          BY SMTT(30), <3>3, <4>2
        <5> QED BY <3>1, <5>1
      <4> QED BY <4>1, <4>2
    <3> QED BY <3>2, <3>5
  <2> QED BY <2>1, <2>2, <2>3, <2>4
<1>3. ASSUME NEW p \in Proxies, DeliverWorkConn(p) PROVE IInv'
  <2>1. HandsInv' BY SMTT(30), <1>3 DEF DeliverWorkConn
  <2>2. PlacesInv' BY <1>3 DEF DeliverWorkConn
  <2>3. FoundInv' BY SMTT(30), <1>3 DEF DeliverWorkConn
  <2>4. WorkInv'
    <3>1. /\ UNCHANGED <<info, job, phase>> /\ work[p] = "scanned" /\ work'[p] # "scanned"
          /\ \A q \in Proxies \ {p} : work'[q] = work[q] /\ scan'[q] = scan[q]
      BY <1>3 DEF DeliverWorkConn
    <3>2. AskInv'
      BY <3>1
    <3>3. ScanInv'
      <4> SUFFICES ASSUME NEW q \in Proxies, work'[q] = "scanned" PROVE Settled(q)'
        OBVIOUS
      <4>1. Settled(q) /\ scan'[q] = scan[q]
        BY SMTT(30), <3>1
      <4> QED BY <3>1, <4>1
    <3> QED BY <3>2, <3>3
  <2> QED BY <2>1, <2>2, <2>3, <2>4
<1> HIDE DEF IInv
<1> QED BY <1>1, <1>2, <1>3

\* Shutdown stops what its snapshots hold.
LEMMA ShutdownKeeps ==
  ASSUME IInv,
         Shutdown
  PROVE  IInv'
<1> USE NoneAssumption, InfoAssumption
        DEF IInv, HandsInv, PlacesInv, FoundInv, WorkInv, TypeOK, JobInv, PlaceInv,
            TableInv, LeftInv, ListenInv, RouteInv, RegInv, StopInv, ServedIsFindable,
            RegisteredInv, AskInv, ScanInv, Settled, Created, Mine, Has, InHand, CleanJob,
            Key, Goto, serverVars, connVars, proxyVars, workVars, shutdownVars, Phases, Serving,
            NewPhases, ClosePhases, CleanPhases, ProxyInfo
<1>1. ASSUME ShutdownCopiesClients PROVE IInv'
  BY <1>1 DEF ShutdownCopiesClients
<1>2. ASSUME NEW k \in Conns, ShutdownCloses(k) PROVE IInv'
  BY <1>2 DEF ShutdownCloses
<1>3. ASSUME ShutdownCopiesProxies PROVE IInv'
  BY SMTT(30), <1>3 DEF ShutdownCopiesProxies
<1>4. ASSUME NEW p \in Proxies, ShutdownStops(p) PROVE IInv'
  <2>1. HandsInv' BY <1>4 DEF ShutdownStops
  <2>2. PlacesInv' BY <1>4 DEF ShutdownStops
  <2>3. FoundInv' BY <1>4 DEF ShutdownStops
  <2>4. WorkInv' BY <1>4 DEF ShutdownStops
  <2> QED BY <2>1, <2>2, <2>3, <2>4
<1>5. ASSUME ShutdownReturns PROVE IInv'
  BY <1>5 DEF ShutdownReturns
<1> HIDE DEF IInv
<1> QED BY <1>1, <1>2, <1>3, <1>4, <1>5 DEF Shutdown

LEMMA InitInv == Init => IInv
<1> SUFFICES ASSUME Init PROVE IInv
  OBVIOUS
<1> USE NoneAssumption DEF Init
<1>1. HandsInv
  BY DEF HandsInv, TypeOK, JobInv, PlaceInv, TableInv, LeftInv, NewPhases, ClosePhases,
         CleanJob, Phases
<1>2. PlacesInv
  BY DEF PlacesInv, ListenInv, RouteInv, RegInv, StopInv
<1>3. FoundInv
  BY DEF FoundInv, ServedIsFindable, RegisteredInv, Serving, NewPhases, ClosePhases, CleanPhases
<1>4. WorkInv
  BY DEF WorkInv, AskInv, ScanInv
<1> QED BY <1>1, <1>2, <1>3, <1>4 DEF IInv

LEMMA Inductive == IInv /\ [Next]_vars => IInv'
<1> SUFFICES ASSUME IInv, [Next]_vars PROVE IInv'
  OBVIOUS
<1>1. CASE Next
  <2>1. ASSUME NEW k \in Conns, Handler(k) PROVE IInv'
    BY <2>1, LoginKeeps, NewProxyKeeps, CloseKeeps DEF Handler
  <2> QED
    BY <1>1, <2>1, LoginKeeps, NewProxyKeeps, CloseKeeps, WorkKeeps, ShutdownKeeps DEF Next
<1>2. CASE UNCHANGED vars
  BY <1>2
  DEF IInv, HandsInv, PlacesInv, FoundInv, WorkInv, TypeOK, JobInv, PlaceInv, TableInv, LeftInv,
      ListenInv, RouteInv, RegInv, StopInv, ServedIsFindable, RegisteredInv, AskInv, ScanInv,
      Settled, Created, Mine, Has, InHand, Key, vars, serverVars, connVars, proxyVars, workVars,
      shutdownVars
<1> QED BY <1>1, <1>2

THEOREM Invariant == Spec => []IInv
BY InitInv, Inductive, PTL DEF Spec

-------------------------------------------------------------------------------
\* What the runs check follows.

\* Once a connection is gone nothing refers to a proxy it created, for any
\* connections, also when several share a client ID (cleanup).
THEOREM GoneIsClean == Spec => []GoneLeavesNothing
<1>1. IInv => GoneLeavesNothing
  <2> SUFFICES ASSUME IInv, NEW k \in Conns, phase[k] = "gone"
               PROVE  /\ Held(k) = {} /\ left[k] = {} /\ job[k] = None
                      /\ \A p \in Proxies : info[p] # None /\ info[p].owner = k =>
                           /\ p \notin listening
                           /\ \A d \in Domains : routes[d] # p
                           /\ \A key \in Ids \X Names : registered[key] # p
    BY DEF GoneLeavesNothing
  <2> USE DEF IInv, HandsInv
  <2>1. job[k] = None
    BY DEF JobInv, NewPhases, ClosePhases, CleanJob
  <2>2. \A n \in Names : table[k][n] = None
    BY DEF TableInv, Serving, NewPhases, ClosePhases
  <2>3. left[k] = {}
    BY DEF LeftInv, TypeOK, CleanPhases
  <2>4. ASSUME NEW p \in Proxies, Created(p), info[p].owner = k
        PROVE  ~Has(p) /\ \A places : ~InHand(p, places)
    BY <2>1, <2>2, <2>3, <2>4, NoneAssumption, InfoAssumption
    DEF Has, InHand, Created, TypeOK, ProxyInfo
  <2> USE DEF PlacesInv, Created
  <2>5. ASSUME NEW p \in Proxies, Created(p), info[p].owner = k
        PROVE  /\ p \notin listening
               /\ \A d \in Domains : routes[d] # p
               /\ \A key \in Ids \X Names : registered[key] # p
    BY <2>4, <2>5 DEF ListenInv, RouteInv, RegInv
  <2> QED BY <2>1, <2>2, <2>3, <2>5 DEF Held
<1> QED BY <1>1, Invariant, PTL

\* A public route leads to a proxy that serves its domain and, until Shutdown,
\* still runs (registerEndpointRoute, unregisterEndpointRoute, Proxy.Stop).
THEOREM RoutesRun == Spec => []RoutesLeadToRunning
<1>1. IInv => RoutesLeadToRunning
  <2> SUFFICES ASSUME IInv, NEW d \in Domains, routes[d] # None
               PROVE  /\ info[routes[d]] # None
                      /\ info[routes[d]].domain = d
                      /\ routes[d] \in stopped => shutdown # "running"
    BY DEF RoutesLeadToRunning
  <2> DEFINE p == routes[d]
  <2>1. p \in Proxies
    BY DEF IInv, HandsInv, TypeOK
  <2>2. /\ Created(p) /\ info[p].domain = d
        /\ Has(p) \/ InHand(p, {"new.start", "new.insert", "new.register", "close.route",
                                "clean.route"})
    BY <2>1 DEF IInv, PlacesInv, RouteInv
  <2>3. ASSUME p \in stopped, shutdown = "running" PROVE FALSE
    <3>1. ~Has(p) /\ (InHand(p, Phases) => InHand(p, {"close.unregister", "clean.unregister"}))
      BY <2>3 DEF IInv, PlacesInv, StopInv
    <3> QED
      BY <2>2, <3>1
      DEF InHand, Phases, Serving, NewPhases, ClosePhases, CleanPhases
  <2> QED BY <2>2, <2>3 DEF Created
<1> QED BY <1>1, Invariant, PTL

\* A connection that is served is the one its ID finds, unless that ID was
\* admitted twice (handleControlConn, removeClient).
THEOREM ServedIsFound == Spec => []ServedIsFindable
<1>1. IInv => ServedIsFindable
  BY DEF IInv, FoundInv
<1> QED BY <1>1, Invariant, PTL

\* Types, and: between two messages every proxy of a connection is in the
\* server's map, unless the connection's ID was admitted twice.
THEOREM Tables == Spec => []TablesAgree
<1>1. IInv => TablesAgree
  BY DEF IInv, HandsInv, FoundInv, RegisteredInv, TablesAgree, ProxiesAreRegistered, Serving
<1> QED BY <1>1, Invariant, PTL

\* Every open listener can still be stopped by its owner: it is in cc.proxies,
\* or the handler or cleanup under way has it in hand.
THEOREM ListenersOwned == Spec => []ListenersAreOwned
<1>1. IInv => ListenersAreOwned
  <2> SUFFICES ASSUME IInv, NEW p \in listening
               PROVE  LET k == info[p].owner IN
                      phase[k] # "gone" /\ p \in Held(k) \cup left[k] \cup {job[k]}
    BY DEF ListenersAreOwned
  <2> DEFINE k == info[p].owner
  <2>1. p \in Proxies /\ Created(p) /\ k \in Conns /\ info[p].name \in Names /\ p # None
    BY NoneAssumption DEF IInv, HandsInv, PlacesInv, ListenInv, TypeOK, Created, ProxyInfo
  <2>2. Has(p) \/ InHand(p, {"new.insert", "new.register", "close.route",
                             "close.stop", "clean.route", "clean.stop"})
    BY DEF IInv, PlacesInv, ListenInv
  <2>3. CASE Has(p)
    <3>1. p \in Held(k) \cup left[k]
      BY <2>1, <2>3 DEF Has, Held
    <3>2. phase[k] # "gone"
      BY <2>1, <2>3
      DEF Has, IInv, HandsInv, TableInv, LeftInv, Serving, NewPhases, ClosePhases, CleanPhases
    <3> QED BY <3>1, <3>2
  <2>4. CASE InHand(p, {"new.insert", "new.register", "close.route",
                        "close.stop", "clean.route", "clean.stop"})
    BY <2>4 DEF InHand
  <2> QED BY <2>2, <2>3, <2>4
<1> QED BY <1>1, Invariant, PTL

\* A work connection is refused only if its proxy is gone from cc.proxies, its
\* client from s.clients, or another client uses the name (handleWorkConnStream).
THEOREM RefusedIsGone == Spec => RefusedOnlyIfGone
<1>1. ASSUME IInv, Next, NEW p \in Proxies, work[p] # "rejected", work'[p] = "rejected"
      PROVE  ~Registered(p) \/ SharesName(p)
  <2>1. ScanClients(p) \/ DeliverWorkConn(p)
    <3>1. work' = work \/ \E q \in Proxies :
                            StartSession(q) \/ ScanClients(q) \/ DeliverWorkConn(q)
      BY <1>1 DEF Next, Handler, Shutdown, CheckLogin, Admit, LoginFails, RegisterRoute,
                  StartProxy, StartFails, InsertProxy, RegisterProxy, Unroute, StopProxy,
                  UnregisterProxy, ReadFails, SwapProxies, NextProxy, RemoveClient, Disconnect,
                  HeartbeatExpires, CloseProxy, NewProxy, DisconnectClient,
                  ShutdownCopiesClients, ShutdownCloses, ShutdownCopiesProxies, ShutdownStops,
                  ShutdownReturns, workVars
    <3>2. ASSUME NEW q \in Proxies, StartSession(q) PROVE FALSE
      BY <1>1, <3>2 DEF StartSession, IInv, HandsInv, TypeOK
    <3>3. ASSUME NEW q \in Proxies, ScanClients(q) \/ DeliverWorkConn(q), q # p PROVE FALSE
      BY <1>1, <3>3 DEF ScanClients, DeliverWorkConn, IInv, HandsInv, TypeOK
    <3> QED BY <1>1, <3>1, <3>2, <3>3
  <2>2. work[p] # "none" => Created(p) /\ info[p].owner \in Conns
    BY <1>1, InfoAssumption DEF IInv, HandsInv, TypeOK, WorkInv, AskInv, Created, ProxyInfo
  <2>3. CASE ScanClients(p)
    <3>1. Owners(info[p].name) = {} /\ work[p] = "asked"
      BY <1>1, <2>3 DEF ScanClients, IInv, HandsInv, TypeOK
    <3>2. ASSUME Registered(p) PROVE info[p].owner \in Owners(info[p].name)
      BY <2>2, <3>1, <3>2, NoneAssumption DEF Registered, Owners
    <3> QED BY <3>1, <3>2
  <2>4. CASE DeliverWorkConn(p)
    <3>1. work[p] = "scanned" /\ table[scan[p]][info[p].name] # p
      BY <1>1, <2>4 DEF DeliverWorkConn, IInv, HandsInv, TypeOK
    <3>2. Settled(p)
      BY <1>1, <3>1 DEF IInv, WorkInv, ScanInv
    <3>3. CASE scan[p] = info[p].owner
      BY <3>1, <3>3 DEF Registered
    <3>4. CASE scan[p] # info[p].owner
      BY <3>2, <3>4 DEF Settled, SharesName, Created
    <3> QED BY <3>3, <3>4
  <2> QED BY <2>1, <2>3, <2>4
<1>2. IInv /\ [Next]_vars =>
        [\A p \in Proxies : work[p] # "rejected" /\ work'[p] = "rejected" =>
                              ~Registered(p) \/ SharesName(p)]_vars
  BY <1>1
<1> QED BY <1>2, Invariant, PTL DEF Spec, RefusedOnlyIfGone
===============================================================================
