----------------------------- MODULE MCDesktopApp -----------------------------
(***************************************************************************)
(* The parts of the desktop application that share no state, for TLC:      *)
(* tunnels, the fields of a tunnel that the relay fills, server settings,  *)
(* the virtual network, favourite ports with the activity log, the control *)
(* API and the OIDC login.  A behaviour is one of one part, chosen at the  *)
(* start; interleaving them would multiply the states and add no behaviour *)
(* of any part.                                                            *)
(***************************************************************************)
EXTENDS Naturals, Sequences, TLC

CONSTANTS Ids, Names, Specs, Callers, None, MaxLeft, Faults,
          Nodes, Default, Tokens, Blank,
          Platforms, Ifaces, Dests,
          Apps, Cut,
          RelayPorts, MaxStarts, QueueCap

VARIABLES
  part,
  rows, born, mgr, left, leftUp, runMu, call, disturbed,
  disk, form, unsaved, reader, export, entered, imported,
  os, allocated, adapters, table, dev, state, mu, netCall, job, netDisturbed,
  ports, seeded, logs, recordCall, choice, early, unlogged,
  api, port, file, apiCall, served, overlapped,
  login, handler, codeCh, stateCh, errCh, taken, outcome, request, issued, token, crossed,
  saved, def, linked, registering, toRelay, toClient, bound, others, poll, starts, wish,
  mixed, refused, declined

tunnelVars == <<rows, born, mgr, left, leftUp, runMu, call, disturbed>>
settingVars == <<disk, form, unsaved, reader, export, entered, imported>>
networkVars == <<os, allocated, adapters, table, dev, state, mu, netCall, job, netDisturbed>>
recordVars == <<ports, seeded, logs, recordCall, choice, early, unlogged>>
controlVars == <<api, port, file, apiCall, served, overlapped>>
loginVars == <<login, handler, codeCh, stateCh, errCh, taken, outcome, request, issued,
               token, crossed>>
fieldVars == <<saved, def, linked, registering, toRelay, toClient, bound, others, poll,
               starts, wish, mixed, refused, declined>>

Tunnels == INSTANCE DesktopTunnels
Settings == INSTANCE ServerSettings WITH Ids <- Nodes
Network == INSTANCE DesktopNetwork WITH call <- netCall, disturbed <- netDisturbed
Records == INSTANCE DesktopRecords
  WITH Ports <- Nodes, Defaults <- {Default}, rows <- ports, call <- recordCall
Control == INSTANCE DesktopControl WITH Ports <- Names, state <- api, call <- apiCall
Login == INSTANCE OidcLogin
  WITH Handlers <- Ids, Requests <- Callers, overlapped <- crossed
Fields == INSTANCE RuntimeFields
  WITH Ports <- RelayPorts, Cap <- QueueCap, stored <- saved

\* What the parts take for granted of their constants.
ASSUME ConstantsFit ==
  /\ Tunnels!NoneAssumption /\ Tunnels!BoundAssumption /\ Tunnels!FaultsAssumption
  /\ Settings!DefaultAssumption /\ Settings!BlankAssumption
  /\ Network!PlatformAssumption /\ Network!NoneAssumption
  /\ Records!DefaultsAssumption /\ Login!FiniteAssumption
  /\ Fields!PortsAssumption /\ Fields!BoundAssumption

Init ==
  /\ part \in {"tunnels", "settings", "network", "records", "control", "login", "fields"}
  /\ Tunnels!Init /\ Settings!Init /\ Network!Init /\ Records!Init
  /\ Control!Init /\ Login!Init /\ Fields!Init
  /\ part # "network" => os = "linux"

Next ==
  /\ UNCHANGED part
  /\ IF part = "tunnels" THEN Tunnels!Next ELSE UNCHANGED tunnelVars
  /\ IF part = "settings" THEN Settings!Next ELSE UNCHANGED settingVars
  /\ IF part = "network" THEN Network!Next ELSE UNCHANGED networkVars
  /\ IF part = "records" THEN Records!Next ELSE UNCHANGED recordVars
  /\ IF part = "control" THEN Control!Next ELSE UNCHANGED controlVars
  /\ IF part = "login" THEN Login!Next ELSE UNCHANGED loginVars
  /\ IF part = "fields" THEN Fields!Next ELSE UNCHANGED fieldVars

vars == <<part, tunnelVars, settingVars, networkVars, recordVars, controlVars, loginVars,
          fieldVars>>
Spec == Init /\ [][Next]_vars

Symmetry == Permutations(Ids) \cup Permutations(Names) \cup Permutations(Specs)
            \cup Permutations(Callers)

-------------------------------------------------------------------------------
\* The manager serves what the table marks as running (app.go: StartTunnel,
\* StopTunnel, DeleteTunnel, UpdateTunnel, ConnectServer); the port of a tunnel is
\* the one the user chose or the relay gave (app.go: GetTunnels).
ServedAsStored ==
  /\ part = "tunnels" => Tunnels!TypeOK /\ Tunnels!ServedAsStored
  /\ part = "fields" => Fields!TypeOK /\ Fields!EditsAreKept /\ Fields!ActiveAsShown

\* A deleted row is not brought back by a call that read it (config/store.go).
DeletedStaysDeleted == Tunnels!DeletedStaysDeleted

\* What is saved from an old copy is still settled, and no node has another's
\* token (app.go: normalizeServerSettings; control_server.go); requests that do
\* not overlap leave the newest token of a login, and a lone callback ends it
\* (oidc/client.go).
SettingsAreSound ==
  /\ part = "settings" =>
       Settings!TypeOK /\ Settings!Settled /\ Settings!TokensStayWithTheirNode
  /\ part = "login" =>
       Login!TypeOK /\ Login!LoneCallbackReturns /\ Login!NewestUnlessOverlapping

\* The routes the program shows are those of the machine (virtualnet/manager.go).
TableIsAsShown == part = "network" => Network!TypeOK /\ Network!TableIsAsShown

\* Favourites stay as the user left them, and the log tells of every change
\* (app.go: ensureDefaultFavoritePorts, appendActivityLog).
RecordsAreKept ==
  part = "records" =>
    Records!TypeOK /\ Records!ChoicesKept /\ Records!ChangesAreLogged

\* A command reaches the program whose file it read and no other, a program that
\* serves is found, and nothing is served after it (control_server.go).
ControlIsFound ==
  part = "control" =>
    /\ Control!TypeOK /\ Control!ServedByItsReader /\ Control!ServerIsFound
    /\ Control!NothingServedLate
===============================================================================
