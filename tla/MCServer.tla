------------------------------- MODULE MCServer -------------------------------
(***************************************************************************)
(* The services of the server that share no state, for TLC: policies of    *)
(* endpoints, access rules, the dashboard's accounts, its alerts and what  *)
(* it changes and logs, edge nodes and the choice among them, the fast     *)
(* path of forwarding rules, traffic shaping; and the tools: the command   *)
(* line that starts the server and keeps contexts for it, the helper of    *)
(* macOS and the installer of Windows.  A behaviour is one of one part, as *)
(* in MCDesktopApp.                                                        *)
(***************************************************************************)
EXTENDS Naturals, Sequences, TLC

CONSTANTS Members, Names, Callers, None, Every,
          MaxConcurrent, RateLimit, Retention, MaxStates,
          Levels, Priorities, MaxVersion,
          Admin, SeedId,
          MaxEvents,
          Checker, MaxObjects, Unhealthy, UpAfter,
          Ports, MaxRules, MaxKernel,
          Flows, Rates, Classes, QueueSize,
          Pids, Other, Cut,
          Prefixes

VARIABLES
  part,
  policy, states, concurrent, window, request, logs, admitted,
  rows, rules, late, keys, audited, torn, call, split,
  up, users, seeded, accounts, tokens, session, trail, done,
  alertRules, events, nextId, fired, close,
  registered, made, health, heartbeat, checking, probing, edgeCall, edgeOverlapped,
  sorted, kernel, known, mode, lock, stats, xdpCall, damaged, xdpOverlapped,
  flowRules, bucket, queue, counters, flowCall, asked, flowOverlapped,
  stored, serving, logger, tornLine, last, relayPolicies, items, change, overdue, unsure,
  told, clash,
  runs, pidFile, command, lost,
  config, edit, spoilt,
  nodes, mapping, resolving, answer, moved,
  helper, plist, dir, socket, loaded, proc, helperCall, reported,
  target, saved, staging, registry, removal, pc, result, base, owned, disturbed

policyVars == <<policy, states, concurrent, window, request, logs, admitted>>
accessVars == <<rows, rules, late, keys, audited, torn, call, split>>
dashboardVars == <<up, users, seeded, accounts, tokens, session, trail, done>>
alertVars == <<alertRules, events, nextId, fired, close>>
edgeVars == <<registered, made, health, heartbeat, checking, probing, edgeCall,
              edgeOverlapped>>
xdpVars == <<sorted, kernel, known, mode, lock, stats, xdpCall, damaged, xdpOverlapped>>
flowVars == <<flowRules, bucket, queue, counters, flowCall, asked, flowOverlapped>>
dataVars == <<stored, serving, logger, tornLine, last, relayPolicies, items, change,
              overdue, unsure, told, clash>>
processVars == <<runs, pidFile, command, lost>>
contextVars == <<config, edit, spoilt>>
anycastVars == <<nodes, mapping, resolving, answer, moved>>
helperVars == <<helper, plist, dir, socket, loaded, proc, helperCall, reported>>
installerVars == <<target, saved, staging, registry, removal, pc, result, base, owned,
                   disturbed>>
vars == <<part, policyVars, accessVars, dashboardVars, alertVars, edgeVars, xdpVars, flowVars,
          dataVars, processVars, contextVars, anycastVars, helperVars, installerVars>>

\* The places of two of the regions.
Places == [east |-> 1, west |-> 3]
\* The servers in the order in which they are started.
Stack == <<"relay-server", "dashboard">>

Endpoints == INSTANCE EndpointPolicies WITH Requests <- Callers, Ips <- Names
Access == INSTANCE AccessRules WITH Ids <- Flows, Accesses <- Ports, Any <- Every,
  Priorities <- Levels
Accounts == INSTANCE Dashboard
  WITH Requests <- Callers, Absent <- None, rows <- accounts, request <- session,
       audited <- trail
Alarms == INSTANCE Alerts WITH Rules <- Members, Nodes <- Names, rules <- alertRules
Edge == INSTANCE EdgeNodes
  WITH Ids <- Flows, Healthy <- UpAfter, call <- edgeCall, overlapped <- edgeOverlapped
Xdp == INSTANCE XdpRules
  WITH Callers <- Flows, Ports <- Names, Any <- Every, call <- xdpCall,
       overlapped <- xdpOverlapped
Shaping == INSTANCE TrafficShaping
  WITH RuleIds <- Flows, rules <- flowRules, call <- flowCall,
       overlapped <- flowOverlapped
Data == INSTANCE DashboardData
  WITH Requests <- Callers, Policies <- Flows, Nodes <- Ports, Rules <- {SeedId},
       up <- serving, torn <- tornLine, policies <- relayPolicies, rows <- items,
       request <- change, late <- overdue
Processes == INSTANCE ServerProcesses
  WITH Names <- Stack, file <- pidFile, call <- command
Contexts == INSTANCE CliContexts
  WITH Contexts <- Members, Urls <- Names, file <- config, call <- edit, damaged <- spoilt
Anycast == INSTANCE AnycastRouting
  WITH Ids <- Members, Clients <- Ports, Coordinates <- Places, asked <- resolving
Helper == INSTANCE MacHelper WITH Versions <- Members, call <- helperCall, told <- reported
Setup == INSTANCE Installer WITH Procs <- Members, dir <- target, told <- result

\* What the parts take for granted of their constants.
ASSUME ConstantsFit ==
  /\ Endpoints!LimitAssumption
  /\ Access!AnyAssumption /\ Access!PriorityAssumption /\ Access!NoneAssumption
  /\ Accounts!AdminAssumption
  /\ Alarms!NoneAssumption
  /\ Edge!ThresholdAssumption
  /\ Xdp!RuleAssumption
  /\ Shaping!RateAssumption /\ Shaping!NoneAssumption
  /\ Data!NoneAssumption
  /\ Anycast!CoordinatesAssumption /\ Anycast!PrioritiesAssumption
  /\ Helper!NoneAssumption /\ Setup!NoneAssumption
  /\ Processes!NoneAssumption /\ Contexts!NoneAssumption

Init ==
  /\ part \in {"policies", "access", "dashboard", "alerts", "edge", "xdp", "shaping", "data",
              "processes", "contexts", "anycast", "helper", "installer"}
  /\ Endpoints!Init /\ Access!Init /\ Accounts!Init /\ Alarms!Init /\ Edge!Init
  /\ Xdp!Init /\ Shaping!Init /\ Data!Init /\ Processes!Init /\ Contexts!Init /\ Anycast!Init
  /\ Helper!Init /\ Setup!Init
  /\ part # "data" => stored /\ items = {}

Next ==
  /\ UNCHANGED part
  /\ IF part = "policies" THEN Endpoints!Next ELSE UNCHANGED policyVars
  /\ IF part = "access" THEN Access!Next ELSE UNCHANGED accessVars
  /\ IF part = "dashboard" THEN Accounts!Next ELSE UNCHANGED dashboardVars
  /\ IF part = "alerts" THEN Alarms!Next ELSE UNCHANGED alertVars
  /\ IF part = "edge" THEN Edge!Next ELSE UNCHANGED edgeVars
  /\ IF part = "xdp" THEN Xdp!Next ELSE UNCHANGED xdpVars
  /\ IF part = "shaping" THEN Shaping!Next ELSE UNCHANGED flowVars
  /\ IF part = "data" THEN Data!Next ELSE UNCHANGED dataVars
  /\ IF part = "processes" THEN Processes!Next ELSE UNCHANGED processVars
  /\ IF part = "contexts" THEN Contexts!Next ELSE UNCHANGED contextVars
  /\ IF part = "anycast" THEN Anycast!Next ELSE UNCHANGED anycastVars
  /\ IF part = "helper" THEN Helper!Next ELSE UNCHANGED helperVars
  /\ IF part = "installer" THEN Setup!Next ELSE UNCHANGED installerVars

Spec == Init /\ [][Next]_vars

\* The state constraint: the search stops where the properties claim nothing any
\* more, and where the file of contexts is spoilt, which ends every command that
\* reads it.
Interesting ==
  /\ split # Flows /\ ~damaged /\ ~xdpOverlapped /\ ~spoilt
  /\ lost # Processes!Parts

\* What tells two states apart: the variables of the other parts never change.
View ==
  <<part,
    CASE part = "policies" -> policyVars
      [] part = "access" -> accessVars
      [] part = "dashboard" -> dashboardVars
      [] part = "alerts" -> alertVars
      [] part = "edge" -> edgeVars
      [] part = "xdp" -> xdpVars
      [] part = "shaping" -> flowVars
      [] part = "data" -> dataVars
      [] part = "processes" -> processVars
      [] part = "contexts" -> contextVars
      [] part = "anycast" -> anycastVars
      [] part = "helper" -> helperVars
      [] part = "installer" -> installerVars>>

Symmetry == Permutations(Callers)

-------------------------------------------------------------------------------
\* No slot of a policy is lost or given twice (relay/gateway.go: evaluate).
LimitsHold == part = "policies" => Endpoints!TypeOK /\ Endpoints!LimitsHold

\* The rules in force are the stored ones (controlplane: handleAddACL,
\* handleDeleteACL, restoreRules).
RulesSurvive == part = "access" => Access!TypeOK /\ Access!RulesSurvive

\* A changed role takes effect at once, a rule fires once in its cooldown, the
\* log explains what the relay has and the answers are true (dashboard/auth.go:
\* ValidateToken; alerts.go: Evaluate; server.go; relay_admin_client.go).
DashboardIsSound ==
  /\ part = "dashboard" => Accounts!TypeOK /\ Accounts!RoleIsCurrent
  /\ part = "alerts" => Alarms!TypeOK /\ Alarms!CooldownHolds
  /\ part = "data" => Data!TypeOK /\ Data!TrailExplains /\ Data!ReportsAreTrue

\* Heartbeats and status follow the registered node and its probes
\* (edge/controlplane.go, health.go), and the ways to a node agree on the nearest
\* healthy one (anycast/router.go, geoip.go).
EdgeFollows ==
  /\ part = "edge" => Edge!TypeOK /\ Edge!HeartbeatsFollow /\ Edge!StatusFollowsProbes
  /\ part = "anycast" => Anycast!TypeOK /\ Anycast!WaysAgree /\ Anycast!AnswerIsNearest

\* The kernel's table agrees with the rules, and a flow's limit is the one that
\* was set (ebpf/kernel_rules.go; sdwan/qos.go).
TrafficIsAsSet ==
  /\ part = "xdp" => Xdp!TypeOK /\ Xdp!FastPathAgrees
  /\ part = "shaping" => Shaping!TypeOK /\ Shaping!LimitsAsSet

\* The command line finds every process that it started, and keeps its contexts
\* whole and their tokens with their dashboards (cli/internal/system/process.go;
\* configstore/store.go).
ToolsAreSound ==
  /\ part = "processes" =>
       Processes!TypeOK /\ Processes!ServersAreTracked /\ Processes!OneOfEach
  /\ part = "contexts" => Contexts!TypeOK /\ Contexts!ContextsFit /\ Contexts!FileReads

\* What was reported as installed is whole and the one that runs, what was
\* removed is gone, and what failed changed nothing
\* (pkg/macoshelperctl/manager.go; installer/installer.go).
InstalledIsWhole ==
  /\ part = "helper" =>
       /\ Helper!TypeOK /\ Helper!FilesAreWhole
       /\ Helper!InstalledRuns /\ Helper!UninstalledIsGone
  /\ part = "installer" =>
       /\ Setup!TypeOK /\ Setup!FailureRestores
       /\ Setup!InstalledIsThere /\ Setup!DirIsWhole
===============================================================================
