---------------------------- MODULE DesktopNetwork ----------------------------
(***************************************************************************)
(* The virtual network of the desktop program: what App.ApplyVirtualNetwork*)
(* and ResetVirtualNetwork (desktop/app.go), virtualnet.Manager and the    *)
(* macOS helper do to the adapters and the routing table of the machine.   *)
(*                                                                         *)
(* A call registers with the control plane, fetches its routes, makes sure *)
(* of the TUN device under a.runMu and runs one command per route under    *)
(* the manager's mutex; no lock spans the call.  On macOS the commands run *)
(* in a helper process, whose client gives up after a timeout while the    *)
(* helper goes on.  A command that fails ends its loop where it is.        *)
(***************************************************************************)
EXTENDS Naturals, Sequences, SequencesExt

CONSTANTS
  Platforms,  \* of "windows", "linux", "darwin"
  Callers,    \* the user interface and the local control API
  Ifaces,     \* names of interfaces
  Dests,      \* destinations of routes
  None        \* no device, no caller

\* What the constants must satisfy; the MC module assumes it.
PlatformAssumption == Platforms \subseteq {"windows", "linux", "darwin"}
NoneAssumption == None \notin Callers \cup Ifaces

VARIABLES
  os,         \* the platform, fixed
  allocated,  \* the control plane has an address for this node
  adapters,   \* the interfaces of the machine
  table,      \* its routes, <<interface, destination>>
  dev,        \* a.virtualNetworkTUN
  state,      \* Manager.state
  mu,         \* the caller that holds Manager.mu
  call,       \* call[c]: next step, configuration and command of caller c
  job,        \* commands of the helper that nobody waits for
  disturbed   \* history: a command failed or was given up, two calls
              \* overlapped, or routes were applied over others

system == <<adapters, table, dev>>
vars == <<os, allocated, system, state, mu, call, job, disturbed>>

Config == [ifc : Ifaces, routes : {s \in SeqOf(Dests, 2) : IsInjective(s)}]
Routes(s) == {<<s.ifc, s.routes[i]>> : i \in DOMAIN s.routes}
NoState == [applied |-> FALSE, ifc |-> None, routes |-> <<>>]
StateFrom(cfg, applied) == [applied |-> applied, ifc |-> cfg.ifc, routes |-> cfg.routes]
Idle == [pc |-> "idle", cfg |-> NoState, k |-> 1]

Init ==
  /\ os \in Platforms
  /\ allocated = FALSE
  /\ adapters = IF os = "linux" THEN Ifaces ELSE {}
  /\ table = {} /\ dev = None
  /\ state = NoState /\ mu = None
  /\ call = [c \in Callers |-> Idle]
  /\ job = <<>>
  /\ disturbed = FALSE

At(c, here) == call[c].pc = here
Goto(c, next) == call' = [call EXCEPT ![c].pc = next]
Return(c) == call' = [call EXCEPT ![c] = Idle]
Overlaps(c) == \E d \in Callers \ {c} : call[d] # Idle
\* Close of a TUN handle: the adapter and its routes go with it.
Closed(t) == [adapters |-> adapters \ {t}, table |-> {r \in table : r[1] # t}]

-------------------------------------------------------------------------------
(* fetchVirtualNetworkConfigWithRegistration: registers, fetches, and when  *)
(* the control plane has no address for the node does both once more.       *)
Register(c) ==
  /\ At(c, "idle")
  /\ allocated' = TRUE /\ Goto(c, "fetch")
  /\ disturbed' = (disturbed \/ Overlaps(c))
  /\ UNCHANGED <<os, system, state, mu, job>>

Fetch(c) ==
  /\ At(c, "fetch") \/ At(c, "fetch again")
  /\ IF allocated
     THEN \E cfg \in Config : call' = [call EXCEPT ![c].pc = "device", ![c].cfg = cfg]
     ELSE IF At(c, "fetch") THEN Goto(c, "again") ELSE Return(c)
  /\ UNCHANGED <<os, allocated, system, state, mu, job, disturbed>>

RegisterAgain(c) ==
  /\ At(c, "again")
  /\ \/ allocated' = TRUE /\ Goto(c, "fetch again")
     \/ UNCHANGED allocated /\ Return(c)
  /\ UNCHANGED <<os, system, state, mu, job, disturbed>>

\* The control plane removes the node, or is an old one that lost the address.
LoseAllocation ==
  /\ allocated /\ allocated' = FALSE
  /\ UNCHANGED <<os, system, state, mu, call, job, disturbed>>

-------------------------------------------------------------------------------
(* ensureVirtualNetworkDevice, in one hold of a.runMu.                      *)
DeviceOnLinux(c) ==
  /\ At(c, "device") /\ os = "linux"
  /\ Goto(c, "apply")
  /\ UNCHANGED <<os, allocated, system, state, mu, job, disturbed>>

DeviceOnWindows(c) ==
  LET want == call[c].cfg.ifc
      rest == IF dev \in {None, want} THEN [adapters |-> adapters, table |-> table]
              ELSE Closed(dev)
  IN
  /\ At(c, "device") /\ os = "windows"
  /\ table' = rest.table
  /\ \/ /\ want \in rest.adapters
        /\ dev' = IF dev = want THEN dev ELSE None
        /\ adapters' = rest.adapters /\ Goto(c, "apply")
     \/ /\ want \notin rest.adapters
        /\ \/ dev' = want /\ adapters' = rest.adapters \cup {want} /\ Goto(c, "apply")
           \/ dev' = None /\ adapters' = rest.adapters /\ Return(c)
  /\ disturbed' = (disturbed \/ table' # table)
  /\ UNCHANGED <<os, allocated, state, mu, job>>

\* The helper passes the descriptor of a utun whose name the system chooses.
DeviceOnMacOS(c) ==
  /\ At(c, "device") /\ os = "darwin"
  /\ \/ /\ dev # None
        /\ call' = [call EXCEPT ![c].pc = "apply", ![c].cfg.ifc = dev]
        /\ UNCHANGED <<dev, adapters>>
     \/ /\ dev = None
        /\ \/ \E t \in Ifaces \ adapters :
                /\ dev' = t /\ adapters' = adapters \cup {t}
                /\ call' = [call EXCEPT ![c].pc = "apply", ![c].cfg.ifc = t]
           \/ Return(c) /\ UNCHANGED <<dev, adapters>>
  /\ UNCHANGED <<os, allocated, table, state, mu, job, disturbed>>

-------------------------------------------------------------------------------
(* Manager.Apply: preflight, a command per route, then the new state.       *)
ApplyLock(c) ==
  /\ At(c, "apply") /\ mu = None
  /\ mu' = c
  /\ call' = [call EXCEPT ![c].pc = "add", ![c].k = 1]
  /\ UNCHANGED <<os, allocated, system, state, job, disturbed>>

\* netsh refuses a route that is there, "ip route replace" does not, and
\* none of them works on an interface that is gone.
CanAdd(r) == r[1] \in adapters /\ (os = "windows" => r \notin table)
Route(c) == <<call[c].cfg.ifc, call[c].cfg.routes[call[c].k]>>
More(c) == call[c].k <= Len(call[c].cfg.routes)

AddRoute(c) ==
  /\ At(c, "add") /\ More(c) /\ CanAdd(Route(c))
  /\ table' = table \cup {Route(c)}
  /\ call' = [call EXCEPT ![c].k = @ + 1]
  /\ UNCHANGED <<os, allocated, adapters, dev, state, mu, job, disturbed>>

\* A command fails, or the helper's client gives up and the helper does not.
ApplyFails(c) ==
  /\ At(c, "add") /\ mu' = None /\ Return(c)
  /\ state' = StateFrom(call[c].cfg, FALSE)
  /\ disturbed' = TRUE
  /\ job' = IF os # "darwin" THEN job
            ELSE [i \in 1..(Len(call[c].cfg.routes) + 1 - call[c].k) |->
                   <<call[c].cfg.ifc, call[c].cfg.routes[i + call[c].k - 1]>>]
  /\ UNCHANGED <<os, allocated, system>>

HelperGoesOn ==
  /\ job # <<>> /\ job' = Tail(job)
  /\ table' = IF Head(job)[1] \in adapters THEN table \cup {Head(job)} ELSE table
  /\ UNCHANGED <<os, allocated, adapters, dev, state, mu, call, disturbed>>

ApplyDone(c) ==
  /\ At(c, "add") /\ ~More(c) /\ call[c].cfg.ifc \in adapters
  /\ mu' = None /\ Return(c)
  /\ state' = StateFrom(call[c].cfg, TRUE)
  /\ disturbed' = (disturbed \/ ~(Routes(state) \cap table \subseteq Routes(call[c].cfg)))
  /\ UNCHANGED <<os, allocated, system, job>>

-------------------------------------------------------------------------------
\* Mutant: the first route is not deleted.
ResetLockSkipsFirst(c) ==
  /\ At(c, "idle") /\ mu = None
  /\ disturbed' = (disturbed \/ Overlaps(c))
  /\ IF state.applied
     THEN /\ mu' = c
          /\ call' = [call EXCEPT ![c] = [pc |-> "delete", cfg |-> state, k |-> 2]]
     ELSE Goto(c, "close") /\ UNCHANGED mu
  /\ UNCHANGED <<os, allocated, system, state, job>>

(* ResetVirtualNetwork: Manager.Reset, which does nothing unless something  *)
(* is applied, and then, in another step, the device is closed.             *)
ResetLock(c) ==
  /\ At(c, "idle") /\ mu = None
  /\ disturbed' = (disturbed \/ Overlaps(c))
  /\ IF state.applied
     THEN /\ mu' = c
          /\ call' = [call EXCEPT ![c] = [pc |-> "delete", cfg |-> state, k |-> 1]]
     ELSE Goto(c, "close") /\ UNCHANGED mu
  /\ UNCHANGED <<os, allocated, system, state, job>>

DeleteRoute(c) ==
  /\ At(c, "delete") /\ More(c) /\ Route(c) \in table
  /\ table' = table \ {Route(c)}
  /\ call' = [call EXCEPT ![c].k = @ + 1]
  /\ UNCHANGED <<os, allocated, adapters, dev, state, mu, job, disturbed>>

ResetFails(c) ==
  /\ At(c, "delete") /\ More(c)
  /\ mu' = None /\ Return(c)
  /\ disturbed' = TRUE
  /\ UNCHANGED <<os, allocated, system, state, job>>

ResetDone(c) ==
  /\ At(c, "delete") /\ ~More(c)
  /\ mu' = None /\ state' = [state EXCEPT !.applied = FALSE]
  /\ Goto(c, "close")
  /\ UNCHANGED <<os, allocated, system, job, disturbed>>

CloseDevice(c) ==
  /\ At(c, "close") /\ Return(c)
  /\ adapters' = Closed(dev).adapters /\ table' = Closed(dev).table
  /\ dev' = None
  /\ UNCHANGED <<os, allocated, state, mu, job, disturbed>>

(* The program ends: its handle is closed, its state forgotten.             *)
Exit ==
  /\ adapters' = Closed(dev).adapters /\ table' = Closed(dev).table
  /\ dev' = None /\ state' = NoState /\ mu' = None
  /\ call' = [c \in Callers |-> Idle]
  /\ disturbed' = (disturbed \/ table' # {})
  /\ UNCHANGED <<os, allocated, job>>

Next ==
  \/ \E c \in Callers :
       \/ Register(c) \/ Fetch(c) \/ RegisterAgain(c)
       \/ DeviceOnLinux(c) \/ DeviceOnWindows(c) \/ DeviceOnMacOS(c)
       \/ ApplyLock(c) \/ AddRoute(c) \/ ApplyFails(c) \/ ApplyDone(c)
       \/ ResetLock(c) \/ DeleteRoute(c) \/ ResetFails(c) \/ ResetDone(c)
       \/ CloseDevice(c)
  \/ HelperGoesOn \/ LoseAllocation \/ Exit

Spec == Init /\ [][Next]_vars

-------------------------------------------------------------------------------
TypeOK ==
  /\ os \in Platforms /\ allocated \in BOOLEAN /\ disturbed \in BOOLEAN
  /\ adapters \subseteq Ifaces /\ table \subseteq Ifaces \X Dests
  /\ dev \in Ifaces \cup {None} /\ mu \in Callers \cup {None}
  /\ state = NoState \/ (state.applied \in BOOLEAN
                         /\ [ifc |-> state.ifc, routes |-> state.routes] \in Config)
  /\ Len(job) <= 2

(* The state the program shows is the state of the machine: between calls   *)
(* that were not disturbed, the routes in the table are those of the        *)
(* configuration that is applied, all of them and no others, so that a      *)
(* reset restores the table (manager.go:55-156, app.go:1036-1097).          *)
TableIsAsShown ==
  ~disturbed /\ (\A c \in Callers : call[c] = Idle) =>
    table = IF state.applied THEN Routes(state) ELSE {}
===============================================================================
