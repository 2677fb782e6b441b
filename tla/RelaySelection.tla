---------------------------- MODULE RelaySelection ----------------------------
(***************************************************************************)
(* The manager of relays (desktop/internal/relay/manager.go, client.go):   *)
(* one goroutine per relay connects, the probe loop chooses the connected  *)
(* relay of lowest latency, SwitchTo chooses another.  Nothing is locked:  *)
(* connected, latency and active are atomics written one after the other,  *)
(* and an evaluation looks at the relays one by one.                       *)
(***************************************************************************)
EXTENDS Naturals, FiniteSets

CONSTANTS
  Relays,     \* addresses of the configuration
  Slowest,    \* bound of a latency
  None

\* What the constants must satisfy; the MC module assumes it.
SlowestAssumption == Slowest \in Nat \ {0}
NoneAssumption == None \notin Relays

VARIABLES
  dial,       \* dial[r]: what the goroutine of Connect does
  connected, latency,   \* of the client of r
  alive,      \* relays whose connection lives
  active,     \* m.active
  cancelled,  \* m.ctx is done
  loop,       \* what probeLoop does
  looked, candidates,   \* relays SelectBest has looked at and kept
  since,      \* history: what changed since the last evaluation began
  ever        \* history: relays that have been connected

clients == <<dial, connected, latency, alive, ever>>
evaluation == <<loop, looked, candidates>>
vars == <<clients, active, cancelled, evaluation, since>>

TypeOK ==
  /\ dial \in [Relays -> {"idle", "dialing", "publishing", "ended"}]
  /\ connected \in [Relays -> BOOLEAN]
  /\ latency \in [Relays -> 0..Slowest]
  /\ alive \subseteq Relays /\ ever \subseteq Relays
  /\ active \in Relays \cup {None}
  /\ cancelled \in BOOLEAN
  /\ loop \in {"off", "waiting", "first", "evaluating", "returned"}
  /\ candidates \subseteq looked /\ looked \subseteq Relays
  /\ since \in BOOLEAN

Init ==
  /\ dial = [r \in Relays |-> "idle"]
  /\ connected = [r \in Relays |-> FALSE] /\ latency = [r \in Relays |-> 0]
  /\ alive = {} /\ ever = {} /\ active = None /\ cancelled = FALSE
  /\ loop = "off" /\ looked = {} /\ candidates = {} /\ since = TRUE

Start ==
  /\ loop = "off" /\ ~cancelled
  /\ dial' = [r \in Relays |-> "dialing"]
  /\ loop' = "first"
  /\ UNCHANGED <<connected, latency, alive, ever, active, cancelled, looked, candidates, since>>

\* Connect: the answer to the login is read without a deadline and without a
\* look at the context; connected is stored before the latency is.
Connects(r) ==
  /\ dial[r] = "dialing"
  /\ connected' = [connected EXCEPT ![r] = TRUE]
  /\ dial' = [dial EXCEPT ![r] = "publishing"]
  /\ alive' = alive \cup {r} /\ ever' = ever \cup {r} /\ since' = TRUE
  /\ UNCHANGED <<latency, active, cancelled, evaluation>>

StoresLatency(r) ==
  /\ dial[r] = "publishing"
  /\ dial' = [dial EXCEPT ![r] = "ended"]
  /\ \E t \in 1..Slowest : latency' = [latency EXCEPT ![r] = t]
  /\ since' = TRUE
  /\ UNCHANGED <<connected, alive, ever, active, cancelled, evaluation>>

ConnectFails(r) ==
  /\ dial[r] = "dialing"
  /\ dial' = [dial EXCEPT ![r] = "ended"]
  /\ UNCHANGED <<connected, latency, alive, ever, active, cancelled, evaluation, since>>

\* Nobody reads from the connection: its end changes nothing here.
ConnectionDies(r) ==
  /\ alive' = alive \ {r} /\ r \in alive
  /\ UNCHANGED <<dial, connected, latency, ever, active, cancelled, evaluation, since>>

\* Stop cancels and closes the clients one by one; active is left alone.
Stop ==
  /\ loop # "off" /\ ~cancelled
  /\ cancelled' = TRUE
  /\ connected' = [r \in Relays |-> FALSE]
  /\ alive' = {r \in alive : dial[r] = "dialing"}
  /\ since' = TRUE
  /\ UNCHANGED <<dial, latency, ever, active, evaluation>>

SwitchTo(r) ==
  /\ connected[r]
  /\ active' = r /\ since' = TRUE
  /\ UNCHANGED <<clients, cancelled, evaluation>>

-------------------------------------------------------------------------------
\* The first selection does not look at the context, the later ones come with
\* the ticker, which may win over a context that is done.
Evaluate ==
  /\ loop \in {"first", "waiting"}
  /\ loop' = "evaluating" /\ looked' = {} /\ candidates' = {} /\ since' = FALSE
  /\ UNCHANGED <<clients, active, cancelled>>

Look(r) ==
  /\ loop = "evaluating" /\ r \notin looked
  /\ looked' = looked \cup {r}
  /\ candidates' = candidates \cup {q \in {r} : connected[q]}
  /\ UNCHANGED <<clients, active, cancelled, loop, since>>

Best(rs) == {r \in rs : \A q \in rs : latency[r] <= latency[q]}

\* The latencies are read when the candidates are sorted; a best relay with the
\* address of the active one changes nothing.
Choose ==
  /\ loop = "evaluating" /\ looked = Relays
  /\ loop' = "waiting" /\ looked' = {} /\ candidates' = {}
  /\ IF candidates = {} THEN UNCHANGED active ELSE active' \in Best(candidates)
  /\ UNCHANGED <<clients, cancelled, since>>

LoopReturns ==
  /\ loop = "waiting" /\ cancelled
  /\ loop' = "returned"
  /\ UNCHANGED <<clients, active, cancelled, looked, candidates, since>>

Next ==
  \/ Start \/ Stop \/ Evaluate \/ Choose \/ LoopReturns
  \/ \E r \in Relays :
       \/ Connects(r) \/ StoresLatency(r) \/ ConnectFails(r) \/ ConnectionDies(r)
       \/ SwitchTo(r) \/ Look(r)

Spec == Init /\ [][Next]_vars

-------------------------------------------------------------------------------
\* An evaluation during which nothing changed leaves a connected relay of the
\* lowest latency active, if any is connected, until something changes
\* (manager.go: SelectBest, evaluateRelays).
SettlesOnBest ==
  ~since /\ loop \in {"waiting", "returned"} =>
    LET up == {r \in Relays : connected[r]} IN up # {} => active \in Best(up)

\* Only a relay that has been connected is active, and a connected one has its
\* latency unless its goroutine is about to store it.
ActiveWasConnected ==
  /\ active # None => active \in ever
  /\ \A r \in Relays : connected[r] /\ latency[r] = 0 => dial[r] = "publishing"

\* Violated: a stopped manager has no connection.  Stop closes what is connected
\* and does not wait for a Connect that is reading its answer.
StopDisconnects == cancelled /\ loop = "returned" => alive = {}

\* Violated: the active relay is alive.
ActiveIsAlive == active # None /\ ~cancelled => active \in alive
===============================================================================
