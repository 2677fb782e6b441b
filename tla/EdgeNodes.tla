------------------------------- MODULE EdgeNodes -------------------------------
(***************************************************************************)
(* The registry of edge nodes (server/internal/edge): the registry, the    *)
(* health checker that probes its nodes and takes away those that stay     *)
(* silent, and the client of the control plane that ConnectRegistry wires  *)
(* to it.  The callbacks run after the registry's lock is released, and    *)
(* the one of a registration calls the control plane for up to ten         *)
(* seconds.  A node that is registered again is a new object: objects are  *)
(* numbered.                                                               *)
(***************************************************************************)
EXTENDS Naturals, FiniteSets

CONSTANTS
  Ids,         \* edge nodes
  Callers,     \* goroutines that register and deregister nodes
  Checker,     \* the goroutine of the health checker
  MaxObjects,  \* bound: objects made for one ID
  Unhealthy,   \* config.UnhealthyThreshold
  Healthy      \* config.HealthyThreshold

\* What the constants must satisfy; the MC module assumes it.
ThresholdAssumption == {MaxObjects, Unhealthy, Healthy} \subseteq Nat \ {0}

Objects == 1 .. MaxObjects
Threads == Callers \cup {Checker}

VARIABLES
  registered,  \* Registry.nodes: the object of an ID, 0: none
  made,        \* objects made for the ID so far
  health,      \* health[id][n]: status and counters of an object
  heartbeat,   \* heartbeats: the object whose loop reports the ID, 0: none
  checking,    \* the health checker runs
  probing,     \* objects of the round of probes under way
  call,        \* call[c]: the callback c has yet to run, and for which object
  overlapped   \* history: IDs for which two calls overlapped

nodes == <<registered, made, heartbeat>>
vars == <<nodes, health, checking, probing, call, overlapped>>

Fresh == [status |-> "healthy", fails |-> 0, oks |-> 0, long |-> FALSE]
Idle(c) == call[c].pc = "idle"

Health == [status : {"healthy", "unhealthy", "offline"}, fails : 0 .. Unhealthy,
           oks : 0 .. Healthy, long : BOOLEAN]

TypeOK ==
  /\ registered \in [Ids -> 0 .. MaxObjects] /\ made \in [Ids -> 0 .. MaxObjects]
  /\ heartbeat \in [Ids -> 0 .. MaxObjects]
  /\ health \in [Ids -> [Objects -> Health]]
  /\ checking \in BOOLEAN
  /\ probing \subseteq Ids \X Objects
  /\ call \in [Threads -> [pc : {"idle", "announce", "start", "stop"},
                           id : Ids, object : 0 .. MaxObjects]]
  /\ overlapped \subseteq Ids

Init ==
  /\ registered = [i \in Ids |-> 0] /\ made = registered /\ heartbeat = registered
  /\ health = [i \in Ids |-> [n \in Objects |-> Fresh]]
  /\ checking = FALSE /\ probing = {}
  /\ call = [c \in Threads |-> [pc |-> "idle", id |-> CHOOSE i \in Ids : TRUE, object |-> 0]]
  /\ overlapped = {}

Goto(c, pc) ==
  call' = [call EXCEPT ![c] = [pc |-> pc, id |-> @.id, object |-> @.object]]
Begin(c, pc, id, n) ==
  /\ call' = [call EXCEPT ![c] = [pc |-> pc, id |-> id, object |-> n]]
  /\ overlapped' = IF \E d \in Threads \ {c} : ~Idle(d) /\ call[d].id = id
                   THEN overlapped \cup {id} ELSE overlapped

-------------------------------------------------------------------------------
Register(c, id) ==
  /\ Idle(c) /\ registered[id] = 0 /\ made[id] < MaxObjects
  /\ made' = [made EXCEPT ![id] = @ + 1]
  /\ registered' = [registered EXCEPT ![id] = made'[id]]
  /\ Begin(c, "announce", id, made'[id])
  /\ UNCHANGED <<heartbeat, health, checking, probing>>

\* onRegister: the control plane answers ...
Announced(c) ==
  /\ call[c].pc = "announce"
  /\ Goto(c, "start")
  /\ UNCHANGED <<nodes, health, checking, probing, overlapped>>

\* ... or it does not, and no heartbeats begin.
AnnounceFails(c) ==
  /\ call[c].pc = "announce"
  /\ Goto(c, "idle")
  /\ UNCHANGED <<nodes, health, checking, probing, overlapped>>

\* Mutant: a loop that runs already goes on.
StartHeartbeatLoopOnce(c) ==
  /\ call[c].pc = "start"
  /\ heartbeat' = [heartbeat EXCEPT ![call[c].id] = IF @ = 0 THEN call[c].object ELSE @]
  /\ Goto(c, "idle")
  /\ UNCHANGED <<registered, made, health, checking, probing, overlapped>>

\* A loop the ID has is cancelled.
StartHeartbeatLoop(c) ==
  /\ call[c].pc = "start"
  /\ heartbeat' = [heartbeat EXCEPT ![call[c].id] = call[c].object]
  /\ Goto(c, "idle")
  /\ UNCHANGED <<registered, made, health, checking, probing, overlapped>>

Remove(c, id) ==
  /\ registered' = [registered EXCEPT ![id] = 0]
  /\ Begin(c, "stop", id, registered[id])

Deregister(c, id) ==
  /\ Idle(c) /\ registered[id] # 0
  /\ Remove(c, id)
  /\ UNCHANGED <<made, heartbeat, health, checking, probing>>

\* Mutant: the callback does nothing.
StopHeartbeatLoopNever(c) ==
  /\ call[c].pc = "stop"
  /\ Goto(c, "idle")
  /\ UNCHANGED <<nodes, health, checking, probing, overlapped>>

\* onDeregister.
StopHeartbeatLoop(c) ==
  /\ call[c].pc = "stop"
  /\ heartbeat' = [heartbeat EXCEPT ![call[c].id] = 0]
  /\ Goto(c, "idle")
  /\ UNCHANGED <<registered, made, health, checking, probing, overlapped>>

StopAll ==
  /\ heartbeat # [i \in Ids |-> 0]
  /\ heartbeat' = [i \in Ids |-> 0]
  /\ UNCHANGED <<registered, made, health, checking, probing, call, overlapped>>

-------------------------------------------------------------------------------
(* The health checker.                                                     *)

StartChecks ==
  /\ ~checking /\ probing = {}
  /\ checking' = TRUE
  /\ UNCHANGED <<nodes, health, probing, call, overlapped>>

\* The probes under way end with an error, which counts as a failure.
StopChecks ==
  /\ checking
  /\ checking' = FALSE
  /\ UNCHANGED <<nodes, health, probing, call, overlapped>>

\* A round: the nodes of that moment, one probe each.
ProbeAll ==
  /\ checking /\ probing = {} /\ Idle(Checker)
  /\ probing' = {<<i, registered[i]>> : i \in {j \in Ids : registered[j] # 0}}
  /\ probing' # {}
  /\ UNCHANGED <<nodes, health, checking, call, overlapped>>

Failed(h) ==
  LET fails == IF h.fails < Unhealthy THEN h.fails + 1 ELSE h.fails
  IN [status |-> IF fails >= Unhealthy /\ h.status = "healthy" THEN "unhealthy" ELSE h.status,
      fails |-> fails, oks |-> 0, long |-> h.long]
Offline(h) == [status |-> "offline", fails |-> h.fails, oks |-> h.oks, long |-> h.long]

\* An unhealthy node is deregistered once it has been so for long, by its ID;
\* of the probes of a round, one does so at a time.
ProbeFails(id, n) ==
  /\ <<id, n>> \in probing
  /\ probing' = probing \ {<<id, n>>}
  /\ LET h == Failed(health[id][n])
         late == h.status = "unhealthy" /\ h.long
     IN /\ late => Idle(Checker)
        /\ health' = [health EXCEPT ![id][n] = IF late THEN Offline(h) ELSE h]
        /\ IF late /\ registered[id] # 0 THEN Remove(Checker, id)
           ELSE UNCHANGED <<registered, call, overlapped>>
  /\ UNCHANGED <<made, heartbeat, checking>>

Answered(h) ==
  LET oks == IF h.oks < Healthy THEN h.oks + 1 ELSE h.oks
      back == h.status = "unhealthy" /\ oks >= Healthy
  IN [status |-> IF back THEN "healthy" ELSE h.status, fails |-> 0, oks |-> oks,
      long |-> IF back THEN FALSE ELSE h.long]

ProbeSucceeds(id, n) ==
  /\ checking /\ <<id, n>> \in probing
  /\ probing' = probing \ {<<id, n>>}
  /\ health' = [health EXCEPT ![id][n] = Answered(@)]
  /\ UNCHANGED <<nodes, checking, call, overlapped>>

\* DeregisterTimeout after the node became unhealthy.
TimePasses(id, n) ==
  /\ health[id][n].status = "unhealthy" /\ ~health[id][n].long
  /\ health' = [health EXCEPT ![id][n] =
       [status |-> @.status, fails |-> @.fails, oks |-> @.oks, long |-> TRUE]]
  /\ UNCHANGED <<nodes, checking, probing, call, overlapped>>

-------------------------------------------------------------------------------
Next ==
  \/ \E c \in Callers, i \in Ids : Register(c, i) \/ Deregister(c, i)
  \/ \E c \in Threads : \/ Announced(c) \/ AnnounceFails(c)
                        \/ StartHeartbeatLoop(c) \/ StopHeartbeatLoop(c)
  \/ StopAll \/ StartChecks \/ StopChecks \/ ProbeAll
  \/ \E i \in Ids, n \in Objects : \/ ProbeFails(i, n) \/ ProbeSucceeds(i, n)
                                   \/ TimePasses(i, n)

Spec == Init /\ [][Next]_vars

-------------------------------------------------------------------------------
\* "When a node is deregistered, heartbeats stop": outside calls, heartbeats
\* report the object that is registered and no other, unless two calls for the
\* ID overlapped, the checker's own included (ConnectRegistry).
HeartbeatsFollow ==
  \A i \in Ids \ overlapped :
    (\A c \in Threads : Idle(c) \/ call[c].id # i) => heartbeat[i] \in {0, registered[i]}

\* The same whatever overlaps; the code does not keep it.
HeartbeatsStop ==
  (\A c \in Threads : Idle(c)) => \A i \in Ids : heartbeat[i] \in {0, registered[i]}

\* The status follows the probes in a row: a healthy node has not missed as
\* many as make it unhealthy, an unhealthy one has not answered as many as make
\* it healthy, and a silent node is out of the registry once its time is over
\* and it has failed again (probeNode).
StatusFollowsProbes ==
  \A i \in Ids, n \in Objects :
    /\ health[i][n].status = "healthy" => health[i][n].fails < Unhealthy
    /\ health[i][n].status = "unhealthy" => health[i][n].oks < Healthy
    /\ health[i][n].status = "offline" => registered[i] # n
===============================================================================
