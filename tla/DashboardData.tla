----------------------------- MODULE DashboardData -----------------------------
(***************************************************************************)
(* What an administrator changes through the dashboard and what the audit  *)
(* log says of it (server/internal/dashboard: server.go,                   *)
(* relay_admin_client.go, store_sqlite.go; pkg/audit; relay/admin.go).     *)
(* Policies of endpoints are the relay's: a handler asks it over HTTP for  *)
(* at most 5 seconds, and logs the change when the answer is a success.    *)
(* Nodes and access rules are rows of the dashboard's store, or of its     *)
(* memory when it has none; nothing in src/ writes a node.                 *)
(***************************************************************************)
EXTENDS FiniteSets

CONSTANTS
  Requests,   \* handler goroutines
  Policies,   \* IDs of policies
  Nodes,      \* node IDs
  Rules,      \* IDs of access rules
  None        \* no ID

\* What the constants must satisfy; the MC module assumes it.
NoneAssumption == None \notin Policies \cup Nodes \cup Rules
Items == Nodes \cup Rules

VARIABLES
  stored,     \* s.dbStore # nil
  up,         \* the dashboard: "up", "stopping" (Stop was called) or "down"
  logger,     \* JSONFileAuditLogger: "open", "stuck" (its encoder keeps an error), "closed"
  torn,       \* the file has a line that Query cannot decode
  last,       \* last[p]: the newest event of the file about p
  policies,   \* the relay's s.policies
  rows,       \* dash_nodes and dash_acls, or DataStore
  request,    \* request[r]: what the handler is at
  late,       \* changes the relay has not got to, whose caller gave up
  unsure,     \* history: policies about which calls overlapped or something failed
  told,       \* history: told[i]: what the last call about i reported
  clash       \* history: items with overlapping calls

relay == <<policies, late>>
log == <<logger, torn, last, unsure>>
table == <<rows, told, clash>>
vars == <<stored, up, log, relay, table, request>>

Idle == [pc |-> "idle", kind |-> "put", id |-> None, alone |-> TRUE]
Kinds == {"put", "delete"}

TypeOK ==
  /\ stored \in BOOLEAN /\ torn \in BOOLEAN
  /\ up \in {"up", "stopping", "down"} /\ logger \in {"open", "stuck", "closed"}
  /\ last \in [Policies -> Kinds \cup {"none"}]
  /\ policies \subseteq Policies /\ unsure \subseteq Policies
  /\ rows \subseteq Items /\ clash \subseteq Items
  /\ request \in [Requests -> [pc : {"idle", "sent", "accepted", "found"}, kind : Kinds,
                               id : Policies \cup Items \cup {None}, alone : BOOLEAN]]
  /\ late \subseteq [kind : Kinds, id : Policies]
  /\ told \in [Items -> {"present", "absent", "unknown"}]

Init ==
  /\ stored \in BOOLEAN
  /\ up = "up" /\ logger = "open" /\ torn = FALSE
  /\ last = [p \in Policies |-> "none"]
  /\ policies = {} /\ late = {} /\ unsure = {} /\ clash = {}
  /\ rows \in SUBSET Nodes
  /\ request = [r \in Requests |-> Idle]
  /\ told = [i \in Items |-> IF i \in rows THEN "present" ELSE "absent"]

-------------------------------------------------------------------------------
About(id) == {r \in Requests : request[r].id = id}
At(r, pc) == up # "down" /\ request[r].pc = pc

NotAlone(q) == [pc |-> request[q].pc, kind |-> request[q].kind, id |-> request[q].id,
                alone |-> FALSE]

\* A call about id begins: it and the others about id are not alone any more.
Begin(r, pc, kind, id) ==
  request' = [q \in Requests |->
    IF q = r THEN [pc |-> pc, kind |-> kind, id |-> id,
                   alone |-> About(id) = {} /\ ~\E c \in late : c.id = id]
    ELSE IF request[q].id = id THEN NotAlone(q)
    ELSE request[q]]
End(r) == request' = [request EXCEPT ![r] = Idle]

\* The relay does what it is asked; deleting what is not there is refused.
Change(kind, p) ==
  IF kind = "put" THEN policies \cup {p} ELSE policies \ {p}

Send(r, kind, p) ==
  /\ up = "up" /\ At(r, "idle")
  /\ Begin(r, "sent", kind, p)
  /\ UNCHANGED <<stored, up, log, relay, table>>

Accepted(r) == [pc |-> "accepted", kind |-> request[r].kind, id |-> request[r].id,
                alone |-> request[r].alone]

RelayAccepts(r) ==
  /\ At(r, "sent")
  /\ request[r].kind = "delete" => request[r].id \in policies
  /\ policies' = Change(request[r].kind, request[r].id)
  /\ request' = [request EXCEPT ![r] = Accepted(r)]
  /\ UNCHANGED <<stored, up, log, late, table>>

\* Mutant: the status of the answer is not looked at.
RelayRefusesUnread(r) ==
  /\ At(r, "sent")
  /\ request' = [request EXCEPT ![r] = Accepted(r)]
  /\ UNCHANGED <<stored, up, log, relay, table>>

\* An invalid policy, an unknown ID: doJSON makes an error of the status.
RelayRefuses(r) ==
  /\ At(r, "sent")
  /\ End(r)
  /\ UNCHANGED <<stored, up, log, relay, table>>

\* The 5 seconds are over, or the connection breaks: the change may have been
\* made, or may still be made, and the administrator is told it failed.
GiveUp(r) ==
  /\ request[r].pc \in {"sent", "accepted"} /\ up # "down"
  /\ late' = IF At(r, "accepted") THEN late
             ELSE late \cup {[kind |-> request[r].kind, id |-> request[r].id]}
  /\ unsure' = unsure \cup {request[r].id}
  /\ End(r)
  /\ UNCHANGED <<stored, up, logger, torn, last, policies, table>>

RelayIsLate(c) ==
  /\ late' = late \ {c}
  /\ policies' \in {policies, Change(c.kind, c.id)}
  /\ unsure' = unsure \cup {c.id}
  /\ request' = [q \in Requests |-> IF request[q].id = c.id THEN NotAlone(q)
                                    ELSE request[q]]
  /\ UNCHANGED <<stored, up, logger, torn, last, table>>

\* s.policies is memory.
RelayRestarts ==
  /\ policies' = {} /\ late' = {}
  /\ unsure' = Policies
  /\ request' = [q \in Requests |-> NotAlone(q)]
  /\ UNCHANGED <<stored, up, logger, torn, last, table>>

\* audit.Log after the answer: nothing is written by a logger that is closed,
\* or whose encoder failed before.
Audit(r) ==
  /\ At(r, "accepted")
  /\ LET p == request[r].id
     IN IF logger = "open"
        THEN /\ last' = [last EXCEPT ![p] = request[r].kind]
             /\ unsure' = IF request[r].alone THEN unsure \ {p} ELSE unsure \cup {p}
        ELSE /\ unsure' = unsure \cup {p}
             /\ UNCHANGED last
  /\ End(r)
  /\ UNCHANGED <<stored, up, logger, torn, relay, table>>

\* The line is written in part, or not at all; the encoder repeats the error
\* from now on, and the handler reports success.
AuditFails(r) ==
  /\ At(r, "accepted") /\ logger = "open"
  /\ logger' = "stuck"
  /\ torn' \in {torn, TRUE}
  /\ unsure' = unsure \cup {request[r].id}
  /\ End(r)
  /\ UNCHANGED <<stored, up, last, relay, table>>

-------------------------------------------------------------------------------
\* The last word on an item: what the call reports, unless others overlap it.
Report(r, i, what) ==
  /\ told' = [told EXCEPT ![i] = what]
  /\ clash' = IF request[r].id = i /\ ~request[r].alone THEN clash \cup {i} ELSE clash \ {i}

SaveACL(r, i) ==
  /\ up = "up" /\ At(r, "idle") /\ i \in Rules
  /\ rows' = rows \cup {i}
  /\ request' = [q \in Requests |-> IF request[q].id = i THEN NotAlone(q)
                                    ELSE request[q]]
  /\ told' = [told EXCEPT ![i] = "present"]
  /\ clash' = IF About(i) = {} THEN clash \ {i} ELSE clash \cup {i}
  /\ UNCHANGED <<stored, up, log, relay>>

\* handleDeleteNode, handleDeleteACL: looked up first, deleted by another
\* statement; in memory both are under one lock.
FindRow(r, i) ==
  /\ up = "up" /\ At(r, "idle") /\ i \in rows /\ stored
  /\ Begin(r, "found", "delete", i)
  /\ UNCHANGED <<stored, up, log, relay, table>>

\* Mutant: a rule that was found is reported deleted.
DeleteRowSkipped(r) ==
  /\ At(r, "found")
  /\ Report(r, request[r].id, "absent")
  /\ End(r)
  /\ UNCHANGED <<stored, up, log, relay, rows>>

DeleteRow(r) ==
  /\ At(r, "found")
  /\ rows' = rows \ {request[r].id}
  /\ Report(r, request[r].id, "absent")
  /\ End(r)
  /\ UNCHANGED <<stored, up, log, relay>>

DeleteFromMemory(r, i) ==
  /\ up = "up" /\ At(r, "idle") /\ i \in rows /\ ~stored
  /\ rows' = rows \ {i}
  /\ told' = [told EXCEPT ![i] = "absent"]
  /\ UNCHANGED <<stored, up, log, relay, clash, request>>

-------------------------------------------------------------------------------
\* Stop closes the listener and the log; handlers that run go on.
Stop ==
  /\ up = "up"
  /\ up' = "stopping" /\ logger' = "closed"
  /\ UNCHANGED <<stored, torn, last, unsure, relay, table, request>>

\* The process ends, after Stop or not; what the handlers asked of the relay
\* may still be done.
Exit ==
  /\ up # "down"
  /\ up' = "down" /\ logger' = "closed"
  /\ LET open == {r \in Requests : request[r].pc \in {"sent", "accepted"}}
     IN /\ late' = late \cup {[kind |-> request[r].kind, id |-> request[r].id] :
                                r \in {q \in open : request[q].pc = "sent"}}
        /\ unsure' = unsure \cup {request[r].id : r \in open}
  /\ request' = [r \in Requests |-> Idle]
  /\ rows' = IF stored THEN rows ELSE {}
  /\ UNCHANGED <<stored, torn, last, policies, told, clash>>

\* NewServer opens the same file again, with a new encoder; the next line
\* follows the torn one.
Start ==
  /\ up = "down"
  /\ up' = "up" /\ logger' = "open"
  /\ UNCHANGED <<stored, torn, last, unsure, relay, table, request>>

Next ==
  \/ \E r \in Requests :
       \/ \E kind \in Kinds, p \in Policies : Send(r, kind, p)
       \/ RelayAccepts(r) \/ RelayRefuses(r) \/ GiveUp(r) \/ Audit(r) \/ AuditFails(r)
       \/ DeleteRow(r)
       \/ \E i \in Items : SaveACL(r, i) \/ FindRow(r, i) \/ DeleteFromMemory(r, i)
  \/ \E c \in late : RelayIsLate(c)
  \/ RelayRestarts \/ Stop \/ Exit \/ Start

Spec == Init /\ [][Next]_vars

-------------------------------------------------------------------------------
\* The newest event of the audit log about a policy says whether the relay has
\* it, unless calls about it overlapped, one of them was given up, the log
\* could not be written or the relay restarted since (handleUpsertEndpointPolicy,
\* handleDeleteEndpointPolicy, RelayAdminClient.doJSON, audit.Log).
TrailExplains ==
  \A p \in Policies \ unsure :
    (\A r \in About(p) : request[r].pc = "sent")
      => (p \in policies <=> last[p] = "put")

\* With a store, what a call reported of a rule or a node is so, across
\* restarts, unless calls about it overlapped (handleCreateACL, handleDeleteACL).
ReportsAreTrue ==
  stored => \A i \in Items \ clash : i \in rows <=> told[i] = "present"

\* While the dashboard runs, every accepted change is logged: does not hold
\* after one failed write, whose error json.Encoder keeps (audit.go: Log).
LoggerWorks == up = "up" => logger = "open"
===============================================================================
