------------------------------ MODULE AccessRules ------------------------------
(***************************************************************************)
(* Access rules, keys and the audit log of the control plane               *)
(* (server/internal/controlplane: server.go, node_registry.go, the SQLite  *)
(* store; pkg/audit).  The rules are decided from a cache that is filled   *)
(* from the store when the server starts.  Adding a rule writes the store  *)
(* first, removing one the cache first; then the handler writes the log.   *)
(* A rule is about one access or about all of them; node, protocol and     *)
(* port are what tells accesses apart.                                     *)
(***************************************************************************)
EXTENDS Integers, FiniteSets

CONSTANTS
  Ids,        \* rule IDs, and nodes that have keys
  Accesses,   \* (source, target, protocol, port)
  Any,        \* a rule about all accesses
  Priorities, \* rule.Priority: any integer
  Callers,    \* handler goroutines
  MaxVersion, \* bound: key versions
  None        \* no rule, no key

\* What the constants must satisfy; the MC module assumes it.
AnyAssumption == Any \notin Accesses
PriorityAssumption == Priorities \subseteq Int /\ MaxVersion \in Nat \ {0}

VARIABLES
  rows,       \* the table acl_rules
  rules,      \* ACLRuleEngine.rules
  late,       \* the expiry of rules that have one is over
  keys,       \* the table key_material: versions, 0: no key
  audited,    \* the last entry about an ID in the audit log
  torn,       \* the log ends in a line that was not written to its end
  call,       \* call[c]: the next step of a handler
  split       \* history: IDs two calls overlapped about, or one failed or died

log == <<audited, torn>>
vars == <<rows, rules, late, keys, log, call, split>>

Rule == [about : Accesses \cup {Any}, prio : Priorities, allow : BOOLEAN, expires : BOOLEAN]
Idle == [pc |-> "idle", id |-> None, rule |-> None, version |-> 0]
NoneAssumption == None \notin Ids \cup Rule

TypeOK ==
  /\ {rows, rules} \subseteq [Ids -> Rule \cup {None}]
  /\ keys \in [Ids -> 0 .. MaxVersion]
  /\ audited \in [Ids -> {"none", "create", "delete"}]
  /\ {late, torn} \subseteq BOOLEAN
  /\ call \in [Callers -> [pc : {"idle", "save", "cache", "delete", "logCreate",
                                 "logDelete", "rotate"},
                           id : Ids \cup {None}, rule : Rule \cup {None},
                           version : 0 .. MaxVersion]]
  /\ split \subseteq Ids

Init ==
  /\ rows = [i \in Ids |-> None] /\ rules = rows
  /\ late = FALSE
  /\ keys = [i \in Ids |-> 0]
  /\ audited = [i \in Ids |-> "none"] /\ torn = FALSE
  /\ call = [c \in Callers |-> Idle]
  /\ split = {}

-------------------------------------------------------------------------------
(* The decision.                                                           *)

Matching(table, a) ==
  {r \in {table[i] : i \in Ids} \ {None} : r.about \in {a, Any} /\ ~(r.expires /\ late)}
\* A priority below zero never wins; of equal ones the map's order decides.
Best(table, a) ==
  {r \in Matching(table, a) :
     r.prio >= 0 /\ \A s \in Matching(table, a) : s.prio <= r.prio}
\* What Evaluate may answer.
Evaluate(table, a) ==
  IF Best(table, a) = {} THEN {FALSE} ELSE {r.allow : r \in Best(table, a)}

-------------------------------------------------------------------------------
(* Handlers.                                                               *)

At(c, pc) == call[c].pc = pc
Goto(c, pc) == call' = [call EXCEPT ![c].pc = pc]
Return(c) == call' = [call EXCEPT ![c] = Idle]
Begin(c, pc, id, rule) ==
  /\ At(c, "idle")
  /\ call' = [call EXCEPT ![c] = [pc |-> pc, id |-> id, rule |-> rule, version |-> 0]]
  /\ split' = IF \E d \in Callers : call[d].id = id THEN split \cup {id} ELSE split

AddRule(c, id, rule) ==
  /\ Begin(c, "save", id, rule)
  /\ UNCHANGED <<rows, rules, late, keys, log>>

\* Mutant: an error of the store is not looked at.
SaveRowUnchecked(c) ==
  /\ At(c, "save")
  /\ rows' \in {rows, [rows EXCEPT ![call[c].id] = call[c].rule]}
  /\ Goto(c, "cache")
  /\ UNCHANGED <<rules, late, keys, log, split>>

SaveRow(c) ==
  /\ At(c, "save")
  /\ \/ rows' = [rows EXCEPT ![call[c].id] = call[c].rule] /\ Goto(c, "cache")
     \/ UNCHANGED rows /\ Return(c)
  /\ UNCHANGED <<rules, late, keys, log, split>>

CacheRule(c) ==
  /\ At(c, "cache")
  /\ rules' = [rules EXCEPT ![call[c].id] = call[c].rule]
  /\ Goto(c, "logCreate")
  /\ UNCHANGED <<rows, late, keys, log, split>>

RemoveRule(c, id) ==
  /\ Begin(c, "delete", id, None)
  /\ rules' = [rules EXCEPT ![id] = None]
  /\ UNCHANGED <<rows, late, keys, log>>

\* The row that could not be deleted is back after a restart.
DeleteRow(c) ==
  /\ At(c, "delete")
  /\ \/ /\ rows' = [rows EXCEPT ![call[c].id] = None]
        /\ Goto(c, "logDelete") /\ UNCHANGED split
     \/ /\ UNCHANGED rows
        /\ Return(c) /\ split' = split \cup {call[c].id}
  /\ UNCHANGED <<rules, late, keys, log>>

Log(c, action) ==
  /\ At(c, IF action = "create" THEN "logCreate" ELSE "logDelete")
  /\ audited' = [audited EXCEPT ![call[c].id] = action]
  /\ Return(c)
  /\ UNCHANGED <<rows, rules, late, keys, torn, split>>

RegisterKey(id, version) ==
  /\ keys' = [keys EXCEPT ![id] = version]
  /\ UNCHANGED <<rows, rules, late, log, call, split>>

\* RotateKey reads the key and writes it with the next version.
RotateKey(c, id) ==
  /\ At(c, "idle") /\ keys[id] \in 1 .. MaxVersion - 1
  /\ call' = [call EXCEPT ![c] = [pc |-> "rotate", id |-> id, rule |-> None,
                                     version |-> keys[id] + 1]]
  /\ split' = IF \E d \in Callers : call[d].id = id THEN split \cup {id} ELSE split
  /\ UNCHANGED <<rows, rules, late, keys, log>>

SaveRotated(c) ==
  /\ At(c, "rotate")
  /\ keys' = [keys EXCEPT ![call[c].id] = call[c].version]
  /\ Return(c)
  /\ UNCHANGED <<rows, rules, late, log, split>>

Expire ==
  /\ ~late /\ late' = TRUE
  /\ UNCHANGED <<rows, rules, keys, log, call, split>>

\* The server dies at any moment, and one line of the log may stay half
\* written.  It starts with the rules of the store, or with none if the store
\* cannot be read; a change that was not logged by then never is.
CrashRestart ==
  LET busy == {call[c].id : c \in Callers} \cap Ids
  IN /\ call' = [c \in Callers |-> Idle]
     /\ \/ rules' = rows /\ split' = split \cup busy
        \/ rules' = [i \in Ids |-> None] /\ split' = Ids
     /\ torn' \in {torn, torn \/ \E c \in Callers : call[c].pc \in {"logCreate", "logDelete"}}
     /\ UNCHANGED <<rows, late, keys, audited>>

-------------------------------------------------------------------------------
Next ==
  \/ \E c \in Callers :
       \/ \E i \in Ids : \/ RemoveRule(c, i) \/ RotateKey(c, i)
                         \/ \E rule \in Rule : AddRule(c, i, rule)
       \/ SaveRow(c) \/ CacheRule(c) \/ DeleteRow(c) \/ SaveRotated(c)
       \/ \E action \in {"create", "delete"} : Log(c, action)
  \/ \E i \in Ids, v \in 1 .. MaxVersion : RegisterKey(i, v)
  \/ Expire \/ CrashRestart

Spec == Init /\ [][Next]_vars

-------------------------------------------------------------------------------
\* No decision depends on whether the server was restarted: outside calls the
\* rules in force are those of the store and decide every access alike, and the
\* audit log says of a rule that it is there exactly if it is, unless calls about
\* it overlapped, failed half way or died (AddRule, RemoveRule, restoreRules,
\* handleAddACL, handleDeleteACL).
RulesSurvive ==
  /\ \A i \in Ids \ split :
       (\A c \in Callers : call[c].id # i) =>
         /\ rules[i] = rows[i]
         /\ rules[i] # None <=> audited[i] = "create"
  /\ split = {} /\ (\A c \in Callers : At(c, "idle")) =>
       \A a \in Accesses : Evaluate(rules, a) = Evaluate(rows, a)
===============================================================================
