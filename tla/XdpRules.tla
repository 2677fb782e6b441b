-------------------------------- MODULE XdpRules -------------------------------
(***************************************************************************)
(* Forwarding rules and their fast path in the kernel (server/internal/    *)
(* ebpf).  RuleMap keeps all rules by priority; the loader puts those into *)
(* the kernel's table that mean the same there, a packet the table does    *)
(* not know goes to userspace.  The loader has been connected to the map   *)
(* (ConfigureRuleMap).  Protocol and destination port are one key, Any is  *)
(* port 0.  The loader's lock is a variable because Unload waits under it. *)
(***************************************************************************)
EXTENDS Naturals, Sequences, FiniteSets

CONSTANTS
  Ports,      \* keys of the fast path
  Any,        \* no port: the rule is about all of them
  Priorities, \* rule.Priority
  Callers,    \* goroutines that change the rules
  MaxRules,   \* bound: rules in the map
  MaxKernel,  \* config.MaxKernelRules
  None        \* no entry, nobody

\* What the constants must satisfy; the MC module assumes it.
RuleAssumption ==
  /\ Priorities \subseteq Nat /\ MaxRules \in Nat /\ MaxKernel \in Nat
  /\ Any \notin Ports /\ None \notin Callers

\* A rule about one source, a rule with a target that is no interface, a plain one.
Kinds == {"plain", "from", "away"}
Rules == [kind : Kinds, port : Ports \cup {Any}, prio : Priorities, action : {"drop", "pass"}]
Packets == [port : Ports, from : BOOLEAN]

VARIABLES
  sorted,     \* RuleMap.sorted
  kernel,     \* the table l4_rules: the action for a port, or None
  known,      \* kernelRuleKeys: ports the loader remembers to be in the table
  mode,       \* Loader.mode
  lock,       \* who holds l.mu over a wait
  stats,      \* the goroutine of StartStats
  call,       \* call[c]: the next step of c, its rule, and the list it has read
  damaged,    \* history: an update of the table failed, or none followed a removal
  overlapped  \* history: two changes overlapped

table == <<kernel, known, mode>>
vars == <<sorted, table, lock, stats, call, damaged, overlapped>>

Idle == [pc |-> "idle", rule |-> None, list |-> << >>]
Lists == UNION {[1 .. n -> Rules] : n \in 0 .. MaxRules}

TypeOK ==
  /\ sorted \in Lists
  /\ kernel \in [Ports -> {"drop", "pass", None}] /\ known \subseteq Ports
  /\ mode \in {"userspace", "kernel"}
  /\ lock \in {None, "unload"}
  /\ stats \in {"off", "waiting", "reading"}
  /\ \A c \in Callers :
       /\ call[c].pc \in {"idle", "list", "sync", "undo", "last", "undone"}
       /\ call[c].rule \in Rules \cup {None} /\ call[c].list \in Lists
  /\ damaged \in BOOLEAN /\ overlapped \in BOOLEAN

Init ==
  /\ sorted = << >>
  /\ kernel = [p \in Ports |-> None] /\ known = {} /\ mode = "userspace"
  /\ lock = None /\ stats = "off"
  /\ call = [c \in Callers |-> Idle]
  /\ damaged = FALSE /\ overlapped = FALSE

-------------------------------------------------------------------------------
(* What a rule matches, and what of a list may go to the kernel.           *)

Matches(rule, packet) ==
  /\ rule.port \in {Any, packet.port}
  /\ rule.kind = "from" => packet.from
MatchIn(list, packet) ==
  LET hits == {i \in DOMAIN list : Matches(list[i], packet)}
  IN IF hits = {} THEN None ELSE list[CHOOSE i \in hits : \A j \in hits : i <= j].action

Encodable(rule) == rule.kind = "plain" /\ rule.port # Any
MayMatchKey(rule, port) == rule.port \in {Any, port}

\* Mutant: only rules of the fast path stand before another.
BlockedByKey(prior, port) == Encodable(prior) /\ prior.port = port

\* kernelKeyBlockedByPriorRules, and the keys already planned.
BlockedBy(prior, port) ==
  IF Encodable(prior) THEN prior.port = port ELSE MayMatchKey(prior, port)

\* buildKernelRulePlan: the indices of the rules that go to the kernel.
Plan(list) ==
  {i \in DOMAIN list : /\ Encodable(list[i])
                       /\ \A j \in 1 .. i - 1 : ~BlockedBy(list[j], list[i].port)}

Wanted(list) == {list[i].port : i \in Plan(list)}

ActionFor(list, port) == list[CHOOSE i \in Plan(list) : list[i].port = port].action

\* rebuildKernelRulesLocked with all updates done: entries first, then what is
\* no longer wanted of the ports it remembers.
Rebuilt(list) ==
  [p \in Ports |-> IF p \in Wanted(list) THEN ActionFor(list, p)
                   ELSE IF p \in known THEN None ELSE kernel[p]]

\* A plan that does not fit is refused.  Else success, or an error after some of
\* the entries were written, and if all were some of the others removed.
Fits(list) == Cardinality(Wanted(list)) <= MaxKernel

Sync(list, ok) ==
  LET wanted == Wanted(list)
      old == known \ wanted
  IN IF mode # "kernel" \/ ~Fits(list)
     THEN ok = (mode # "kernel") /\ UNCHANGED <<kernel, known>>
     ELSE \/ ok /\ kernel' = Rebuilt(list) /\ known' = wanted
          \/ /\ ~ok /\ UNCHANGED known
             /\ \E done \in SUBSET (wanted \cup old) \ {wanted \cup old} :
                  /\ done \cap old # {} => wanted \subseteq done
                  /\ kernel' = [p \in Ports |-> IF p \in done THEN Rebuilt(list)[p]
                                               ELSE kernel[p]]

-------------------------------------------------------------------------------
(* Changes of the rules, each followed by a synchronisation that reads the *)
(* list before it takes the loader's lock.                                 *)

\* rebuildSorted: rules of one priority come in any order.
InOrder(list) == \A i, j \in DOMAIN list : i < j => list[i].prio <= list[j].prio
Count(list, rule) == Cardinality({i \in DOMAIN list : list[i] = rule})
Orders(old, new, rule, change) ==
  /\ InOrder(new) /\ Len(new) = Len(old) + change
  /\ \A r \in {old[i] : i \in DOMAIN old} \cup {rule} :
       Count(new, r) = Count(old, r) + (IF r = rule THEN change ELSE 0)
Sorted(rule, change) ==
  LET pool == {sorted[i] : i \in DOMAIN sorted} \cup {rule}
  IN {s \in [1 .. Len(sorted) + change -> pool] : Orders(sorted, s, rule, change)}

Begin(c, next, rule) ==
  /\ call' = [call EXCEPT ![c] = [pc |-> next, rule |-> rule, list |-> << >>]]
  /\ overlapped' = (overlapped \/ \E d \in Callers \ {c} : call[d].pc # "idle")
At(c, pc) == call[c].pc = pc
Return(c) == call' = [call EXCEPT ![c] = Idle]

AddRule(c, rule) ==
  /\ At(c, "idle") /\ Len(sorted) < MaxRules
  /\ sorted' \in Sorted(rule, 1)
  /\ Begin(c, "list", rule)
  /\ UNCHANGED <<table, lock, stats, damaged>>

\* A synchronisation that fails is not reported.
RemoveRule(c, i) ==
  /\ At(c, "idle") /\ i \in DOMAIN sorted
  /\ sorted' \in Sorted(sorted[i], 0 - 1)
  /\ Begin(c, "undo", None)
  /\ UNCHANGED <<table, lock, stats, damaged>>

ListRules(c) ==
  /\ call[c].pc \in {"list", "undo"}
  /\ call' = [call EXCEPT ![c] = [pc |-> IF @.pc = "list" THEN "sync" ELSE "last",
                                  rule |-> @.rule, list |-> sorted]]
  /\ UNCHANGED <<sorted, table, lock, stats, damaged, overlapped>>

SyncAfterAdd(c, ok) ==
  /\ At(c, "sync") /\ lock = None
  /\ Sync(call[c].list, ok)
  /\ damaged' = IF ~ok /\ Fits(call[c].list) THEN TRUE ELSE damaged
  /\ call' = [call EXCEPT ![c] = IF ok THEN Idle ELSE [@ EXCEPT !.pc = "undone"]]
  /\ UNCHANGED <<sorted, mode, lock, stats, overlapped>>

\* The rule is taken back, and the kernel told so.
Rollback(c) ==
  /\ At(c, "undone")
  /\ sorted' \in IF Count(sorted, call[c].rule) > 0 THEN Sorted(call[c].rule, 0 - 1)
                 ELSE {sorted}
  /\ call' = [call EXCEPT ![c].pc = "undo"]
  /\ UNCHANGED <<table, lock, stats, damaged, overlapped>>

\* Nobody learns of an error: the table stays as it is.
SyncAfterRemove(c) ==
  /\ At(c, "last") /\ lock = None
  /\ \E ok \in BOOLEAN : Sync(call[c].list, ok) /\ damaged' = IF ok THEN damaged ELSE TRUE
  /\ Return(c)
  /\ UNCHANGED <<sorted, mode, lock, stats, overlapped>>

-------------------------------------------------------------------------------
(* The loader.                                                             *)

\* The program is detached and loaded again; the new table is empty until the
\* rules of the map are put into it.
Load ==
  /\ lock = None
  /\ \/ mode' = "userspace" /\ kernel' = [p \in Ports |-> None] /\ known' = {}
     \/ /\ Fits(sorted)
        /\ mode' = "kernel"
        /\ kernel' = [p \in Ports |-> IF p \in Wanted(sorted) THEN ActionFor(sorted, p)
                                      ELSE None]
        /\ known' = Wanted(sorted)
  /\ overlapped' = (overlapped \/ \E c \in Callers : call[c].pc # "idle")
  /\ UNCHANGED <<sorted, lock, stats, call, damaged>>

StartStats ==
  /\ stats = "off" /\ lock = None
  /\ stats' = "waiting"
  /\ UNCHANGED <<sorted, table, lock, call, damaged, overlapped>>

\* A tick: the goroutine is about to ask for the statistics ...
Tick ==
  /\ stats = "waiting"
  /\ stats' = "reading"
  /\ UNCHANGED <<sorted, table, lock, call, damaged, overlapped>>

\* ... which needs the lock.
Stats ==
  /\ stats = "reading" /\ lock = None
  /\ stats' = "waiting"
  /\ UNCHANGED <<sorted, table, lock, call, damaged, overlapped>>

\* Unload cancels the goroutine and waits for it with the lock.
Unload ==
  /\ lock = None
  /\ lock' = "unload"
  /\ UNCHANGED <<sorted, table, stats, call, damaged, overlapped>>

\* The goroutine sees that it is cancelled.
StatsStop ==
  /\ lock = "unload" /\ stats = "waiting"
  /\ stats' = "off"
  /\ UNCHANGED <<sorted, table, lock, call, damaged, overlapped>>

Unloaded ==
  /\ lock = "unload" /\ stats = "off"
  /\ lock' = None
  /\ mode' = "userspace" /\ kernel' = [p \in Ports |-> None] /\ known' = {}
  /\ UNCHANGED <<sorted, stats, call, damaged, overlapped>>

-------------------------------------------------------------------------------
Next ==
  \/ \E c \in Callers :
       \/ \E rule \in Rules : AddRule(c, rule)
       \/ \E i \in 1 .. MaxRules : RemoveRule(c, i)
       \/ ListRules(c) \/ Rollback(c) \/ SyncAfterRemove(c)
       \/ \E ok \in BOOLEAN : SyncAfterAdd(c, ok)
  \/ Load \/ StartStats \/ Tick \/ Stats \/ Unload \/ StatsStop \/ Unloaded

Spec == Init /\ [][Next]_vars
\* A goroutine that can go on does.
FairSpec == Spec /\ WF_vars(Stats) /\ WF_vars(StatsStop) /\ WF_vars(Unloaded)

-------------------------------------------------------------------------------
\* The fast path changes nothing: for a packet whose key is in the kernel's
\* table the table says what the rules say in their order of priority, once a
\* change is through, if no two changes overlapped, no update of the table failed
\* and none that had to follow a removal was refused (buildKernelRulePlan: "only
\* rules that do not change the priorities' meaning").
FastPathAgrees ==
  /\ mode = "kernel" /\ ~overlapped /\ ~damaged
  /\ \A c \in Callers : At(c, "idle")
  => \A k \in Packets : kernel[k.port] # None => kernel[k.port] = MatchIn(sorted, k)

\* "Unload detaches the eBPF program and cleans up resources": it comes back.
UnloadReturns == lock = "unload" ~> lock = None
===============================================================================
