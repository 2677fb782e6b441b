-------------------------------- MODULE Alerts ---------------------------------
(***************************************************************************)
(* The alert engine of the dashboard (server/internal/dashboard/alerts.go) *)
(* and the handlers that change its rules.  One lock is held over every    *)
(* operation, the notifications included, so each is a step; a batch of    *)
(* samples is a sequence of them at one time.  A threshold is a test the   *)
(* sample passes or not; time is whether the rule's cooldown is over.      *)
(***************************************************************************)
EXTENDS Naturals, FiniteSets, Functions

CONSTANTS
  Rules,      \* rule IDs
  Nodes,      \* nodes that report
  None,       \* no rule; no filter
  MaxEvents   \* bound: events

\* What the constants must satisfy; the MC module assumes it.
NoneAssumption == None \notin Rules \cup Nodes

VARIABLES
  rules,      \* AlertEngine.rules
  events,     \* AlertEngine.events: the rule of an ID, and whether it is acknowledged
  nextId,     \* AlertEngine.nextID
  fired,      \* history: how often a rule fired
  close       \* history: events of a rule, as it is now, that no cooldown lies between

vars == <<rules, events, nextId, fired, close>>

\* cooling: LastFired is less than Cooldown ago.
Rule == [enabled : BOOLEAN, filter : Nodes \cup {None}, lasts : BOOLEAN, cooling : BOOLEAN]
Event == [rule : Rules, acked : BOOLEAN]

TypeOK ==
  /\ rules \in [Rules -> Rule \cup {None}]
  /\ DOMAIN events \subseteq Nat /\ events \in [DOMAIN events -> Event]
  /\ nextId \in Nat /\ fired \in Nat
  /\ close \in [Rules -> Nat]

Init ==
  /\ rules = [r \in Rules |-> None]
  /\ events = [i \in {} |-> None]
  /\ nextId = 0 /\ fired = 0
  /\ close = [r \in Rules |-> 0]

\* AddRule puts a rule whether there is one or not, UpdateRule replaces one;
\* the new object has not fired.
PutRule(r, enabled, filter, lasts) ==
  /\ rules' = [rules EXCEPT ![r] = [enabled |-> enabled, filter |-> filter,
                                    lasts |-> lasts, cooling |-> FALSE]]
  /\ close' = [close EXCEPT ![r] = 0]
  /\ UNCHANGED <<events, nextId, fired>>

RemoveRule(r) ==
  /\ rules[r] # None
  /\ rules' = [rules EXCEPT ![r] = None]
  /\ close' = [close EXCEPT ![r] = 0]
  /\ UNCHANGED <<events, nextId, fired>>

Fires(r, node) ==
  /\ rules[r] # None
  /\ rules[r].enabled
  /\ rules[r].filter \in {None, node}
  /\ ~(rules[r].cooling /\ rules[r].lasts)

\* Mutant: the time is not kept.
FiredOnly(r) == rules[r]

Fired(r) == [enabled |-> rules[r].enabled, filter |-> rules[r].filter,
             lasts |-> rules[r].lasts, cooling |-> TRUE]

\* One sample of a batch that passes the tests of the rules in bad; rules that
\* fire do so in some order, which gives their events the next IDs.
Evaluate(node, bad) ==
  LET firing == {r \in bad : Fires(r, node)}
      new == nextId + 1 .. nextId + Cardinality(firing)
  IN /\ nextId + Cardinality(firing) <= MaxEvents
     /\ rules' = [r \in Rules |-> IF r \in firing THEN Fired(r) ELSE rules[r]]
     /\ \E of \in Bijection(new, firing) :
          events' = [i \in DOMAIN events \cup new |->
                       IF i \in new THEN [rule |-> of[i], acked |-> FALSE] ELSE events[i]]
     /\ nextId' = nextId + Cardinality(firing)
     /\ fired' = fired + Cardinality(firing)
     /\ close' = [r \in Rules |-> IF r \in firing THEN close[r] + 1 ELSE close[r]]

CooldownOver(r) ==
  /\ rules[r] # None /\ rules[r].cooling
  /\ rules' = [rules EXCEPT ![r].cooling = FALSE]
  /\ close' = [close EXCEPT ![r] = 0]
  /\ UNCHANGED <<events, nextId, fired>>

AckEvent(i) ==
  /\ i \in DOMAIN events
  /\ events' = [events EXCEPT ![i] = [rule |-> events[i].rule, acked |-> TRUE]]
  /\ UNCHANGED <<rules, nextId, fired, close>>

Next ==
  \/ \E r \in Rules : \/ RemoveRule(r) \/ CooldownOver(r)
                      \/ \E enabled, lasts \in BOOLEAN, filter \in Nodes \cup {None} :
                           PutRule(r, enabled, filter, lasts)
  \/ \E node \in Nodes, bad \in SUBSET Rules : Evaluate(node, bad)
  \/ \E i \in DOMAIN events : AckEvent(i)

Spec == Init /\ [][Next]_vars

-------------------------------------------------------------------------------
\* A rule with a cooldown fires once in it, whichever nodes report, also when a
\* batch has several samples; and no event takes the place of another (Evaluate,
\* UpdateRule, nextID).
CooldownHolds ==
  /\ \A r \in Rules : rules[r] # None /\ rules[r].lasts => close[r] <= 1
  /\ DOMAIN events = 1 .. fired
===============================================================================
