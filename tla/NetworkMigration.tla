--------------------------- MODULE NetworkMigration ---------------------------
(***************************************************************************)
(* The detector of network changes and the migrator that follows its       *)
(* events (desktop/internal/migration/detector.go, migration.go).  The     *)
(* detector compares the interfaces with the ones it knows and puts one    *)
(* event per difference into a channel; an event that finds the channel    *)
(* full is dropped, although known moves on.  A poll is one action: it     *)
(* holds d.mu, and what it emits is one sequence, added interfaces and     *)
(* changed addresses in any order before the removed ones.                 *)
(***************************************************************************)
EXTENDS Naturals, Sequences, SequencesExt, FiniteSets

CONSTANTS
  Ifaces,     \* interfaces that may be up
  Addrs,      \* addresses of interfaces
  None,       \* no address: the interface is not up
  Cap         \* capacity of the events channel, 16 in the code

\* What the constants must satisfy; the MC module assumes it.
NoneAssumption == None \notin Addrs
CapAssumption == Cap \in Nat \ {0}
IfacesAssumption == IsFiniteSet(Ifaces)

VARIABLES
  net,        \* net[i]: the address of the interface, or None
  known,      \* d.known
  events,     \* the events channel
  state,      \* m.state
  running,    \* the context of the migrator is not done
  alive,      \* the goroutines in eventLoop
  taken,      \* taken[l]: the event l handles, or nothing
  seen,       \* seen[i]: the address an observer has been told of
  blind,      \* history: interfaces with a difference that is no event
  twice       \* history: an eventLoop outlived its migrator's restart

loop == <<alive, taken>>
vars == <<net, known, events, state, running, loop, seen, blind, twice>>

Loops == 1..2   \* bound: a third is not started
Busy(l) == l \in alive /\ taken[l] # <<>>

View == [Ifaces -> Addrs \cup {None}]
Event(i, to) == [iface |-> i, to |-> to]
Removed(e) == e.to = None

TypeOK ==
  /\ net \in View /\ known \in View /\ seen \in View
  /\ Len(events) <= Cap
  /\ \A k \in DOMAIN events : events[k] \in [iface : Ifaces, to : Addrs \cup {None}]
  /\ state \in {"idle", "detecting", "migrating"}
  /\ running \in BOOLEAN
  /\ blind \subseteq Ifaces /\ twice \in BOOLEAN
  /\ alive \subseteq Loops
  /\ \A l \in Loops : Len(taken[l]) <= 1

Init ==
  /\ net \in View
  /\ known = [i \in Ifaces |-> None] /\ seen = known
  /\ events = <<>> /\ alive = {} /\ taken = [l \in Loops |-> <<>>]
  /\ state = "idle" /\ running = FALSE
  /\ blind = {} /\ twice = FALSE

\* Any interface comes, goes or changes its address.
NetworkChanges ==
  /\ \E i \in Ifaces, a \in Addrs \cup {None} :
       a # net[i] /\ net' = [net EXCEPT ![i] = a]
  /\ UNCHANGED <<known, events, state, running, loop, seen, blind, twice>>

\* The first snapshot adds to known what is up and emits nothing.  A loop that
\* has not seen the old context done goes on with the new one.
Start ==
  /\ ~running
  /\ running' = TRUE /\ state' = "detecting"
  /\ known' = [i \in Ifaces |-> IF net[i] # None THEN net[i] ELSE known[i]]
  /\ blind' = blind \cup {i \in Ifaces : known'[i] # known[i]}
  /\ \E l \in Loops \ alive : alive' = alive \cup {l}
  /\ twice' = (twice \/ alive # {})
  /\ UNCHANGED <<net, events, taken, seen>>

Changed == {i \in Ifaces : net[i] # known[i]}
\* The order of the two maps in detectChanges.
Orders ==
  {q \in [1..Cardinality(Changed) -> Changed] :
     /\ IsInjective(q)
     /\ \A j, k \in DOMAIN q : net[q[j]] = None /\ net[q[k]] # None => k < j}

Poll ==
  /\ running
  /\ Changed # {}
  /\ \E q \in Orders :
       LET fit == {k \in DOMAIN q : k <= Cap - Len(events)}
       IN /\ events' = events \o [k \in fit |-> Event(q[k], net[q[k]])]
          /\ blind' = (blind \ {q[k] : k \in fit}) \cup {q[k] : k \in DOMAIN q \ fit}
  /\ known' = net
  /\ UNCHANGED <<net, state, running, loop, seen, twice>>

TakeEvent(l) ==
  /\ l \in alive /\ taken[l] = <<>> /\ events # <<>>
  /\ taken' = [taken EXCEPT ![l] = <<Head(events)>>]
  /\ events' = Tail(events)
  /\ state' = IF Removed(Head(events)) THEN state ELSE "migrating"
  /\ UNCHANGED <<net, known, running, alive, seen, blind, twice>>

\* Mutant: observers are not told of a removed interface.
HandleEventAdded(l) ==
  /\ Busy(l)
  /\ seen' = IF Removed(taken[l][1]) THEN seen
             ELSE [seen EXCEPT ![taken[l][1].iface] = taken[l][1].to]
  /\ taken' = [taken EXCEPT ![l] = <<>>]
  /\ state' = "detecting"
  /\ UNCHANGED <<net, known, events, running, alive, blind, twice>>

\* The observers are called, and the migration is over.
HandleEvent(l) ==
  /\ Busy(l)
  /\ seen' = [seen EXCEPT ![taken[l][1].iface] = taken[l][1].to]
  /\ taken' = [taken EXCEPT ![l] = <<>>]
  /\ state' = "detecting"
  /\ UNCHANGED <<net, known, events, running, alive, blind, twice>>

LoopExits(l) ==
  /\ ~running /\ l \in alive /\ taken[l] = <<>>
  /\ alive' = alive \ {l}
  /\ UNCHANGED <<net, known, events, state, running, taken, seen, blind, twice>>

Stop ==
  /\ running
  /\ running' = FALSE /\ state' = "idle"
  /\ UNCHANGED <<net, known, events, loop, seen, blind, twice>>

Next ==
  \/ NetworkChanges \/ Start \/ Poll \/ Stop
  \/ \E l \in Loops : TakeEvent(l) \/ HandleEvent(l) \/ LoopExits(l)

Spec == Init /\ [][Next]_vars

-------------------------------------------------------------------------------
\* What the observers will have been told of i once the channel is empty.
Told(i) ==
  LET queued == {k \in DOMAIN events : events[k].iface = i}
      now == {l \in Loops : Busy(l) /\ taken[l][1].iface = i}
  IN IF queued # {} THEN events[Max(queued)].to
     ELSE IF now # {} THEN taken[CHOOSE l \in now : TRUE][1].to ELSE seen[i]

\* Observers follow the detector: for an interface without a dropped event and
\* without a snapshot that moved known, what the observers have been told, the
\* event being handled and those in the channel end at the address the
\* detector knows, as long as no restart left two event loops
\* (detectChanges, emitEvent, eventLoop, handleEvent).
ViewFollowsEvents == ~twice => \A i \in Ifaces \ blind : Told(i) = known[i]
===============================================================================
