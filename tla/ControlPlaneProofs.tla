-------------------------- MODULE ControlPlaneProofs --------------------------
(***************************************************************************)
(* Proofs about ControlPlane, for any sets of nodes and handlers and any   *)
(* subnet: the types are kept and no two nodes hold one address in the     *)
(* allocator, whatever the handlers, the pruner, failing writes and        *)
(* crashes do.                                                             *)
(***************************************************************************)
EXTENDS ControlPlane, TLAPS

USE SubnetAssumption, AbsentAssumption, PrunerAssumption

\* The usable addresses are positive, so NoAddr is none of them, and the next
\* search can start right after one.
LEMMA UsableOffsets ==
  \A x \in Usable : x \in Nat /\ x # NoAddr /\ x + 1 \in 1..(Size - 1)
BY DEF Usable, NoAddr

\* Allocate returns usable addresses only: neither that of the network, nor the
\* gateway's, nor the broadcast address.
LEMMA AllocatesUsable ==
  ASSUME IPAMTypeOK, NEW n \in Nodes, NEW x, Allocate(n, x)
  PROVE  x \in Usable
<1>1. allocated[n] \in Usable \cup {NoAddr}
  BY DEF IPAMTypeOK
<1> QED BY <1>1 DEF Allocate, FirstFree, Free

\* Allocate keeps the allocator's type and uniqueness.
LEMMA AllocateKeeps ==
  ASSUME IPAMTypeOK, AddressesUnique, NEW n \in Nodes, NEW x, Allocate(n, x)
  PROVE  IPAMTypeOK' /\ AddressesUnique'
<1> x \in Usable
  BY AllocatesUsable
<1>1. CASE UNCHANGED ipamVars
  BY <1>1 DEF IPAMTypeOK, AddressesUnique, ipamVars
<1>2. CASE /\ FirstFree(x)
           /\ allocated' = [allocated EXCEPT ![n] = x]
           /\ nextHost' = x + 1
  <2>1. x # NoAddr /\ \A m \in Nodes : allocated[m] # x
    BY <1>2, UsableOffsets DEF FirstFree, Free
  <2>2. IPAMTypeOK'
    BY <1>2, UsableOffsets DEF IPAMTypeOK
  <2>3. AddressesUnique'
    BY <1>2, <2>1 DEF AddressesUnique, IPAMTypeOK
  <2> QED BY <2>2, <2>3
<1> QED BY <1>1, <1>2 DEF Allocate

\* So does Reserve, which Reservable guards.
LEMMA ReserveKeeps ==
  ASSUME IPAMTypeOK, AddressesUnique, NEW n, NEW x, Reserve(n, x)
  PROVE  IPAMTypeOK' /\ AddressesUnique'
<1>1. x \in Usable /\ x # NoAddr /\ \A m \in Nodes \ {n} : allocated[m] # x
  BY UsableOffsets DEF Reserve, Reservable
<1>2. IPAMTypeOK'
  BY <1>1, UsableOffsets DEF Reserve, IPAMTypeOK
<1>3. AddressesUnique'
  BY <1>1 DEF Reserve, AddressesUnique, IPAMTypeOK
<1> QED BY <1>2, <1>3

\* So does Release.
LEMMA ReleaseKeeps ==
  ASSUME IPAMTypeOK, AddressesUnique, NEW n, Release(n)
  PROVE  IPAMTypeOK' /\ AddressesUnique'
BY DEF Release, IPAMTypeOK, AddressesUnique

\* And a restart: restoreAllocations fails unless the rows are distinct.
LEMMA RestartKeeps ==
  ASSUME TypeOK, CrashRestart
  PROVE  IPAMTypeOK' /\ AddressesUnique'
<1>1. allocated' \in [Nodes -> Usable \cup {NoAddr}]
  BY DEF CrashRestart, TypeOK
<1>2. nextHost' \in 1..(Size - 1)
  BY DEF CrashRestart, RestoredNext
<1>3. AddressesUnique'
  BY DEF CrashRestart, Restorable, AddressesUnique
<1> QED BY <1>1, <1>2, <1>3 DEF IPAMTypeOK

LEMMA InitInv == Init => IInv
<1> SUFFICES ASSUME Init PROVE IInv
  OBVIOUS
<1>1. TypeOK
  BY DEF Init, TypeOK, IPAMInit, IPAMTypeOK, Row, Steps, Resting, NoAddr
<1>2. BusyInv
  BY DEF Init, BusyInv, Resting
<1>3. AddressesUnique
  BY DEF Init, IPAMInit, AddressesUnique
<1> QED BY <1>1, <1>2, <1>3 DEF IInv

\* Only the allocator's own steps can disturb it.
LEMMA AllocatorIdle ==
  ASSUME IPAMTypeOK, AddressesUnique, UNCHANGED ipamVars
  PROVE  IPAMTypeOK' /\ AddressesUnique'
BY DEF IPAMTypeOK, AddressesUnique, ipamVars

\* Every step of every handler, of the pruner and of a restart preserves IInv.
LEMMA Inductive == IInv /\ [Next]_vars => IInv'
<1> USE DEF Procs, Begin, Goto, Rest, Finish, Disturb, procVars, storeVars
<1> SUFFICES ASSUME IInv, [Next]_vars PROVE IInv'
  OBVIOUS
<1>1. TypeOK /\ IPAMTypeOK /\ BusyInv /\ AddressesUnique
  BY DEF IInv, TypeOK
<1>2. ASSUME NEW r \in Requests, NEW n \in Nodes, Register(r, n) PROVE IInv'
  <2>1. IPAMTypeOK' /\ AddressesUnique'
    BY <1>1, <1>2, AllocatorIdle DEF Register
  <2>2. TypeOK'
    BY <1>1, <2>1, <1>2 DEF TypeOK, BusyInv, Steps, Resting, Register, AfterLookup
  <2>3. BusyInv'
    BY <1>1, <1>2 DEF TypeOK, BusyInv, Resting, Register, AfterLookup
  <2> QED BY <2>1, <2>2, <2>3 DEF IInv
<1>3. ASSUME NEW r \in Procs, ReserveRow(r) PROVE IInv'
  <2>1. IPAMTypeOK' /\ AddressesUnique'
    BY <1>1, <1>3, AllocatorIdle, ReserveKeeps DEF ReserveRow
  <2>2. TypeOK'
    BY <1>1, <2>1, <1>3 DEF TypeOK, BusyInv, Steps, Resting, ReserveRow
  <2>3. BusyInv'
    BY <1>1, <1>3 DEF TypeOK, BusyInv, Resting, ReserveRow
  <2> QED BY <2>1, <2>2, <2>3 DEF IInv
<1>4. ASSUME NEW r \in Procs, AllocateAddr(r) PROVE IInv'
  <2>0. node[r] \in Nodes
    BY <1>1, <1>4 DEF BusyInv, Resting, AllocateAddr
  <2>1. IPAMTypeOK' /\ AddressesUnique'
    BY <1>1, <1>4, <2>0, AllocatorIdle, AllocateKeeps DEF AllocateAddr
  <2>2. TypeOK'
    BY <1>1, <2>0, <2>1, <1>4, AllocatesUsable DEF TypeOK, BusyInv, Steps, Resting, AllocateAddr
  <2>3. BusyInv'
    BY <1>1, <1>4 DEF TypeOK, BusyInv, Resting, AllocateAddr
  <2> QED BY <2>1, <2>2, <2>3 DEF IInv
<1>5. ASSUME NEW r \in Procs, Persist(r) PROVE IInv'
  <2>1. IPAMTypeOK' /\ AddressesUnique'
    BY <1>1, <1>5, AllocatorIdle, ReleaseKeeps DEF Persist
  <2>2. TypeOK'
    BY <1>1, <2>1, <1>5 DEF TypeOK, BusyInv, Steps, Resting, Persist
  <2>3. BusyInv'
    BY <1>1, <1>5 DEF TypeOK, BusyInv, Resting, Persist
  <2> QED BY <2>1, <2>2, <2>3 DEF IInv
<1>6. ASSUME NEW r \in Procs, Save(r) PROVE IInv'
  <2>1. IPAMTypeOK' /\ AddressesUnique'
    BY <1>1, <1>6, AllocatorIdle DEF Save
  <2>2. TypeOK'
    BY <1>1, <2>1, <1>6 DEF TypeOK, BusyInv, Steps, Resting, Save, Row
  <2>3. BusyInv'
    BY <1>1, <1>6 DEF TypeOK, BusyInv, Resting, Save, Row
  <2> QED BY <2>1, <2>2, <2>3 DEF IInv
<1>7. ASSUME NEW r \in Procs, CacheNode(r) PROVE IInv'
  <2>1. IPAMTypeOK' /\ AddressesUnique'
    BY <1>1, <1>7, AllocatorIdle DEF CacheNode
  <2>2. TypeOK'
    BY <1>1, <2>1, <1>7 DEF TypeOK, BusyInv, Steps, Resting, CacheNode, Row
  <2>3. BusyInv'
    BY <1>1, <1>7 DEF TypeOK, BusyInv, Resting, CacheNode, Row
  <2> QED BY <2>1, <2>2, <2>3 DEF IInv
<1>8. ASSUME NEW r \in Requests, NEW n \in Nodes, GetRoutes(r, n) PROVE IInv'
  <2>1. IPAMTypeOK' /\ AddressesUnique'
    BY <1>1, <1>8, AllocatorIdle DEF GetRoutes
  <2>2. TypeOK'
    BY <1>1, <2>1, <1>8 DEF TypeOK, BusyInv, Steps, Resting, GetRoutes
  <2>3. BusyInv'
    BY <1>1, <1>8 DEF TypeOK, BusyInv, Resting, GetRoutes
  <2> QED BY <2>1, <2>2, <2>3 DEF IInv
<1>9. ASSUME NEW r \in Procs, Repair(r) PROVE IInv'
  <2>1. IPAMTypeOK' /\ AddressesUnique'
    BY <1>1, <1>9, AllocatorIdle DEF Repair
  <2>2. TypeOK'
    BY <1>1, <2>1, <1>9 DEF TypeOK, BusyInv, Steps, Resting, Repair
  <2>3. BusyInv'
    BY <1>1, <1>9 DEF TypeOK, BusyInv, Resting, Repair
  <2> QED BY <2>1, <2>2, <2>3 DEF IInv
<1>10. ASSUME NEW r \in Procs, RepairLookup(r) PROVE IInv'
  <2>1. IPAMTypeOK' /\ AddressesUnique'
    BY <1>1, <1>10, AllocatorIdle DEF RepairLookup
  <2>2. TypeOK'
    BY <1>1, <2>1, <1>10 DEF TypeOK, BusyInv, Steps, Resting, RepairLookup, AfterLookup
  <2>3. BusyInv'
    BY <1>1, <1>10 DEF TypeOK, BusyInv, Resting, RepairLookup, AfterLookup
  <2> QED BY <2>1, <2>2, <2>3 DEF IInv
<1>11. ASSUME NEW r \in Requests, NEW n \in Nodes, Delete(r, n) PROVE IInv'
  <2>1. IPAMTypeOK' /\ AddressesUnique'
    BY <1>1, <1>11, AllocatorIdle DEF Delete
  <2>2. TypeOK'
    BY <1>1, <2>1, <1>11 DEF TypeOK, BusyInv, Steps, Resting, Delete, Row
  <2>3. BusyInv'
    BY <1>1, <1>11 DEF TypeOK, BusyInv, Resting, Delete, Row
  <2> QED BY <2>1, <2>2, <2>3 DEF IInv
<1>12. ASSUME NEW n \in Nodes, PruneStale(n) PROVE IInv'
  <2>1. IPAMTypeOK' /\ AddressesUnique'
    BY <1>1, <1>12, AllocatorIdle DEF PruneStale
  <2>2. TypeOK'
    BY <1>1, <2>1, <1>12 DEF TypeOK, BusyInv, Steps, Resting, PruneStale, Row
  <2>3. BusyInv'
    BY <1>1, <1>12 DEF TypeOK, BusyInv, Resting, PruneStale, Row
  <2> QED BY <2>1, <2>2, <2>3 DEF IInv
<1>13. ASSUME NEW q \in Procs, DeleteNode(q) PROVE IInv'
  <2>1. IPAMTypeOK' /\ AddressesUnique'
    BY <1>1, <1>13, AllocatorIdle DEF DeleteNode
  <2>2. TypeOK'
    BY <1>1, <2>1, <1>13 DEF TypeOK, BusyInv, Steps, Resting, DeleteNode, Row
  <2>3. BusyInv'
    BY <1>1, <1>13 DEF TypeOK, BusyInv, Resting, DeleteNode, Row
  <2> QED BY <2>1, <2>2, <2>3 DEF IInv
<1>14. ASSUME NEW n \in Nodes, PruneRelease(n) PROVE IInv'
  <2>1. IPAMTypeOK' /\ AddressesUnique'
    BY <1>1, <1>14, AllocatorIdle DEF PruneRelease
  <2>2. TypeOK'
    BY <1>1, <2>1, <1>14 DEF TypeOK, BusyInv, Steps, Resting, PruneRelease
  <2>3. BusyInv'
    BY <1>1, <1>14 DEF TypeOK, BusyInv, Resting, PruneRelease
  <2> QED BY <2>1, <2>2, <2>3 DEF IInv
<1>15. ASSUME NEW q \in Procs, ReleaseAddr(q) PROVE IInv'
  <2>1. IPAMTypeOK' /\ AddressesUnique'
    BY <1>1, <1>15, ReleaseKeeps DEF ReleaseAddr
  <2>2. TypeOK'
    BY <1>1, <2>1, <1>15 DEF TypeOK, BusyInv, Steps, Resting, ReleaseAddr
  <2>3. BusyInv'
    BY <1>1, <1>15 DEF TypeOK, BusyInv, Resting, ReleaseAddr
  <2> QED BY <2>1, <2>2, <2>3 DEF IInv
<1>16. ASSUME NEW q \in Procs, DeleteRow(q) PROVE IInv'
  <2>1. IPAMTypeOK' /\ AddressesUnique'
    BY <1>1, <1>16, AllocatorIdle DEF DeleteRow
  <2>2. TypeOK'
    BY <1>1, <2>1, <1>16 DEF TypeOK, BusyInv, Steps, Resting, DeleteRow
  <2>3. BusyInv'
    BY <1>1, <1>16 DEF TypeOK, BusyInv, Resting, DeleteRow
  <2> QED BY <2>1, <2>2, <2>3 DEF IInv
<1>17. ASSUME NEW r \in Requests, NEW n \in Nodes, Heartbeat(r, n) PROVE IInv'
  <2>1. IPAMTypeOK' /\ AddressesUnique'
    BY <1>1, <1>17, AllocatorIdle DEF Heartbeat
  <2>2. TypeOK'
    BY <1>1, <2>1, <1>17 DEF TypeOK, BusyInv, Steps, Resting, Heartbeat, Row
  <2>3. BusyInv'
    BY <1>1, <1>17 DEF TypeOK, BusyInv, Resting, Heartbeat, Row
  <2> QED BY <2>1, <2>2, <2>3 DEF IInv
<1>18. ASSUME NEW r \in Procs, Load(r) PROVE IInv'
  <2>1. IPAMTypeOK' /\ AddressesUnique'
    BY <1>1, <1>18, AllocatorIdle DEF Load
  <2>2. TypeOK'
    BY <1>1, <2>1, <1>18 DEF TypeOK, BusyInv, Steps, Resting, Load, Row
  <2>3. BusyInv'
    BY <1>1, <1>18 DEF TypeOK, BusyInv, Resting, Load, Row
  <2> QED BY <2>1, <2>2, <2>3 DEF IInv
<1>19. ASSUME NEW r \in Procs, Fill(r) PROVE IInv'
  <2>1. IPAMTypeOK' /\ AddressesUnique'
    BY <1>1, <1>19, AllocatorIdle DEF Fill
  <2>2. TypeOK'
    BY <1>1, <2>1, <1>19 DEF TypeOK, BusyInv, Steps, Resting, Fill, Row
  <2>3. BusyInv'
    BY <1>1, <1>19 DEF TypeOK, BusyInv, Resting, Fill, Row
  <2> QED BY <2>1, <2>2, <2>3 DEF IInv
<1>20. ASSUME NEW r \in Procs, Beat(r) PROVE IInv'
  <2>1. IPAMTypeOK' /\ AddressesUnique'
    BY <1>1, <1>20, AllocatorIdle DEF Beat
  <2>2. TypeOK'
    BY <1>1, <2>1, <1>20 DEF TypeOK, BusyInv, Steps, Resting, Beat, Row
  <2>3. BusyInv'
    BY <1>1, <1>20 DEF TypeOK, BusyInv, Resting, Beat, Row
  <2> QED BY <2>1, <2>2, <2>3 DEF IInv
<1>21. ASSUME CrashRestart PROVE IInv'
  <2>1. IPAMTypeOK' /\ AddressesUnique'
    BY <1>1, <1>21, RestartKeeps
  <2>2. TypeOK'
    BY <1>1, <2>1, <1>21 DEF TypeOK, CrashRestart, Steps, Resting, Restorable
  <2>3. BusyInv'
    BY <1>21 DEF CrashRestart, BusyInv, Resting
  <2> QED BY <2>1, <2>2, <2>3 DEF IInv
<1>22. ASSUME UNCHANGED vars PROVE IInv'
  BY <1>1, <1>22 DEF IInv, TypeOK, IPAMTypeOK, AddressesUnique, BusyInv, vars, ipamVars
<1>23. ASSUME NEW q \in Procs, Evict(q) PROVE IInv'
  <2>1. IPAMTypeOK' /\ AddressesUnique'
    BY <1>1, <1>23, AllocatorIdle DEF Evict
  <2>2. TypeOK'
    BY <1>1, <2>1, <1>23 DEF TypeOK, BusyInv, Steps, Resting, Evict, Row
  <2>3. BusyInv'
    BY <1>1, <1>23 DEF TypeOK, BusyInv, Resting, Evict, Row
  <2> QED BY <2>1, <2>2, <2>3 DEF IInv
<1> QED
  BY <1>2, <1>3, <1>4, <1>5, <1>6, <1>7, <1>8, <1>9, <1>10, <1>11,
     <1>12, <1>13, <1>14, <1>15, <1>16, <1>17, <1>18, <1>19, <1>20, <1>21, <1>22,
     <1>23
  DEF Next, Continue

\* IInv holds in every reachable state.
THEOREM Invariance == Spec => []IInv
BY InitInv, Inductive, PTL DEF Spec

\* Every variable keeps its type; in particular only usable addresses are ever
\* assigned, never the network, broadcast or gateway address.
THEOREM TypeCorrect == Spec => []TypeOK
<1>1. IInv => TypeOK
  BY DEF IInv
<1> QED BY <1>1, Invariance, PTL

\* The allocator never holds one address for two nodes, whatever races, failed
\* writes and crashes the server goes through.
THEOREM UniqueAddresses == Spec => []AddressesUnique
<1>1. IInv => AddressesUnique
  BY DEF IInv
<1> QED BY <1>1, Invariance, PTL

-------------------------------------------------------------------------------
(* The four places agree about every node that is not disturbed: what each   *)
(* process working on it knows of it, and what a deletion that is under way  *)
(* has already taken back.                                                   *)

LeaveSteps == {"evict", "delete", "release", "unrow"}

\* A resting process has no node, and a server that is down stays down.
RestInv == \A q \in Procs : step[q] \in Resting => node[q] = Absent /\ q \notin repairing
DownInv == ~up => ~Restorable /\ \A q \in Procs : step[q] = "idle"

\* What process q can rely on between two of its accesses.
Knows(q) ==
  LET n == node[q] IN
  /\ step[q] = "reserve" => addr[q] # NoAddr /\ addr[q] = ips[n]
  /\ step[q] = "persist" => addr[q] # NoAddr /\ addr[q] = allocated[n]
  /\ step[q] \in {"save", "cache"} => addr[q] # NoAddr /\ addr[q] = ips[n]
  /\ step[q] \in {"fill", "beat"} => addr[q] \in {NoAddr, ips[n]}
  /\ step[q] \in {"cache", "fill", "beat"} \/ q \in repairing => saved[n] # Absent
  /\ step[q] \in {"delete", "release", "unrow"} => cache[n] = Absent
  /\ step[q] \in {"release", "unrow"} => saved[n] = Absent
  /\ step[q] = "unrow" => allocated[n] = NoAddr
  /\ step[q] \in LeaveSteps => Alone(q) /\ n \notin batch /\ q \notin repairing

\* How the four places stand to each other; an address nobody has saved belongs
\* to a registration in progress or to a node that is leaving.
PlacesAgree(n) ==
  /\ ips[n] \in {NoAddr, allocated[n]} \/ \E q \in Procs : node[q] = n /\ step[q] = "unrow"
  /\ saved[n] \in {Absent, NoAddr, ips[n]}
  /\ cache[n] \in {Absent, NoAddr, ips[n]}
  /\ cache[n] # Absent => saved[n] # Absent
  /\ n \in batch => cache[n] = Absent /\ saved[n] = Absent /\ \A q \in Procs : node[q] # n
  /\ saved[n] = Absent /\ allocated[n] # NoAddr =>
       Leaving(n) \/ \E q \in Procs : node[q] = n /\ step[q] \in {"persist", "save"}

AgreeInv ==
  up => /\ \A n \in Nodes \ disturbed : PlacesAgree(n)
        /\ \A q \in Procs : node[q] \in Nodes \ disturbed => Knows(q)

Agreed == RestInv /\ DownInv /\ AgreeInv
AllInv == IInv /\ Agreed

LEMMA Marks ==
  NoAddr \notin Usable /\ Absent \notin Usable /\ Absent # NoAddr /\ Absent \notin Nodes
BY DEF Usable, NoAddr

LEMMA AgreeInit == Init => AllInv
<1> SUFFICES ASSUME Init PROVE AllInv
  OBVIOUS
<1>1. RestInv /\ DownInv
  BY DEF Init, RestInv, DownInv
<1>2. AgreeInv
  BY Marks DEF Init, IPAMInit, AgreeInv, PlacesAgree, Knows
<1> QED BY <1>1, <1>2, InitInv DEF AllInv, Agreed

\* AssignNode, for a registration or a repair.
LEMMA AssignAgrees ==
  ASSUME IInv, Agreed,
         NEW p \in Procs,
         \/ ReserveRow(p) \/ AllocateAddr(p) \/ Persist(p) \/ Save(p) \/ CacheNode(p)
         \/ Repair(p) \/ RepairLookup(p)
  PROVE  Agreed'
<1> USE Marks, PrunerAssumption
        DEF Procs, Begin, Goto, Rest, Finish, Disturb, procVars, storeVars, ipamVars, Resting,
            LeaveSteps, Leaving, InProgress, Alone, AfterLookup, Reserve, Reservable, Allocate,
            Exhausted, Release, FirstFree, Free, IInv, TypeOK, IPAMTypeOK, BusyInv, Agreed,
            RestInv, DownInv, AgreeInv, PlacesAgree, Knows, Row, Steps, Restorable,
            AddressesUnique
<1>1. ASSUME NEW q \in Procs, ReserveRow(q) PROVE Agreed'
  BY <1>1 DEF ReserveRow
<1>2. ASSUME NEW q \in Procs, AllocateAddr(q) PROVE Agreed'
  BY SMTT(30), <1>2 DEF AllocateAddr
<1>3. ASSUME NEW q \in Procs, Persist(q) PROVE Agreed'
  BY SMTT(30), <1>3 DEF Persist
<1>4. ASSUME NEW q \in Procs, Save(q) PROVE Agreed'
  BY <1>4 DEF Save
<1>5. ASSUME NEW q \in Procs, CacheNode(q) PROVE Agreed'
  BY <1>5 DEF CacheNode
<1>6. ASSUME NEW q \in Procs, Repair(q) PROVE Agreed'
  BY <1>6 DEF Repair
<1>7. ASSUME NEW q \in Procs, RepairLookup(q) PROVE Agreed'
  BY <1>7 DEF RepairLookup
<1> HIDE DEF Agreed
<1> QED BY <1>1, <1>2, <1>3, <1>4, <1>5, <1>6, <1>7

\* A deletion takes the four places back one after the other.
LEMMA LeavingAgrees ==
  ASSUME IInv, Agreed,
         \/ \E p \in Procs : Evict(p) \/ DeleteNode(p) \/ ReleaseAddr(p) \/ DeleteRow(p)
         \/ \E m \in Nodes : PruneStale(m) \/ PruneRelease(m)
  PROVE  Agreed'
<1> USE Marks, PrunerAssumption
        DEF Procs, Begin, Goto, Rest, Finish, Disturb, procVars, storeVars, ipamVars, Resting,
            LeaveSteps, Leaving, InProgress, Alone, AfterLookup, Reserve, Reservable, Allocate,
            Exhausted, Release, FirstFree, Free, IInv, TypeOK, IPAMTypeOK, BusyInv, Agreed,
            RestInv, DownInv, AgreeInv, PlacesAgree, Knows, Row, Steps, Restorable,
            AddressesUnique
<1>1. ASSUME NEW q \in Procs, Evict(q) PROVE Agreed'
  BY <1>1 DEF Evict
<1>2. ASSUME NEW q \in Procs, DeleteNode(q) PROVE Agreed'
  <2> DEFINE n == node[q]
  <2>1. /\ n \in Nodes /\ step[q] = "delete" /\ up /\ disturbed \subseteq disturbed'
        /\ UNCHANGED <<allocated, nextHost, ips, cache, up>>
    BY <1>2 DEF DeleteNode
  <2>2. n \notin disturbed => cache[n] = Absent /\ Alone(q) /\ n \notin batch
    BY <2>1
  <2>3. CASE q = Pruner /\ saved' = [saved EXCEPT ![n] = Absent]
    BY <1>2, <2>1, <2>3 DEF DeleteNode
  <2>4. CASE q = Pruner /\ UNCHANGED saved /\ Disturb(n, TRUE)
    BY <1>2, <2>1, <2>4 DEF DeleteNode
  <2>5. CASE q # Pruner /\ saved'[n] = Absent /\ Goto(q, "release")
    <3>1. saved' = [saved EXCEPT ![n] = Absent]
      <4>1. saved = [m \in Nodes |-> saved[m]]
        OBVIOUS
      <4>2. UNCHANGED saved => saved' = [saved EXCEPT ![n] = Absent]
        BY <2>1, <2>5, <4>1
      <4>3. saved' = [saved EXCEPT ![n] = Absent] \/ UNCHANGED saved
        BY <1>2 DEF DeleteNode
      <4> QED BY <4>2, <4>3
    <3>2. RestInv' /\ DownInv'
      BY <2>1, <2>5
    <3>3. \A m \in Nodes \ disturbed' : PlacesAgree(m)'
      BY <2>1, <2>2, <2>5, <3>1
    <3>4. \A p \in Procs : node'[p] \in Nodes \ disturbed' => Knows(p)'
      BY <2>1, <2>2, <2>5, <3>1
    <3> QED BY <3>2, <3>3, <3>4
  <2>6. CASE q # Pruner /\ UNCHANGED saved /\ saved[n] # Absent /\ Finish(q)
    BY <2>1, <2>2, <2>6
  <2> QED BY <1>2, <2>1, <2>3, <2>4, <2>5, <2>6 DEF DeleteNode
<1>3. ASSUME NEW q \in Procs, ReleaseAddr(q) PROVE Agreed'
  BY <1>3 DEF ReleaseAddr
<1>4. ASSUME NEW q \in Procs, DeleteRow(q) PROVE Agreed'
  BY <1>4 DEF DeleteRow
<1>5. ASSUME NEW n \in Nodes, PruneStale(n) PROVE Agreed'
  BY <1>5 DEF PruneStale
<1>6. ASSUME NEW n \in Nodes, PruneRelease(n) PROVE Agreed'
  BY <1>6 DEF PruneRelease
<1> HIDE DEF Agreed
<1> QED BY <1>1, <1>2, <1>3, <1>4, <1>5, <1>6

\* A request begins, or a heartbeat goes on.
LEMMA RequestAgrees ==
  ASSUME IInv, Agreed,
         \/ \E r \in Requests, n \in Nodes :
              Register(r, n) \/ GetRoutes(r, n) \/ Delete(r, n) \/ Heartbeat(r, n)
         \/ \E p \in Procs : Load(p) \/ Fill(p) \/ Beat(p)
  PROVE  Agreed'
<1> USE Marks, PrunerAssumption
        DEF Procs, Begin, Goto, Rest, Finish, Disturb, procVars, storeVars, ipamVars, Resting,
            LeaveSteps, Leaving, InProgress, Alone, AfterLookup, Reserve, Reservable, Allocate,
            Exhausted, Release, FirstFree, Free, IInv, TypeOK, IPAMTypeOK, BusyInv, Agreed,
            RestInv, DownInv, AgreeInv, PlacesAgree, Knows, Row, Steps, Restorable,
            AddressesUnique
<1>1. ASSUME NEW r \in Requests, NEW n \in Nodes, Register(r, n) PROVE Agreed'
  BY <1>1 DEF Register
<1>2. ASSUME NEW r \in Requests, NEW n \in Nodes, GetRoutes(r, n) PROVE Agreed'
  BY <1>2 DEF GetRoutes
<1>3. ASSUME NEW r \in Requests, NEW n \in Nodes, Delete(r, n) PROVE Agreed'
  BY <1>3 DEF Delete
<1>4. ASSUME NEW r \in Requests, NEW n \in Nodes, Heartbeat(r, n) PROVE Agreed'
  <2>1. CASE cache[n] # Absent /\ Begin(r, n, cache[n], "beat")
    BY <1>4, <2>1 DEF Heartbeat
  <2>2. CASE cache[n] = Absent /\ Begin(r, n, NoAddr, "load")
    BY <1>4, <2>2 DEF Heartbeat
  <2> QED BY <1>4, <2>1, <2>2 DEF Heartbeat
<1>5. ASSUME NEW q \in Procs, Load(q) PROVE Agreed'
  BY SMTT(30), <1>5 DEF Load
<1>6. ASSUME NEW q \in Procs, Fill(q) PROVE Agreed'
  BY <1>6 DEF Fill
<1>7. ASSUME NEW q \in Procs, Beat(q) PROVE Agreed'
  BY <1>7 DEF Beat
<1> HIDE DEF Agreed
<1> QED BY <1>1, <1>2, <1>3, <1>4, <1>5, <1>6, <1>7

\* A restart builds the memory from the tables, which agree about every node
\* that nobody was working on.
LEMMA RestartAgrees ==
  ASSUME IInv, Agreed, CrashRestart
  PROVE  Agreed'
<1> USE DEF Agreed
<1>1. RestInv' /\ DownInv'
  BY DEF CrashRestart, RestInv, DownInv, Restorable, Resting, storeVars, Procs
<1>2. ASSUME up', NEW n \in Nodes, n \notin disturbed' PROVE PlacesAgree(n)'
  <2>1. up /\ n \notin disturbed /\ ~InProgress(n)
    BY <1>2, Marks DEF CrashRestart, DownInv
  <2>2. PlacesAgree(n) /\ \A q \in Procs : node[q] # n
    BY <1>2, <2>1 DEF AgreeInv, InProgress
  <2>3. /\ allocated'[n] = ips[n] /\ cache'[n] = saved[n]
        /\ UNCHANGED <<ips, saved>> /\ batch' = {}
    BY <1>2 DEF CrashRestart, storeVars
  <2>4. ips[n] \in {NoAddr, allocated[n]} /\ saved[n] \in {Absent, NoAddr, ips[n]}
        /\ (saved[n] = Absent => allocated[n] = NoAddr)
    BY <2>1, <2>2 DEF PlacesAgree, Leaving, InProgress
  <2> QED BY <2>3, <2>4 DEF PlacesAgree
<1>3. \A q \in Procs : node'[q] \notin Nodes
  BY Marks DEF CrashRestart
<1>4. AgreeInv'
  BY <1>2, <1>3 DEF AgreeInv
<1> QED BY <1>1, <1>4

LEMMA AgreeInductive == AllInv /\ [Next]_vars => AllInv'
<1> SUFFICES ASSUME AllInv, [Next]_vars PROVE AllInv'
  OBVIOUS
<1>1. IInv /\ Agreed /\ IInv'
  BY Inductive DEF AllInv
<1>2. CASE Next
  <2>1. ASSUME NEW q \in Procs, Continue(q) PROVE AllInv'
    BY <1>1, <2>1, AssignAgrees, LeavingAgrees, RequestAgrees DEF Continue, AllInv
  <2> QED
    BY <1>1, <1>2, <2>1, LeavingAgrees, RequestAgrees, RestartAgrees DEF Next, AllInv
<1>3. CASE UNCHANGED vars
  <2>1. Agreed'
    BY <1>1, <1>3
    DEF Agreed, RestInv, DownInv, AgreeInv, PlacesAgree, Knows, Leaving, Alone, Restorable, vars,
        ipamVars, storeVars, procVars
  <2> QED BY <1>1, <2>1 DEF AllInv
<1> QED BY <1>2, <1>3

THEOREM Agreement == Spec => []AllInv
BY AgreeInit, AgreeInductive, PTL DEF Spec

\* A registered node that is in nobody's hands has its address in all four
\* places, for any numbers of nodes and handlers.
THEOREM RegisteredAgreement == Spec => []RegisteredAgrees
<1>1. AllInv => RegisteredAgrees
  <2> SUFFICES ASSUME AllInv, NEW n \in Nodes, up, n \notin disturbed, ~InProgress(n), HasAddr(n)
               PROVE  /\ allocated[n] = cache[n] /\ ips[n] = cache[n]
                      /\ saved[n] \in {cache[n], NoAddr}
    BY DEF RegisteredAgrees
  <2>1. PlacesAgree(n)
    BY DEF AllInv, Agreed, AgreeInv
  <2> QED BY <2>1, Marks DEF PlacesAgree, InProgress, HasAddr
<1> QED BY <1>1, Agreement, PTL

\* Where the cache has an address for a node, table and allocator have it too.
LEMMA CachedIsAllocated ==
  ASSUME AllInv, NEW n \in Nodes, up, n \notin disturbed, HasAddr(n)
  PROVE  cache[n] = ips[n] /\ cache[n] = allocated[n]
<1>1. PlacesAgree(n) /\ \A q \in Procs : node[q] = n => Knows(q)
  BY DEF AllInv, Agreed, AgreeInv
<1>2. \A q \in Procs : ~(node[q] = n /\ step[q] = "unrow")
  BY <1>1, Marks DEF Knows, HasAddr
<1> QED BY <1>1, <1>2, Marks DEF PlacesAgree, HasAddr

\* No two nodes in use ever share an address.
THEOREM LiveDistinct == Spec => []LiveAddressesDistinct
<1>1. AllInv => LiveAddressesDistinct
  BY CachedIsAllocated, Marks DEF LiveAddressesDistinct, AllInv, IInv, AddressesUnique, HasAddr
<1> QED BY <1>1, Agreement, PTL

\* A node that is gone and in nobody's hands holds no address anywhere.
THEOREM GoneReleased == Spec => []GoneIsReleased
<1>1. AllInv => GoneIsReleased
  <2> SUFFICES ASSUME AllInv, NEW n \in Nodes, up, n \notin disturbed, ~InProgress(n),
                      saved[n] = Absent
               PROVE  cache[n] = Absent /\ allocated[n] = NoAddr /\ ips[n] = NoAddr
    BY DEF GoneIsReleased
  <2>1. PlacesAgree(n)
    BY DEF AllInv, Agreed, AgreeInv
  <2> QED BY <2>1 DEF PlacesAgree, InProgress, Leaving
<1> QED BY <1>1, Agreement, PTL

\* A registered node keeps its address, whatever it asks for and across crashes:
\* its row of ip_allocations changes only when it has none or gives it back.
THEOREM Sticky == Spec => AddressSticky
<1>1. ASSUME AllInv, AllInv', [Next]_vars, NEW n \in Nodes,
             HasAddr(n), cache'[n] \in Usable, n \notin disturbed', up'
      PROVE  cache'[n] = cache[n]
  <2>1. up /\ n \notin disturbed
    <3>1. up \/ ~up'
      BY <1>1
      DEF AllInv, Agreed, DownInv, Next, Continue, CrashRestart, Register, GetRoutes, Delete,
          Heartbeat, Begin, PruneStale, PruneRelease, ReserveRow, AllocateAddr, Persist, Save,
          CacheNode, Repair, RepairLookup, Evict, DeleteNode, ReleaseAddr, DeleteRow, Load,
          Fill, Beat, Procs, vars
    <3>2. disturbed \subseteq disturbed'
      BY <1>1
      DEF Next, Continue, CrashRestart, Register, GetRoutes, Delete, Heartbeat, Disturb,
          PruneStale, PruneRelease, ReserveRow, AllocateAddr, Persist, Save, CacheNode,
          Repair, RepairLookup, Evict, DeleteNode, ReleaseAddr, DeleteRow, Load, Fill, Beat, vars
    <3> QED BY <1>1, <3>1, <3>2
  <2>2. cache[n] = ips[n] /\ cache[n] = allocated[n]
    BY <1>1, <2>1, CachedIsAllocated
  <2>3. cache'[n] = ips'[n]
    <3>1. PlacesAgree(n)'
      BY <1>1 DEF AllInv, Agreed, AgreeInv
    <3> QED BY <1>1, <3>1, Marks DEF PlacesAgree
  <2>4. ips'[n] \in {ips[n], NoAddr}
    <3>1. CASE \E q \in Procs : Persist(q)
      <4> PICK q \in Procs : Persist(q)
        BY <3>1
      <4>1. node[q] = n => Knows(q)
        BY <1>1, <2>1 DEF AllInv, Agreed, AgreeInv
      <4>2. node[q] = n => addr[q] = ips[n]
        BY <2>2, <4>1 DEF Knows, Persist
      <4> QED BY <1>1, <4>2 DEF Persist, AllInv, IInv, TypeOK
    <3>2. CASE \E q \in Procs : DeleteRow(q)
      BY <1>1, <3>2 DEF DeleteRow, AllInv, IInv, TypeOK
    <3>3. CASE UNCHANGED ips
      BY <3>3
    <3>4. \/ UNCHANGED ips
          \/ \E q \in Procs : Persist(q) \/ DeleteRow(q)
      BY <1>1
      DEF Next, Continue, CrashRestart, Register, GetRoutes, Delete, Heartbeat,
          PruneStale, PruneRelease, ReserveRow, AllocateAddr, Save, CacheNode,
          Repair, RepairLookup, Evict, DeleteNode, ReleaseAddr, Load, Fill, Beat, vars, storeVars
    <3> QED BY <3>1, <3>2, <3>3, <3>4
  <2> QED BY <1>1, <2>2, <2>3, <2>4, Marks
<1>2. AllInv /\ AllInv' /\ [Next]_vars =>
        [\A n \in Nodes : HasAddr(n) /\ cache'[n] \in Usable /\ n \notin disturbed' /\ up' =>
                            cache'[n] = cache[n]]_vars
  BY <1>1
<1> QED BY <1>2, Agreement, PTL DEF Spec, AddressSticky
===============================================================================
