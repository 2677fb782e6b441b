---------------------------- MODULE PathScheduler -----------------------------
(***************************************************************************)
(* The scheduler of network paths                                          *)
(* (desktop/internal/scheduler/scheduler.go, policy.go).  The paths, the   *)
(* active path, the locked one and the time of the last switch are         *)
(* variables of their own, each read and written atomically and no two     *)
(* together: a call is a sequence of such steps, and the evaluation loop   *)
(* is a caller like any other.  The score is left out: the best of the     *)
(* paths that are not unavailable is one of them.                          *)
(***************************************************************************)
EXTENDS FiniteSets, TLAPS

CONSTANTS
  Ids,        \* paths
  Callers,    \* goroutines that call the scheduler
  Loop,       \* the goroutine of evalLoop
  None        \* no path

\* What the constants must satisfy; the MC module assumes it.
NoneAssumption == None \notin Ids

VARIABLES
  paths,      \* s.paths: the registered paths
  down,       \* paths whose State is unavailable
  lossy,      \* paths whose Metrics say more than LossThreshold
  active,     \* s.activePath
  locked,     \* s.lockedID
  cooling,    \* s.lastSwitch is less than SwitchCooldown ago
  running,    \* the loop has been started and its context is not done
  heard,      \* the path of the last OnPathChange call
  call,       \* call[c]: the next step of c and the path it is about
  overlapped  \* history: two calls ran at a time

quality == <<down, lossy>>
vars == <<paths, quality, active, locked, cooling, running, heard, call, overlapped>>

Idle == [pc |-> "idle", path |-> None]
Threads == Callers \cup {Loop}
Pcs == {"idle", "first", "clear", "lock", "activate", "evaluate", "switch", "store"}
CallRecord == [pc : Pcs, path : Ids \cup {None}]

TypeOK ==
  /\ paths \subseteq Ids /\ down \subseteq Ids /\ lossy \subseteq Ids
  /\ active \in Ids \cup {None} /\ locked \in Ids \cup {None}
  /\ heard \in Ids \cup {None}
  /\ cooling \in BOOLEAN /\ running \in BOOLEAN /\ overlapped \in BOOLEAN
  /\ call \in [Threads -> CallRecord]

Init ==
  /\ paths = {} /\ down = {} /\ lossy = {}
  /\ active = None /\ locked = None /\ heard = None
  /\ cooling = FALSE /\ running = FALSE
  /\ call = [c \in Threads |-> Idle]
  /\ overlapped = FALSE

\* What RankPaths ranks.
Ranked == paths \ down
\* The results Evaluate may have.
Best == IF locked \in paths THEN {locked}
        ELSE IF Ranked = {} THEN {None} ELSE Ranked

Begin(c, next, p) ==
  /\ call[c] = Idle
  /\ call' = [call EXCEPT ![c] = [pc |-> next, path |-> p]]
  /\ overlapped' = (overlapped \/ \E d \in Threads \ {c} : call[d] # Idle)
At(c, here) == call[c].pc = here
Goto(c, next) == call' = [call EXCEPT ![c].pc = next]
Return(c) == call' = [call EXCEPT ![c] = Idle]

RegisterPath(c, p) ==
  /\ Begin(c, "first", p)
  /\ paths' = paths \cup {p}
  /\ lossy' = lossy \ {p} /\ down' = down \ {p}
  /\ UNCHANGED <<active, locked, cooling, running, heard>>

\* The first path becomes the active one.
FirstPath(c) ==
  /\ At(c, "first")
  /\ active' = IF active = None THEN call[c].path ELSE active
  /\ Return(c)
  /\ UNCHANGED <<paths, quality, locked, cooling, running, heard, overlapped>>

UnregisterPath(c, p) ==
  /\ Begin(c, "clear", p)
  /\ paths' = paths \ {p}
  /\ UNCHANGED <<quality, active, locked, cooling, running, heard>>

\* What Evaluate says is not used.
ClearActive(c) ==
  /\ At(c, "clear")
  /\ active' = IF active = call[c].path THEN None ELSE active
  /\ Return(c)
  /\ UNCHANGED <<paths, quality, locked, cooling, running, heard, overlapped>>

LockPath(c, p) ==
  /\ p \in paths
  /\ Begin(c, "lock", p)
  /\ UNCHANGED <<paths, quality, active, locked, cooling, running, heard>>

StoreLock(c) ==
  /\ At(c, "lock")
  /\ locked' = call[c].path
  /\ Goto(c, "activate")
  /\ UNCHANGED <<paths, quality, active, cooling, running, heard, overlapped>>

ActivateLocked(c) ==
  /\ At(c, "activate")
  /\ active' = call[c].path
  /\ Return(c)
  /\ UNCHANGED <<paths, quality, locked, cooling, running, heard, overlapped>>

UnlockPath(c) ==
  /\ call[c] = Idle
  /\ locked' = None
  /\ UNCHANGED <<paths, quality, active, cooling, running, heard, call, overlapped>>

-------------------------------------------------------------------------------
(* SwitchTo, called by a user or by the loop.                              *)

SwitchTo(c, p) ==
  /\ Begin(c, "switch", p)
  /\ UNCHANGED <<paths, quality, active, locked, cooling, running, heard>>

\* Mutant: the path is not looked up.
CheckSwitchUnregistered(c) ==
  /\ At(c, "switch")
  /\ IF active # call[c].path /\ ~cooling THEN Goto(c, "store") ELSE Return(c)
  /\ UNCHANGED <<paths, quality, active, locked, cooling, running, heard, overlapped>>

\* The path is loaded, the active one and the cooldown are looked at.
CheckSwitch(c) ==
  /\ At(c, "switch")
  /\ IF call[c].path \in paths /\ active # call[c].path /\ ~cooling
     THEN Goto(c, "store") ELSE Return(c)
  /\ UNCHANGED <<paths, quality, active, locked, cooling, running, heard, overlapped>>

StoreSwitch(c) ==
  /\ At(c, "store")
  /\ active' = call[c].path
  /\ cooling' = TRUE
  /\ heard' = call[c].path
  /\ Return(c)
  /\ UNCHANGED <<paths, quality, locked, running, overlapped>>

CooldownOver ==
  /\ cooling
  /\ cooling' = FALSE
  /\ UNCHANGED <<paths, quality, active, locked, running, heard, call, overlapped>>

-------------------------------------------------------------------------------
(* The evaluation loop.                                                    *)

Start ==
  /\ ~running /\ call[Loop] = Idle
  /\ running' = TRUE
  /\ UNCHANGED <<paths, quality, active, locked, cooling, heard, call, overlapped>>

Stop ==
  /\ running
  /\ running' = FALSE
  /\ UNCHANGED <<paths, quality, active, locked, cooling, heard, call, overlapped>>

\* A tick reads the active path and, through its prober, what it loses.
Tick ==
  /\ running /\ locked = None
  /\ Begin(Loop, "evaluate", active)
  /\ \E bad \in BOOLEAN :
       lossy' = IF active = None THEN lossy
                ELSE IF bad THEN lossy \cup {active} ELSE lossy \ {active}
  /\ UNCHANGED <<paths, down, active, locked, cooling, running, heard>>

Evaluate ==
  /\ At(Loop, "evaluate")
  /\ LET was == call[Loop].path
     IN \E best \in Best :
          call' = IF (was = None \/ was \in lossy) /\ best \notin {None, was}
                  THEN [call EXCEPT ![Loop] = [pc |-> "switch", path |-> best]]
                  ELSE [call EXCEPT ![Loop] = Idle]
  /\ UNCHANGED <<paths, quality, active, locked, cooling, running, heard, overlapped>>

\* Whoever owns the path marks it.
SetState(p) ==
  /\ p \in paths
  /\ down' = (down \ {p}) \cup ({p} \ down)
  /\ UNCHANGED <<paths, lossy, active, locked, cooling, running, heard, call, overlapped>>

-------------------------------------------------------------------------------
Call(c) ==
  \/ \E p \in Ids : \/ RegisterPath(c, p) \/ UnregisterPath(c, p)
                    \/ LockPath(c, p) \/ SwitchTo(c, p)
  \/ UnlockPath(c)
  \/ FirstPath(c) \/ ClearActive(c) \/ StoreLock(c) \/ ActivateLocked(c)

Next ==
  \/ \E c \in Callers : Call(c)
  \/ \E c \in Threads : CheckSwitch(c) \/ StoreSwitch(c)
  \/ CooldownOver \/ Start \/ Stop \/ Tick \/ Evaluate
  \/ \E p \in Ids : SetState(p)

Spec == Init /\ [][Next]_vars

-------------------------------------------------------------------------------
\* Traffic goes to a registered path: between calls that did not overlap the
\* active path is registered or there is none, whoever switched, locked,
\* registered or withdrew paths before (RegisterPath, UnregisterPath,
\* LockPath, SwitchTo, autoEvaluate).
ActiveIsRegistered ==
  ~overlapped /\ (\A c \in Threads : call[c] = Idle) =>
    active \in paths \cup {None}

-------------------------------------------------------------------------------
(* ActiveIsRegistered proved for any paths and callers.                    *)

CallInv ==
  /\ call \in [Threads -> CallRecord] /\ overlapped \in BOOLEAN
  /\ paths \subseteq Ids /\ active \in Ids \cup {None}

\* What a lone call knows: the active path is registered, or it is the one the
\* call is taking out; what it is about to make active is registered.
Alone == \A c, d \in Threads : call[c] # Idle /\ call[d] # Idle => c = d
Knows(c) ==
  /\ ~At(c, "clear") => active \in paths \cup {None}
  /\ At(c, "clear") => active \in paths \cup {None, call[c].path}
  /\ call[c].pc \in {"first", "lock", "activate", "store"} => call[c].path \in paths
LoneInv ==
  ~overlapped =>
    /\ Alone
    /\ \A c \in Threads : call[c] # Idle => Knows(c)
    /\ (\A c \in Threads : call[c] = Idle) => active \in paths \cup {None}

IInv == CallInv /\ LoneInv

LEMMA InitInv == Init => IInv
<1> SUFFICES ASSUME Init PROVE IInv
  OBVIOUS
<1>1. Idle \in CallRecord
  BY DEF Idle, CallRecord, Pcs
<1>2. CallInv
  BY <1>1 DEF Init, CallInv
<1> QED BY <1>2 DEF Init, IInv, LoneInv, Alone

\* The steps that begin a call: it is alone, or calls overlap.
LEMMA BeginKeeps ==
  ASSUME IInv, NEW c \in Threads, NEW next \in Pcs \ {"idle"}, NEW p \in Ids \cup {None},
         Begin(c, next, p), active' = active, paths' \subseteq Ids, paths \subseteq paths' \cup {p},
         next # "clear" => paths \subseteq paths',
         next \in {"first", "lock", "activate", "store"} => p \in paths'
  PROVE  IInv'
<1>1. [pc |-> next, path |-> p] \in CallRecord
  BY DEF CallRecord
<1>2. CallInv'
  BY <1>1 DEF IInv, CallInv, Begin
<1>3. ASSUME ~overlapped'
      PROVE  /\ \A d \in Threads \ {c} : call'[d] = Idle
             /\ call'[c] = [pc |-> next, path |-> p]
             /\ active \in paths \cup {None}
  <2>1. \A d \in Threads : call[d] = Idle
    BY <1>3 DEF Begin
  <2> QED BY <1>3, <2>1 DEF IInv, CallInv, LoneInv, Begin
<1>4. ASSUME ~overlapped' PROVE LoneInv'
  <2>1. [pc |-> next, path |-> p] # Idle
    BY DEF Idle
  <2>2. Knows(c)'
    BY <1>3, <1>4 DEF Knows, At
  <2> QED BY <1>3, <1>4, <2>1, <2>2 DEF LoneInv, Alone
<1> QED BY <1>2, <1>4 DEF IInv, LoneInv

\* A step of a call that was begun and goes on as k says.
LEMMA StepKeeps ==
  ASSUME IInv, NEW c \in Threads, call[c] # Idle, NEW k \in CallRecord,
         call' = [call EXCEPT ![c] = k], UNCHANGED <<paths, overlapped>>,
         k.pc # "clear", active' \in Ids \cup {None},
         ~overlapped /\ Knows(c) =>
           /\ active' \in paths \cup {None}
           /\ k.pc \in {"first", "lock", "activate", "store"} => k.path \in paths
  PROVE  IInv'
<1>1. CallInv'
  BY DEF IInv, CallInv
<1>2. ASSUME ~overlapped' PROVE LoneInv'
  <2>1. Alone /\ Knows(c)
    BY <1>2 DEF IInv, LoneInv
  <2>2. call'[c] = k /\ \A d \in Threads \ {c} : call'[d] = Idle
    BY <2>1 DEF IInv, CallInv, Alone
  <2>3. active' \in paths \cup {None}
    BY <1>2, <2>1
  <2>4. Knows(c)'
    BY <1>2, <2>1, <2>2, <2>3 DEF Knows, At
  <2> QED BY <2>2, <2>3, <2>4 DEF LoneInv, Alone
<1> QED BY <1>1, <1>2 DEF IInv, LoneInv

\* The steps that touch no path and no call.
LEMMA Untouched ==
  ASSUME IInv, UNCHANGED <<paths, active, call, overlapped>>
  PROVE  IInv'
<1>1. CallInv' /\ Alone' = Alone
  BY DEF IInv, CallInv, Alone
<1>2. \A c \in Threads : Knows(c)' = Knows(c)
  BY DEF Knows, At
<1> QED BY <1>1, <1>2 DEF IInv, LoneInv

LEMMA Inductive == IInv /\ [Next]_vars => IInv'
<1> SUFFICES ASSUME IInv, [Next]_vars PROVE IInv'
  OBVIOUS
<1>t. /\ \A c \in Threads : call[c] \in CallRecord
      /\ Idle \in CallRecord /\ Idle.pc = "idle"
      /\ Callers \subseteq Threads /\ Loop \in Threads
      /\ \A c \in Threads : call[c].path \in Ids \cup {None}
      /\ paths \subseteq Ids /\ active \in Ids \cup {None}
  BY DEF IInv, CallInv, CallRecord, Pcs, Idle, Threads
<1>1. ASSUME NEW c \in Callers, NEW p \in Ids,
             RegisterPath(c, p) \/ UnregisterPath(c, p) \/ LockPath(c, p) \/ SwitchTo(c, p)
      PROVE  IInv'
  <2>1. CASE RegisterPath(c, p)
    BY <2>1, <1>t, BeginKeeps DEF RegisterPath, Pcs
  <2>2. CASE UnregisterPath(c, p)
    BY <2>2, <1>t, BeginKeeps DEF UnregisterPath, Pcs
  <2>3. CASE LockPath(c, p)
    BY <2>3, <1>t, BeginKeeps DEF LockPath, Pcs
  <2>4. CASE SwitchTo(c, p)
    BY <2>4, <1>t, BeginKeeps DEF SwitchTo, Pcs
  <2> QED BY <1>1, <2>1, <2>2, <2>3, <2>4
<1>2. ASSUME NEW c \in Threads,
             \/ FirstPath(c) \/ ClearActive(c) \/ StoreLock(c) \/ ActivateLocked(c)
             \/ CheckSwitch(c) \/ StoreSwitch(c)
      PROVE  IInv'
  <2> DEFINE Moved(pc) == [call[c] EXCEPT !.pc = pc]
  <2>1. \A pc \in Pcs : /\ Moved(pc) \in CallRecord
                         /\ Moved(pc).pc = pc /\ Moved(pc).path = call[c].path
    BY <1>t DEF CallRecord
  <2>2. call[c] # Idle
    BY <1>2 DEF FirstPath, ClearActive, StoreLock, ActivateLocked, CheckSwitch,
                StoreSwitch, At, Idle
  <2>3. CASE FirstPath(c) \/ ClearActive(c) \/ ActivateLocked(c) \/ StoreSwitch(c)
    <3>1. call' = [call EXCEPT ![c] = Idle] /\ UNCHANGED <<paths, overlapped>>
      BY <2>3 DEF FirstPath, ClearActive, ActivateLocked, StoreSwitch, Return
    <3>2. active' \in Ids \cup {None} /\ (Knows(c) => active' \in paths \cup {None})
      BY <1>t, <2>3 DEF FirstPath, ClearActive, ActivateLocked, StoreSwitch, Knows, At
    <3> QED BY <1>t, <2>2, <3>1, <3>2, StepKeeps
  <2>4. CASE StoreLock(c)
    <3>1. call' = [call EXCEPT ![c] = Moved("activate")]
      BY <2>4 DEF StoreLock, Goto
    <3>2. Knows(c) => active \in paths \cup {None} /\ call[c].path \in paths
      BY <2>4 DEF StoreLock, Knows, At
    <3> HIDE DEF Moved
    <3> QED BY <1>t, <2>1, <2>2, <2>4, <3>1, <3>2, StepKeeps DEF StoreLock, Pcs
  <2>5. CASE CheckSwitch(c)
    <3>1. Knows(c) => active \in paths \cup {None}
      BY <2>5 DEF CheckSwitch, Knows, At
    <3>2. CASE call' = [call EXCEPT ![c] = Idle]
      BY <1>t, <2>2, <2>5, <3>1, <3>2, StepKeeps DEF CheckSwitch
    <3>3. CASE call' = [call EXCEPT ![c] = Moved("store")] /\ call[c].path \in paths
      <4> HIDE DEF Moved
      <4> QED BY <1>t, <2>1, <2>2, <2>5, <3>1, <3>3, StepKeeps DEF CheckSwitch, Pcs
    <3> QED BY <2>5, <3>2, <3>3 DEF CheckSwitch, Goto, Return
  <2> QED BY <1>2, <2>3, <2>4, <2>5
<1>3. CASE Tick
  BY <1>3, <1>t, BeginKeeps DEF Tick, Pcs
<1>4. CASE Evaluate
  <2>1. call[Loop] # Idle /\ (Knows(Loop) => active \in paths \cup {None})
    BY <1>4 DEF Evaluate, At, Idle, Knows
  <2>2. PICK best \in Best :
          \/ call' = [call EXCEPT ![Loop] = Idle]
          \/ best # None /\ call' = [call EXCEPT ![Loop] = [pc |-> "switch", path |-> best]]
    BY <1>4 DEF Evaluate
  <2>3. CASE call' = [call EXCEPT ![Loop] = Idle]
    BY <1>4, <1>t, <2>1, <2>3, StepKeeps DEF Evaluate
  <2>4. CASE best # None /\ call' = [call EXCEPT ![Loop] = [pc |-> "switch", path |-> best]]
    <3>1. [pc |-> "switch", path |-> best] \in CallRecord
      BY <1>t, <2>4 DEF CallRecord, Pcs, Best, Ranked
    <3> QED BY <1>4, <1>t, <2>1, <2>4, <3>1, StepKeeps DEF Evaluate
  <2> QED BY <2>2, <2>3, <2>4
<1>5. CASE \/ \E c \in Callers : UnlockPath(c)
           \/ CooldownOver \/ Start \/ Stop \/ UNCHANGED vars
           \/ \E p \in Ids : SetState(p)
  BY <1>5, Untouched DEF UnlockPath, CooldownOver, Start, Stop, SetState, vars
<1> QED BY <1>t, <1>1, <1>2, <1>3, <1>4, <1>5 DEF Next, Call

\* Traffic goes to a registered path whenever no calls overlapped, for any
\* paths and callers.
THEOREM ActiveRegistered == Spec => []ActiveIsRegistered
<1>1. IInv => ActiveIsRegistered
  BY DEF IInv, LoneInv, ActiveIsRegistered
<1> QED BY <1>1, InitInv, Inductive, PTL DEF Spec
===============================================================================
