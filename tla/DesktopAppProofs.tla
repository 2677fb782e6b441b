--------------------------- MODULE DesktopAppProofs ---------------------------
(***************************************************************************)
(* Proofs about the desktop application (MCDesktopApp), for any tunnels,   *)
(* nodes, callers, commands and faults that ConstantsFit allows.  Each     *)
(* part has its own invariant; a step of another part leaves its variables *)
(* alone.                                                                  *)
(***************************************************************************)
EXTENDS MCDesktopApp, FiniteSetTheorems, FunctionTheorems, SequenceTheorems,
        TLAPS

-------------------------------------------------------------------------------
(* Favourite ports and the activity log.                                   *)

\* A change that is to be kept was made when no seeding was left to do.
KeptOnlySeeded ==
  \A p \in Nodes \ early : choice[p] # "none" => seeded /\ ~Records!Seeding
\* What a call is about to log is an entry.
EntriesInv == \A c \in Callers : Records!At(c, "log") => recordCall[c].entry \in Records!Entry
RecordsInv ==
  /\ Records!TypeOK /\ KeptOnlySeeded /\ EntriesInv
  /\ Records!ChoicesKept /\ Records!ChangesAreLogged

\* The records start in their invariant.
LEMMA RecordsInit == Records!Init => RecordsInv
<1> SUFFICES ASSUME Records!Init PROVE RecordsInv
  OBVIOUS
<1>1. Records!Idle \in [pc : {"idle", "seed", "log"}, todo : SUBSET {Default},
                        entry : Records!Entry \cup {None}] /\ Records!Idle.pc = "idle"
  BY DEF Records!Idle
<1> QED
  BY <1>1 DEF Records!Init, RecordsInv, Records!TypeOK, KeptOnlySeeded, EntriesInv,
      Records!At, Records!ChoicesKept, Records!ChangesAreLogged, Records!Seeding

\* A call's own record is all that a call changes of the calls.
LEMMA RecordsTypes ==
  ASSUME Records!TypeOK, Records!Next, EntriesInv PROVE Records!TypeOK' /\ EntriesInv'
<1> DEFINE Call == [pc : {"idle", "seed", "log"}, todo : SUBSET {Default},
                    entry : Records!Entry \cup {None}]
<1> USE DEF Records!TypeOK, Records!At, EntriesInv, Records!records, Records!history
<1>0. Records!Idle \in Call /\ Records!Idle.pc = "idle"
  BY DEF Records!Idle
<1>1. ASSUME NEW c \in Callers, Records!List(c) PROVE Records!TypeOK' /\ EntriesInv'
  <2> DEFINE k == [Records!Idle EXCEPT !.pc = "seed", !.todo = {Default}]
  <2>1. k \in Call /\ k.pc = "seed"
    BY DEF Records!Idle
  <2>2. recordCall' = [recordCall EXCEPT ![c] = k]
    BY <1>1 DEF Records!List
  <2> HIDE DEF k
  <2> QED BY <1>1, <2>1, <2>2 DEF Records!List
<1>2. ASSUME NEW c \in Callers, NEW p \in Nodes, Records!SeedOne(c, p)
      PROVE Records!TypeOK' /\ EntriesInv'
  <2> DEFINE k == [recordCall[c] EXCEPT !.todo = @ \ {p}]
  <2>1. k \in Call /\ k.pc = "seed"
    BY <1>2 DEF Records!SeedOne
  <2>2. recordCall' = [recordCall EXCEPT ![c] = k]
    BY <1>2 DEF Records!SeedOne
  <2> HIDE DEF k
  <2> QED BY <1>2, <2>1, <2>2 DEF Records!SeedOne
<1>3. ASSUME NEW c \in Callers, Records!SeedDone(c) PROVE Records!TypeOK' /\ EntriesInv'
  BY <1>0, <1>3 DEF Records!SeedDone, Records!Finish
<1>4. ASSUME NEW c \in Callers, NEW p \in Nodes, NEW what \in Records!Done,
             Records!Chosen(c, p, what), ports' \in [Nodes -> {"default", "user", None}]
      PROVE Records!TypeOK' /\ EntriesInv'
  <2> DEFINE e == [port |-> p, what |-> what]
             k == [recordCall[c] EXCEPT !.pc = "log", !.entry = e]
  <2>0. e \in Records!Entry
    BY DEF Records!Entry
  <2>a. recordCall[c] \in Call
    OBVIOUS
  <2>1. k \in Call /\ k.entry \in Records!Entry
    <3> HIDE DEF e
    <3> QED BY <2>0, <2>a
  <2>2. recordCall' = [recordCall EXCEPT ![c] = k]
    BY <1>4 DEF Records!Chosen
  <2> HIDE DEF k
  <2>3. choice' \in [Nodes -> Records!Done \cup {"none"}]
    BY <1>4 DEF Records!Chosen
  <2>4. early' \subseteq Nodes /\ unlogged' \subseteq Nodes
    BY <1>4 DEF Records!Chosen
  <2> HIDE DEF e
  <2>5. logs' = logs /\ seeded' = seeded
    BY <1>4 DEF Records!Chosen
  <2>7. recordCall' \in [Callers -> Call]
    BY <2>1, <2>2
  <2>8. Records!TypeOK'
    BY <1>4, <2>3, <2>4, <2>5, <2>7
  <2>6. EntriesInv'
    BY <2>1, <2>2
  <2> QED BY <2>6, <2>8
<1>5. ASSUME NEW c \in Callers, NEW p \in Nodes, Records!SaveFavoritePort(c, p)
      PROVE Records!TypeOK' /\ EntriesInv'
  BY <1>4, <1>5 DEF Records!SaveFavoritePort, Records!Done
<1>6. ASSUME NEW c \in Callers, NEW p \in Nodes, Records!DeleteFavoritePort(c, p)
      PROVE Records!TypeOK' /\ EntriesInv'
  BY <1>4, <1>6 DEF Records!DeleteFavoritePort, Records!Done
<1>7. ASSUME NEW c \in Callers, Records!AppendEntry(c) PROVE Records!TypeOK' /\ EntriesInv'
  <2>1. recordCall[c].entry \in Records!Entry
    BY <1>7 DEF Records!AppendEntry
  <2> QED BY <1>0, <1>7, <2>1 DEF Records!AppendEntry, Records!EntryOf, Records!Finish
<1>8. ASSUME NEW c \in Callers, Records!AppendFails(c) PROVE Records!TypeOK' /\ EntriesInv'
  BY <1>0, <1>8 DEF Records!AppendFails, Records!Finish
<1>9. ASSUME NEW c \in Callers, Records!ClearActivityLogs(c)
      PROVE Records!TypeOK' /\ EntriesInv'
  BY <1>9 DEF Records!ClearActivityLogs
<1>10. ASSUME Records!Restart PROVE Records!TypeOK' /\ EntriesInv'
  BY <1>0, <1>10 DEF Records!Restart
<1> QED BY <1>1, <1>2, <1>3, <1>5, <1>6, <1>7, <1>8, <1>9, <1>10 DEF Records!Next

\* A step of the records keeps their invariant.
LEMMA RecordsStep == RecordsInv /\ Records!Next => RecordsInv'
<1> SUFFICES ASSUME RecordsInv, Records!Next PROVE RecordsInv'
  OBVIOUS
<1> DEFINE Rest == KeptOnlySeeded /\ Records!ChoicesKept /\ Records!ChangesAreLogged
<1> USE DEF KeptOnlySeeded, Records!ChoicesKept, Records!ChangesAreLogged, Records!TypeOK,
            Records!At, Records!Seeding, Records!records, Records!history
<1>0. Records!TypeOK' /\ EntriesInv'
  BY RecordsTypes DEF RecordsInv
<1>a. Records!TypeOK /\ EntriesInv /\ Rest
  BY DEF RecordsInv
<1>b. Records!Idle.pc = "idle"
  BY DEF Records!Idle
<1>1. ASSUME NEW c \in Callers, Records!List(c) PROVE Rest'
  BY <1>a, <1>1 DEF Records!List
<1>2. ASSUME NEW c \in Callers, NEW p \in Nodes, Records!SeedOne(c, p) PROVE Rest'
  <2>1. \A q \in Nodes \ early : choice[q] = "none"
    BY <1>a, <1>2 DEF Records!SeedOne
  <2> QED BY <1>a, <1>2, <2>1 DEF Records!SeedOne
<1>3. ASSUME NEW c \in Callers, Records!SeedDone(c) PROVE Rest'
  <2>1. \A q \in Nodes \ early : choice[q] = "none"
    BY <1>a, <1>3 DEF Records!SeedDone
  <2> QED BY <1>a, <1>3, <2>1 DEF Records!SeedDone
<1>4. ASSUME NEW c \in Callers, NEW p \in Nodes, NEW what \in Records!Done,
             Records!Chosen(c, p, what), recordCall[c].pc = "idle",
             \E v \in {"default", "user", None} :
               /\ ports' = [ports EXCEPT ![p] = v]
               /\ what = "saved" => v = "user"
               /\ what = "deleted" => v = None
      PROVE Rest'
  <2>1. \A d \in Callers : recordCall'[d].pc = "seed" <=> recordCall[d].pc = "seed"
    <3> DEFINE k == [recordCall[c] EXCEPT !.pc = "log", !.entry = [port |-> p, what |-> what]]
    <3>1. k.pc = "log"
      BY <1>a
    <3>2. recordCall' = [recordCall EXCEPT ![c] = k]
      BY <1>4 DEF Records!Chosen
    <3> HIDE DEF k
    <3> QED BY <1>a, <1>4, <3>1, <3>2
  <2>2. Records!Seeding' <=> Records!Seeding
    BY <2>1
  <2>3. seeded' = seeded /\ logs' = logs /\ choice' = [choice EXCEPT ![p] = what]
        /\ unlogged' = unlogged \cup {p}
        /\ early' = IF seeded /\ ~Records!Seeding THEN early \ {p} ELSE early \cup {p}
    BY <1>4 DEF Records!Chosen
  <2>4. KeptOnlySeeded'
    <3> USE DEF Records!Done
    <3> HIDE DEF Records!Seeding
    <3> QED BY <1>a, <2>2, <2>3
  <2>5. Records!ChoicesKept'
    <3> HIDE DEF Records!Seeding
    <3> QED BY <1>a, <1>4, <2>3
  <2> QED BY <1>a, <2>3, <2>4, <2>5
<1>5. ASSUME NEW c \in Callers, NEW p \in Nodes, Records!SaveFavoritePort(c, p) PROVE Rest'
  BY <1>4, <1>5 DEF Records!SaveFavoritePort, Records!Done
<1>6. ASSUME NEW c \in Callers, NEW p \in Nodes, Records!DeleteFavoritePort(c, p) PROVE Rest'
  BY <1>4, <1>6 DEF Records!DeleteFavoritePort, Records!Done
<1>7. ASSUME NEW c \in Callers, Records!AppendEntry(c) PROVE Rest'
  <2> DEFINE e == recordCall[c].entry
  <2>1. e \in Records!Entry
    BY <1>a, <1>7 DEF Records!AppendEntry, EntriesInv
  <2>2. e = [port |-> e.port, what |-> e.what]
    BY <2>1 DEF Records!Entry
  <2>3. logs' = logs \cup {e} /\ choice' = choice /\ seeded' = seeded /\ early' = early
        /\ ports' = ports /\ recordCall' = [recordCall EXCEPT ![c] = Records!Idle]
        /\ \A q \in Nodes \ unlogged' :
             q \in Nodes \ unlogged \/ (q = e.port /\ e.what = choice[q])
    BY <1>7 DEF Records!AppendEntry, Records!EntryOf, Records!Finish
  <2> HIDE DEF e
  <2>4. Records!ChangesAreLogged'
    BY <1>a, <2>2, <2>3
  <2> QED BY <1>a, <1>b, <2>3, <2>4
<1>8. ASSUME NEW c \in Callers, Records!AppendFails(c) PROVE Rest'
  BY <1>a, <1>b, <1>8 DEF Records!AppendFails, Records!Finish
<1>9. ASSUME NEW c \in Callers, Records!ClearActivityLogs(c) PROVE Rest'
  BY <1>a, <1>9 DEF Records!ClearActivityLogs
<1>10. ASSUME Records!Restart PROVE Rest'
  BY <1>a, <1>b, <1>10 DEF Records!Restart
<1>11. Rest'
  BY <1>1, <1>2, <1>3, <1>5, <1>6, <1>7, <1>8, <1>9, <1>10 DEF Records!Next
<1> QED BY <1>0, <1>11 DEF RecordsInv

\* Favourites stay as the user left them once the seeding is over, and the log
\* tells of every change, for any ports and callers (app.go:
\* ensureDefaultFavoritePorts, appendActivityLog).
THEOREM FavouritesAreKept == Spec => []RecordsAreKept
<1> DEFINE Inv == part = "records" => RecordsInv
<1>1. Init => Inv
  BY RecordsInit DEF Init
<1>2. Inv /\ [Next]_vars => Inv'
  <2> SUFFICES ASSUME Inv, [Next]_vars, part' = "records" PROVE RecordsInv'
    OBVIOUS
  <2>1. CASE Next
    <3>1. part = "records" /\ Records!Next
      BY <2>1 DEF Next
    <3> QED BY <3>1, RecordsStep
  <2>2. CASE UNCHANGED vars
    BY <2>2 DEF vars, recordVars, RecordsInv, Records!TypeOK, KeptOnlySeeded, EntriesInv,
         Records!ChoicesKept, Records!ChangesAreLogged, Records!Seeding, Records!At
  <2> QED BY <2>1, <2>2
<1>3. Inv => RecordsAreKept
  BY DEF RecordsInv, RecordsAreKept
<1> QED BY <1>1, <1>2, <1>3, PTL DEF Spec

-------------------------------------------------------------------------------
(* The control API and its commands.                                       *)

\* Unless two overlapped, one start of the program runs at a time.
OneRuns ==
  ~overlapped => \A a \in Apps, b \in Apps : Control!Runs(a) /\ Control!Runs(b) => a = b
\* Whoever writes its file has a port.
WriterListens ==
  \A a \in Apps : api[a] \in {"listen", "write", "up"} => port[a] \in Names
\* What is being carried out has read the file of the program that does it.
ServedHaveRead ==
  \A a \in Apps : \A c \in served[a] :
    /\ apiCall[c].read.app = a
    /\ apiCall[c].pc \in {"wait", "done", "refused"}
ControlRest ==
  /\ OneRuns /\ WriterListens /\ ServedHaveRead
  /\ Control!ServedByItsReader /\ Control!ServerIsFound /\ Control!NothingServedLate
ControlInv == Control!TypeOK /\ ControlRest
ApiCalls == [pc : {"idle", "send", "wait", "done", "refused"},
             read : Control!File \cup {None}, by : Apps \cup {None}]

\* The control API starts in its invariant.
LEMMA ControlInit == Control!Init => ControlInv
<1> SUFFICES ASSUME Control!Init PROVE ControlInv
  OBVIOUS
<1>1. Control!Idle \in ApiCalls /\ Control!Idle.by = None
  BY DEF Control!Idle, ApiCalls
<1>2. Control!TypeOK
  BY <1>1 DEF Control!Init, Control!TypeOK, ApiCalls
<1>3. \A a \in Apps : api[a] = "new" /\ served[a] = {}
  BY DEF Control!Init
<1>4. \A c \in Callers : apiCall[c].by = None
  BY <1>1 DEF Control!Init
<1> QED
  BY <1>2, <1>3, <1>4 DEF ControlInv, ControlRest, OneRuns, WriterListens, ServedHaveRead,
     Control!ServedByItsReader, Control!ServerIsFound, Control!NothingServedLate,
     Control!Runs, Control!Is

\* A step of a start of the program, which leaves the commands alone.
LEMMA ProgramStep ==
  ASSUME ControlInv, NEW a \in Apps,
         \/ Control!Listen(a) \/ Control!OpenFile(a) \/ Control!WriteFile(a)
         \/ Control!WriteFails(a) \/ Control!Shutdown(a) \/ Control!AllServed(a)
         \/ Control!Remove(a)
  PROVE  ControlInv'
<1> USE DEF ControlInv, ControlRest, Control!Is, Control!Runs
<1>0. apiCall' = apiCall /\ served' = served
  BY DEF Control!Listen, Control!OpenFile, Control!WriteFile, Control!WriteFails,
     Control!Shutdown, Control!AllServed, Control!Remove
<1>1. PICK s \in {"listen", "write", "up", "deaf", "stop", "remove", "over"} :
        /\ api' = [api EXCEPT ![a] = s]
        /\ s # "listen" => Control!Runs(a)
        /\ s # "listen" => overlapped' = overlapped
        /\ s = "listen" => overlapped' = (overlapped \/ \E b \in Apps : Control!Runs(b))
        /\ s \in {"listen", "write", "up"} => port'[a] \in Names
        /\ s \in {"remove", "over"} => served[a] = {}
        /\ s = "up" => file' = [app |-> a, port |-> port'[a]]
        /\ s = "listen" => file' = file
        /\ file' \in Control!File \cup {None, Cut}
        /\ port' \in [Apps -> Names \cup {None}]
        /\ \A b \in Apps \ {a} : port'[b] = port[b]
        /\ overlapped' \in BOOLEAN
  <2> USE DEF Control!TypeOK, Control!Goto, WriterListens
  <2>1. CASE Control!Listen(a)
    BY <2>1 DEF Control!Listen
  <2>2. CASE Control!OpenFile(a)
    BY <2>2 DEF Control!OpenFile
  <2>3. CASE Control!WriteFile(a)
    <3>1. [app |-> a, port |-> port[a]] \in Control!File
      BY <2>3 DEF Control!WriteFile, Control!File
    <3> QED BY <2>3, <3>1 DEF Control!WriteFile
  <2>4. CASE Control!WriteFails(a)
    BY <2>4 DEF Control!WriteFails
  <2>5. CASE Control!Shutdown(a)
    BY <2>5 DEF Control!Shutdown
  <2>6. CASE Control!AllServed(a)
    BY <2>6 DEF Control!AllServed
  <2>7. CASE Control!Remove(a)
    BY <2>7 DEF Control!Remove, Control!NothingServedLate
  <2> QED BY <2>1, <2>2, <2>3, <2>4, <2>5, <2>6, <2>7
<1>2. api'[a] = s /\ \A b \in Apps \ {a} : api'[b] = api[b]
  BY <1>1 DEF Control!TypeOK
<1>3. Control!TypeOK'
  BY <1>0, <1>1 DEF Control!TypeOK
<1>4. OneRuns'
  BY <1>1, <1>2 DEF OneRuns
<1>5. WriterListens'
  BY <1>1, <1>2 DEF WriterListens
<1>6. Control!ServerIsFound'
  <2> SUFFICES ASSUME ~overlapped', NEW b \in Apps, api'[b] = "up"
               PROVE file' = [app |-> b, port |-> port'[b]]
    BY DEF Control!ServerIsFound
  <2>1. CASE b = a
    BY <1>1, <1>2, <2>1
  <2>2. CASE b # a
    <3>1. api[b] = "up" /\ Control!Runs(b)
      BY <1>2, <2>2
    <3>2. s # "listen"
      BY <1>1, <3>1
    <3> QED BY <1>1, <2>2, <3>1, <3>2 DEF OneRuns
  <2> QED BY <2>1, <2>2
<1>7. Control!NothingServedLate'
  BY <1>0, <1>1, <1>2 DEF Control!NothingServedLate
<1>8. ServedHaveRead' /\ Control!ServedByItsReader'
  BY <1>0 DEF ServedHaveRead, Control!ServedByItsReader
<1> QED BY <1>3, <1>4, <1>5, <1>6, <1>7, <1>8

\* What a step of a command, or an end of the program, must keep.
LEMMA CommandStep ==
  ASSUME ControlInv, Control!TypeOK',
         UNCHANGED <<api, port, file, overlapped>>,
         \A a \in Apps : api[a] # "up" => served'[a] \subseteq served[a],
         ServedHaveRead', Control!ServedByItsReader'
  PROVE  ControlInv'
BY DEF ControlInv, ControlRest, OneRuns, WriterListens, Control!ServerIsFound,
   Control!NothingServedLate, Control!Is, Control!Runs

\* A step of the control API keeps its invariant.
LEMMA ControlStep == ControlInv /\ Control!Next => ControlInv'
<1> SUFFICES ASSUME ControlInv, Control!Next PROVE ControlInv'
  OBVIOUS
<1> USE DEF Control!At, Control!Is
<1>0. Control!TypeOK /\ ServedHaveRead /\ Control!ServedByItsReader
  BY DEF ControlInv, ControlRest
<1>a. /\ apiCall \in [Callers -> ApiCalls]
      /\ served \in [Apps -> SUBSET Callers]
  BY <1>0 DEF Control!TypeOK, ApiCalls
<1>1. ASSUME NEW a \in Apps, Control!Crash(a) PROVE ControlInv'
  <2>1. /\ api' = [api EXCEPT ![a] = "over"] /\ port' = [port EXCEPT ![a] = None]
        /\ served' = [served EXCEPT ![a] = {}] /\ file' = file
        /\ overlapped' = (overlapped \/ api[a] = "write")
    BY <1>1 DEF Control!Crash, Control!Goto
  <2>2. /\ apiCall' \in [Callers -> ApiCalls]
        /\ \A c \in Callers : /\ apiCall'[c].read = apiCall[c].read
                              /\ apiCall'[c].by = apiCall[c].by
                              /\ apiCall'[c].pc \in {apiCall[c].pc, "refused"}
    <3> DEFINE new(c) == IF c \in served[a] /\ apiCall[c].pc = "wait"
                         THEN [apiCall[c] EXCEPT !.pc = "refused"] ELSE apiCall[c]
    <3>1. apiCall' = [c \in Callers |-> new(c)]
      BY <1>1 DEF Control!Crash
    <3>2. \A c \in Callers : /\ new(c) \in ApiCalls /\ new(c).read = apiCall[c].read
                             /\ new(c).by = apiCall[c].by
                             /\ new(c).pc \in {apiCall[c].pc, "refused"}
      BY <1>a DEF ApiCalls
    <3> HIDE DEF new
    <3> QED BY <3>1, <3>2
  <2>3. Control!TypeOK'
    BY <1>0, <2>1, <2>2 DEF Control!TypeOK, ApiCalls
  <2>4. ServedHaveRead' /\ Control!ServedByItsReader'
    BY <1>0, <1>a, <2>1, <2>2 DEF ServedHaveRead, Control!ServedByItsReader
  <2>5. OneRuns' /\ WriterListens' /\ Control!ServerIsFound' /\ Control!NothingServedLate'
    BY <1>0, <2>1 DEF ControlInv, ControlRest, OneRuns, WriterListens, Control!TypeOK,
       Control!ServerIsFound, Control!NothingServedLate, Control!Runs
  <2> QED BY <2>3, <2>4, <2>5 DEF ControlInv, ControlRest
\* A command whose record changes to k, and nothing else but what is served.
<1>2. ASSUME NEW c \in Callers, NEW k \in ApiCalls, apiCall' = [apiCall EXCEPT ![c] = k],
             UNCHANGED <<api, port, file, overlapped>>,
             served' \in [Apps -> SUBSET Callers],
             \A a \in Apps : api[a] # "up" => served'[a] \subseteq served[a],
             \A a \in Apps : c \in served'[a] =>
               k.read.app = a /\ k.pc \in {"wait", "done", "refused"},
             \A a \in Apps : served'[a] \subseteq served[a] \cup {c},
             k.by # None => k.by = k.read.app
      PROVE ControlInv'
  <2>1. apiCall'[c] = k /\ \A d \in Callers \ {c} : apiCall'[d] = apiCall[d]
    BY <1>a, <1>2
  <2>2. Control!TypeOK'
    BY <1>0, <1>a, <1>2 DEF Control!TypeOK, ApiCalls
  <2>3. ServedHaveRead'
    <3> SUFFICES ASSUME NEW a \in Apps, NEW d \in served'[a]
                 PROVE /\ apiCall'[d].read.app = a
                       /\ apiCall'[d].pc \in {"wait", "done", "refused"}
      BY DEF ServedHaveRead
    <3>1. d \in Callers
      BY <1>2
    <3>2. CASE d = c
      BY <1>2, <2>1, <3>2
    <3>3. CASE d # c
      <4>1. d \in served[a] /\ apiCall'[d] = apiCall[d]
        BY <1>2, <2>1, <3>1, <3>3
      <4> QED BY <1>0, <4>1 DEF ServedHaveRead
    <3> QED BY <3>2, <3>3
  <2>4. Control!ServedByItsReader'
    BY <1>0, <1>2, <2>1 DEF Control!ServedByItsReader
  <2> QED BY <1>2, <2>2, <2>3, <2>4, CommandStep
<1>3. ASSUME NEW c \in Callers, Control!NewClient(c) PROVE ControlInv'
  <2> DEFINE k == [pc |-> "send", read |-> file, by |-> None]
  <2>1. k \in ApiCalls
    BY <1>0, <1>3 DEF Control!NewClient, Control!TypeOK, ApiCalls
  <2>2. k.by = None
    OBVIOUS
  <2>3. apiCall' = [apiCall EXCEPT ![c] = k] /\ UNCHANGED <<api, port, file, served, overlapped>>
    BY <1>3 DEF Control!NewClient
  <2>4. \A a \in Apps : c \notin served[a]
    BY <1>0, <1>3 DEF ServedHaveRead, Control!NewClient
  <2> HIDE DEF k
  <2> QED BY <1>2, <1>a, <2>1, <2>2, <2>3, <2>4
<1>4. ASSUME NEW c \in Callers, Control!Refused(c) PROVE ControlInv'
  <2> DEFINE k == [apiCall[c] EXCEPT !.pc = "refused", !.by = None]
  <2>1. k \in ApiCalls /\ k.by = None
    BY <1>a DEF ApiCalls
  <2>2. apiCall' = [apiCall EXCEPT ![c] = k] /\ UNCHANGED <<api, port, file, served, overlapped>>
    BY <1>4 DEF Control!Refused, Control!Become
  <2>3. \A a \in Apps : c \notin served[a]
    BY <1>0, <1>4 DEF ServedHaveRead, Control!Refused
  <2> HIDE DEF k
  <2> QED BY <1>2, <1>a, <2>1, <2>2, <2>3
<1>5. ASSUME NEW c \in Callers, Control!TimeOut(c) PROVE ControlInv'
  <2> DEFINE k == [apiCall[c] EXCEPT !.pc = "refused", !.by = apiCall[c].by]
  <2>1. k \in ApiCalls /\ k.by = apiCall[c].by /\ k.read = apiCall[c].read /\ k.pc = "refused"
    BY <1>a DEF ApiCalls
  <2>2. apiCall' = [apiCall EXCEPT ![c] = k] /\ UNCHANGED <<api, port, file, served, overlapped>>
    BY <1>5 DEF Control!TimeOut, Control!Become
  <2>3. \A a \in Apps : c \in served[a] => k.read.app = a
    BY <1>0, <2>1 DEF ServedHaveRead
  <2>4. k.by # None => k.by = k.read.app
    BY <1>0, <2>1 DEF Control!ServedByItsReader
  <2> HIDE DEF k
  <2> QED BY <1>2, <1>a, <2>1, <2>2, <2>3, <2>4
<1>6. ASSUME NEW c \in Callers, Control!Leave(c) PROVE ControlInv'
  <2>1. Control!Idle \in ApiCalls /\ Control!Idle.by = None
    BY DEF Control!Idle, ApiCalls
  <2>2. /\ apiCall' = [apiCall EXCEPT ![c] = Control!Idle]
        /\ UNCHANGED <<api, port, file, served, overlapped>>
        /\ \A a \in Apps : c \notin served[a]
    BY <1>6 DEF Control!Leave
  <2> QED BY <1>2, <1>a, <2>1, <2>2
<1>7. ASSUME NEW c \in Callers, NEW a \in Apps, Control!Accept(c, a) PROVE ControlInv'
  <2> DEFINE k == [apiCall[c] EXCEPT !.pc = "wait", !.by = a]
  <2>1. k \in ApiCalls /\ k.by = a /\ k.read = apiCall[c].read /\ k.pc = "wait"
    BY <1>a DEF ApiCalls
  <2>2. /\ apiCall' = [apiCall EXCEPT ![c] = k] /\ UNCHANGED <<api, port, file, overlapped>>
        /\ served' = [served EXCEPT ![a] = @ \cup {c}]
        /\ api[a] = "up" /\ k.read.app = a
    BY <1>7, <2>1 DEF Control!Accept, Control!Become, Control!SameToken, Control!Answers
  <2>3. \A b \in Apps : c \notin served[b]
    BY <1>0, <1>7 DEF ServedHaveRead, Control!Accept
  <2> HIDE DEF k
  <2>4. /\ served' \in [Apps -> SUBSET Callers]
        /\ \A b \in Apps : served'[b] = IF b = a THEN served[b] \cup {c} ELSE served[b]
    BY <1>a, <2>2
  <2> QED BY <1>2, <1>a, <2>1, <2>2, <2>3, <2>4
<1>8. ASSUME NEW c \in Callers, NEW a \in Apps, Control!HandlerReturns(c, a) PROVE ControlInv'
  <2>0. /\ UNCHANGED <<api, port, file, overlapped>> /\ c \in served[a]
        /\ served' \in [Apps -> SUBSET Callers]
        /\ \A b \in Apps : served'[b] \subseteq served[b]
        /\ apiCall[c].read.app = a
    BY <1>0, <1>a, <1>8 DEF Control!HandlerReturns, ServedHaveRead
  <2>1. CASE apiCall[c].pc = "wait"
    <3> DEFINE k == [apiCall[c] EXCEPT !.pc = "done", !.by = a]
    <3>1. k \in ApiCalls /\ k.by = a /\ k.read = apiCall[c].read /\ k.pc = "done"
      BY <1>a DEF ApiCalls
    <3>2. apiCall' = [apiCall EXCEPT ![c] = k]
      BY <1>8, <2>1 DEF Control!HandlerReturns, Control!Become
    <3>3. \A b \in Apps : c \in served[b] => k.read.app = b
      BY <1>0, <3>1 DEF ServedHaveRead
    <3> HIDE DEF k
    <3> QED BY <1>2, <2>0, <3>1, <3>2, <3>3
  <2>2. CASE apiCall[c].pc # "wait"
    <3>1. apiCall' = apiCall
      BY <1>8, <2>2 DEF Control!HandlerReturns
    <3>2. Control!TypeOK'
      BY <1>0, <2>0, <3>1 DEF Control!TypeOK
    <3>3. ServedHaveRead' /\ Control!ServedByItsReader'
      BY <1>0, <2>0, <3>1 DEF ServedHaveRead, Control!ServedByItsReader
    <3> QED BY <2>0, <3>2, <3>3, CommandStep
  <2> QED BY <2>1, <2>2
<1> QED
  BY <1>1, <1>3, <1>4, <1>5, <1>6, <1>7, <1>8, ProgramStep DEF Control!Next

\* A command is carried out by the program whose file it read and by no other, a
\* program that serves is found, and nothing is served after it has removed its
\* file, for any starts, ports and commands (control_server.go).
THEOREM CommandsReachTheirProgram == Spec => []ControlIsFound
<1> DEFINE Inv == part = "control" => ControlInv
<1>1. Init => Inv
  BY ControlInit DEF Init
<1>2. Inv /\ [Next]_vars => Inv'
  <2> SUFFICES ASSUME Inv, [Next]_vars, part' = "control" PROVE ControlInv'
    OBVIOUS
  <2>1. CASE Next
    <3>1. part = "control" /\ Control!Next
      BY <2>1 DEF Next
    <3> QED BY <3>1, ControlStep
  <2>2. CASE UNCHANGED vars
    BY <2>2 DEF vars, controlVars, ControlInv, ControlRest, Control!TypeOK, OneRuns,
       WriterListens, ServedHaveRead, Control!ServedByItsReader, Control!ServerIsFound,
       Control!NothingServedLate, Control!Runs, Control!Is
  <2> QED BY <2>1, <2>2
<1>3. Inv => ControlIsFound
  BY DEF ControlInv, ControlRest, ControlIsFound
<1> QED BY <1>1, <1>2, <1>3, PTL DEF Spec

-------------------------------------------------------------------------------
(* The sign-in: callbacks of the browser, and requests for tokens.         *)

\* What the sign-in's proof takes from ConstantsFit.
LoginFits == IsFiniteSet(Ids) /\ IsFiniteSet(Callers)
\* What the constants of the login are.
LEMMA LoginFitsAlways == LoginFits
BY ConstantsFit DEF ConstantsFit, Login!FiniteAssumption, LoginFits, Login!IsFiniteSet,
   IsFiniteSet

\* What a channel or the login holds came from a callback that has come so far.
Holds(q, ats) == q = <<>> \/ \E h \in Ids : q = <<h>> /\ handler[h].at \in ats
CallbackInv ==
  /\ login \in {"idle", "serving", "state", "shutdown", "returned"}
  /\ handler \in [Ids -> [at : {"away", "code", "state", "error", "done"},
                          state : Login!States]]
  /\ Holds(codeCh, {"state", "done"}) /\ Holds(stateCh, {"done"}) /\ Holds(errCh, {"done"})
  /\ taken \in [code : Ids \cup {None}, state : Ids \cup {None}]
  /\ outcome \in {None, "code", "mismatch", "error", "cancelled"}
  /\ login = "state" => taken.code \in Login!Arrived
  /\ taken.state # None => taken.state \in Login!Arrived /\ taken.code \in Login!Arrived

\* The tokens issued are as many as the requests that were answered; unless two
\* requests overlap, the one under way has the newest, and else it is kept.
AnsweredSet == {r \in Callers : request[r].at \in {"answered", "stored"}}
Pending(r) == request[r].at \in {"asked", "answered"}
TokenTypes ==
  /\ DOMAIN request = Callers /\ \A r \in Callers : "at" \in DOMAIN request[r]
  /\ issued \in Nat /\ issued = Cardinality(AnsweredSet)
  /\ token = None \/ (token \in [n : Nat, refresh : BOOLEAN] /\ token.n \in 1 .. issued)
  /\ \A r \in Callers : request[r].at = "answered" =>
       request[r].n \in 1 .. issued /\ request[r].refresh \in BOOLEAN
  /\ crossed \in BOOLEAN
NewestInv ==
  ~crossed =>
    /\ \A q \in Callers, r \in Callers : Pending(q) /\ Pending(r) => q = r
    /\ \A r \in Callers : request[r].at = "answered" => request[r].n = issued
    /\ token # None /\ (\A r \in Callers : request[r].at # "answered") => token.n = issued
LoginInv == CallbackInv /\ TokenTypes /\ NewestInv

\* The login starts in its invariant.
LEMMA LoginInitInv == LoginFits /\ Login!Init => LoginInv
<1> SUFFICES ASSUME LoginFits, Login!Init PROVE LoginInv
  OBVIOUS
<1>1. CallbackInv
  BY DEF Login!Init, CallbackInv, Holds, Login!States
<1>2. AnsweredSet = {}
  BY DEF Login!Init, AnsweredSet
<1>3. TokenTypes
  BY <1>2, FS_EmptySet DEF Login!Init, TokenTypes
<1>4. NewestInv
  BY DEF Login!Init, NewestInv, Pending
<1> QED BY <1>1, <1>3, <1>4 DEF LoginInv

\* Two callbacks that have come are two.
LEMMA LoneArrival ==
  ASSUME LoginFits, NEW g \in Login!Arrived, NEW h \in Login!Arrived,
         Login!Cardinality(Login!Arrived) <= 1
  PROVE  g = h
<1> SUFFICES ASSUME g # h PROVE FALSE
  OBVIOUS
<1>1. Login!Cardinality(Login!Arrived) = Cardinality(Login!Arrived)
  BY DEF Login!Cardinality, Cardinality
<1>2. IsFiniteSet(Login!Arrived)
  BY FS_Subset DEF LoginFits, Login!Arrived
<1>3. {g, h} \in SUBSET Login!Arrived
  OBVIOUS
<1>4. Cardinality({g, h}) <= Cardinality(Login!Arrived) /\ Cardinality(Login!Arrived) \in Nat
  BY <1>2, <1>3, FS_Subset, FS_CardinalityType
<1>5. Cardinality({g, h}) = 2
  <2>1. {g, h} = {g} \cup {h} /\ h \notin {g}
    OBVIOUS
  <2>2. IsFiniteSet({g}) /\ Cardinality({g}) = 1
    BY FS_Singleton
  <2> QED BY <2>1, <2>2, FS_AddElement
<1> QED BY <1>1, <1>4, <1>5

\* A step keeps what is known of the callbacks.
LEMMA CallbackStep ==
  ASSUME CallbackInv, Login!Next PROVE CallbackInv'
<1> DEFINE Handler == [at : {"away", "code", "state", "error", "done"}, state : Login!States]
<1> USE DEF Login!tokens
<1>0. handler \in [Ids -> Handler]
  BY DEF CallbackInv
<1>1. CASE Login!StartCallbackServer
  BY <1>1 DEF Login!StartCallbackServer, CallbackInv, Holds, Login!Arrived
<1>2. CASE Login!TakeCode
  <2>1. PICK h \in Ids : codeCh = <<h>> /\ handler[h].at \in {"state", "done"}
    BY <1>2 DEF Login!TakeCode, CallbackInv, Holds
  <2>2. codeCh[1] = h /\ h \in Login!Arrived
    BY <2>1 DEF Login!Arrived
  <2>3. /\ taken' \in [code : Ids \cup {None}, state : Ids \cup {None}]
        /\ taken'.code = h /\ taken'.state = taken.state
    BY <1>2, <2>2 DEF Login!TakeCode, CallbackInv
  <2>4. handler' = handler /\ codeCh' = <<>> /\ stateCh' = stateCh /\ errCh' = errCh
        /\ login' = "state" /\ outcome' = outcome /\ UNCHANGED Login!tokens
    BY <1>2 DEF Login!TakeCode
  <2> QED BY <2>2, <2>3, <2>4 DEF CallbackInv, Holds, Login!Arrived
<1>3. CASE Login!TakeState
  <2>1. PICK h \in Ids : stateCh = <<h>> /\ handler[h].at = "done"
    BY <1>3 DEF Login!TakeState, CallbackInv, Holds
  <2>2. stateCh[1] = h /\ h \in Login!Arrived /\ taken.code \in Login!Arrived
    BY <1>3, <2>1 DEF Login!Arrived, CallbackInv, Login!TakeState
  <2>3. /\ taken' \in [code : Ids \cup {None}, state : Ids \cup {None}]
        /\ taken'.state = h /\ taken'.code = taken.code
    BY <1>3, <2>2 DEF Login!TakeState, CallbackInv
  <2>4. handler' = handler /\ codeCh' = codeCh /\ stateCh' = <<>> /\ errCh' = errCh
        /\ login' = "shutdown" /\ outcome' \in {"code", "mismatch"} /\ UNCHANGED Login!tokens
    BY <1>3 DEF Login!TakeState, Login!Leave
  <2> QED BY <2>2, <2>3, <2>4 DEF CallbackInv, Holds, Login!Arrived
<1>4. CASE Login!TakeError
  BY <1>4 DEF Login!TakeError, Login!Leave, CallbackInv, Holds, Login!Arrived
<1>5. CASE Login!Cancel
  BY <1>5 DEF Login!Cancel, Login!Leave, CallbackInv, Holds, Login!Arrived
<1>6. CASE Login!Shutdown
  BY <1>6 DEF Login!Shutdown, CallbackInv, Holds, Login!Arrived
\* A handler goes on to k, and puts itself into at most one channel.
<1>7. ASSUME NEW h \in Ids, NEW k \in Handler, handler' = [handler EXCEPT ![h] = k],
             handler[h].at = "away" => k.at # "away",
             handler[h].at \in {"away", "code", "state", "error"},
             handler[h].at = "state" => k.at \in {"state", "done"},
             handler[h].at # "away" => k.at # "away",
             codeCh' = codeCh \/ (codeCh' = <<h>> /\ k.at \in {"state", "done"}),
             stateCh' = stateCh \/ (stateCh' = <<h>> /\ k.at = "done"),
             errCh' = errCh \/ (errCh' = <<h>> /\ k.at = "done"),
             UNCHANGED <<login, taken, outcome, Login!tokens>>
      PROVE CallbackInv' /\ UNCHANGED Login!tokens
  <2>1. handler' \in [Ids -> Handler] /\ handler'[h] = k
        /\ \A g \in Ids \ {h} : handler'[g] = handler[g]
    BY <1>0, <1>7
  <2>2. \A g \in Ids : /\ handler[g].at = "done" => handler'[g].at = "done"
                       /\ handler[g].at \in {"state", "done"} => handler'[g].at \in {"state", "done"}
                       /\ handler[g].at # "away" => handler'[g].at # "away"
    BY <1>7, <2>1
  <2>3. Login!Arrived \subseteq Login!Arrived'
    BY <2>2 DEF Login!Arrived
  <2>4. Holds(codeCh, {"state", "done"})' /\ Holds(stateCh, {"done"})' /\ Holds(errCh, {"done"})'
    <3>0. Holds(codeCh, {"state", "done"}) /\ Holds(stateCh, {"done"}) /\ Holds(errCh, {"done"})
      BY DEF CallbackInv
    <3>1. Holds(codeCh, {"state", "done"})'
      <4>1. CASE codeCh' = codeCh
        BY <3>0, <4>1, <2>2 DEF Holds
      <4>2. CASE codeCh' = <<h>> /\ k.at \in {"state", "done"}
        BY <4>2, <2>1 DEF Holds
      <4> QED BY <1>7, <4>1, <4>2
    <3>2. Holds(stateCh, {"done"})'
      <4>1. CASE stateCh' = stateCh
        BY <3>0, <4>1, <2>2 DEF Holds
      <4>2. CASE stateCh' = <<h>> /\ k.at = "done"
        BY <4>2, <2>1 DEF Holds
      <4> QED BY <1>7, <4>1, <4>2
    <3>3. Holds(errCh, {"done"})'
      <4>1. CASE errCh' = errCh
        BY <3>0, <4>1, <2>2 DEF Holds
      <4>2. CASE errCh' = <<h>> /\ k.at = "done"
        BY <4>2, <2>1 DEF Holds
      <4> QED BY <1>7, <4>1, <4>2
    <3> QED BY <3>1, <3>2, <3>3
  <2> QED BY <1>7, <2>1, <2>3, <2>4 DEF CallbackInv
<1>8. ASSUME NEW h \in Ids, Login!Arrive(h) PROVE CallbackInv' /\ UNCHANGED Login!tokens
  <2>1. PICK at \in {"code", "error"}, s \in Login!States :
          handler' = [handler EXCEPT ![h] = [at |-> at, state |-> s]]
    BY <1>8 DEF Login!Arrive
  <2> DEFINE k == [at |-> at, state |-> s]
  <2>2. k \in Handler /\ k.at # "away"
    OBVIOUS
  <2>3. handler' = [handler EXCEPT ![h] = k]
    BY <2>1
  <2> HIDE DEF k
  <2> QED BY <1>7, <1>8, <2>2, <2>3 DEF Login!Arrive
<1>9. ASSUME NEW h \in Ids, NEW to \in {"state", "done"}, Login!Moves(h, to),
             handler[h].at \in {"code", "state", "error"}
      PROVE \E k \in Handler : handler' = [handler EXCEPT ![h] = k] /\ k.at = to
  <2> DEFINE k == [handler[h] EXCEPT !.at = to]
  <2>1. k \in Handler /\ k.at = to
    BY <1>0
  <2>2. handler' = [handler EXCEPT ![h] = k]
    BY <1>9 DEF Login!Moves
  <2> QED BY <2>1, <2>2
<1>10. ASSUME NEW h \in Ids, Login!PutCode(h) PROVE CallbackInv' /\ UNCHANGED Login!tokens
  BY <1>7, <1>9, <1>10 DEF Login!PutCode
<1>11. ASSUME NEW h \in Ids, Login!PutState(h) PROVE CallbackInv' /\ UNCHANGED Login!tokens
  BY <1>7, <1>9, <1>11 DEF Login!PutState
<1>12. ASSUME NEW h \in Ids, Login!PutError(h) PROVE CallbackInv' /\ UNCHANGED Login!tokens
  BY <1>7, <1>9, <1>12 DEF Login!PutError
<1>13. CASE UNCHANGED Login!callback
  BY <1>13 DEF Login!callback, CallbackInv, Holds, Login!Arrived
<1>14. ASSUME NEW r \in Callers,
              Login!Ask(r) \/ Login!Answer(r) \/ Login!StoreToken(r) \/ Login!AskFails(r)
       PROVE UNCHANGED Login!callback
  BY <1>14 DEF Login!Ask, Login!Answer, Login!StoreToken, Login!AskFails
<1>15. CASE Login!TakeCode \/ Login!TakeState \/ Login!TakeError \/ Login!Cancel \/ Login!Shutdown \/ Login!StartCallbackServer
  <2>1. UNCHANGED Login!tokens
    BY <1>15 DEF Login!StartCallbackServer, Login!TakeCode, Login!TakeState, Login!TakeError,
       Login!Cancel, Login!Shutdown
  <2> QED BY <2>1, <1>15, <1>1, <1>2, <1>3, <1>4, <1>5, <1>6
<1> QED BY <1>8, <1>10, <1>11, <1>12, <1>13, <1>14, <1>15 DEF Login!Next

\* A step keeps what is known of the requests for tokens.
LEMMA TokenStep ==
  ASSUME LoginFits, TokenTypes, NewestInv, Login!Next PROVE TokenTypes' /\ NewestInv'
<1> USE DEF Pending
<1>1. CASE UNCHANGED Login!tokens
  BY <1>1 DEF Login!tokens, TokenTypes, NewestInv, AnsweredSet
<1>2. ASSUME NEW r \in Callers, NEW k, request' = [request EXCEPT ![r] = k],
             k.at \in {"asked", "stored", "failed"}, "at" \in DOMAIN k,
             k.at = "stored" <=> request[r].at = "answered",
             issued' = issued
      PROVE /\ DOMAIN request' = Callers /\ request'[r] = k
            /\ \A q \in Callers \ {r} : request'[q] = request[q]
            /\ request[r].at # "stored" => AnsweredSet' = AnsweredSet
            /\ \A q \in Callers : "at" \in DOMAIN request'[q]
  <2>1. DOMAIN request' = Callers /\ request'[r] = k
        /\ \A q \in Callers \ {r} : request'[q] = request[q]
    BY <1>2 DEF TokenTypes
  <2>2. ASSUME request[r].at # "stored" PROVE AnsweredSet' = AnsweredSet
    BY <1>2, <2>1, <2>2 DEF AnsweredSet
  <2>3. \A q \in Callers : "at" \in DOMAIN request'[q]
    BY <1>2, <2>1 DEF TokenTypes
  <2> QED BY <2>1, <2>2, <2>3
<1>3. ASSUME NEW r \in Callers, Login!Ask(r) PROVE TokenTypes' /\ NewestInv'
  <2>1. PICK with : request' = [request EXCEPT ![r] = [at |-> "asked", with |-> with]]
    BY <1>3 DEF Login!Ask
  <2> DEFINE k == [at |-> "asked", with |-> with]
  <2>2. request' = [request EXCEPT ![r] = k] /\ k.at = "asked" /\ "at" \in DOMAIN k
    BY <2>1
  <2> HIDE DEF k
  <2>3. request[r].at = "idle" /\ UNCHANGED <<issued, token>>
        /\ crossed' = (crossed \/ \E q \in Callers : Pending(q))
    BY <1>3 DEF Login!Ask
  <2>4. /\ DOMAIN request' = Callers /\ request'[r] = k /\ AnsweredSet' = AnsweredSet
        /\ \A q \in Callers : "at" \in DOMAIN request'[q]
        /\ \A q \in Callers \ {r} : request'[q] = request[q]
    BY <1>2, <2>2, <2>3
  <2>5. TokenTypes'
    BY <2>2, <2>3, <2>4 DEF TokenTypes
  <2>6. NewestInv'
    BY <2>2, <2>3, <2>4 DEF NewestInv, TokenTypes
  <2> QED BY <2>5, <2>6
<1>4. ASSUME NEW r \in Callers, Login!AskFails(r) PROVE TokenTypes' /\ NewestInv'
  <2> DEFINE k == [request[r] EXCEPT !.at = "failed"]
  <2>1. request' = [request EXCEPT ![r] = k] /\ request[r].at = "asked"
        /\ UNCHANGED <<issued, token, crossed>>
    BY <1>4 DEF Login!AskFails
  <2>2. k.at = "failed" /\ "at" \in DOMAIN k
    BY DEF TokenTypes
  <2> HIDE DEF k
  <2>4. /\ DOMAIN request' = Callers /\ request'[r] = k /\ AnsweredSet' = AnsweredSet
        /\ \A q \in Callers : "at" \in DOMAIN request'[q]
        /\ \A q \in Callers \ {r} : request'[q] = request[q]
    BY <1>2, <2>1, <2>2
  <2>5. TokenTypes'
    BY <2>1, <2>2, <2>4 DEF TokenTypes
  <2>6. NewestInv'
    BY <2>1, <2>2, <2>4 DEF NewestInv
  <2> QED BY <2>5, <2>6
<1>5. ASSUME NEW r \in Callers, Login!StoreToken(r) PROVE TokenTypes' /\ NewestInv'
  <2> DEFINE k == [at |-> "stored", with |-> request[r].with]
  <2>1. request' = [request EXCEPT ![r] = k] /\ request[r].at = "answered" /\ k.at = "stored" /\ "at" \in DOMAIN k
        /\ UNCHANGED <<issued, crossed>>
        /\ token' = [n |-> request[r].n, refresh |-> request[r].refresh]
    BY <1>5 DEF Login!StoreToken
  <2> HIDE DEF k
  <2>4. /\ DOMAIN request' = Callers /\ request'[r] = k /\ AnsweredSet' = AnsweredSet
        /\ \A q \in Callers : "at" \in DOMAIN request'[q]
        /\ \A q \in Callers \ {r} : request'[q] = request[q]
    BY <1>2, <2>1
  <2>5. token' \in [n : Nat, refresh : BOOLEAN] /\ token'.n = request[r].n /\ token'.n \in 1 .. issued
    BY <2>1 DEF TokenTypes
  <2>6. TokenTypes'
    BY <2>1, <2>4, <2>5 DEF TokenTypes
  <2>7. NewestInv'
    BY <2>1, <2>4, <2>5 DEF NewestInv
  <2> QED BY <2>6, <2>7
<1>6. ASSUME NEW r \in Callers, Login!Answer(r) PROVE TokenTypes' /\ NewestInv'
  <2>1. PICK refresh \in BOOLEAN : request' = [request EXCEPT ![r] =
         [at |-> "answered", with |-> request[r].with, n |-> issued + 1,
          refresh |-> refresh \/ request[r].with # None]]
    BY <1>6 DEF Login!Answer
  <2> DEFINE k == [at |-> "answered", with |-> request[r].with, n |-> issued + 1,
                   refresh |-> refresh \/ request[r].with # None]
  <2>2. request' = [request EXCEPT ![r] = k] /\ k.at = "answered" /\ k.n = issued + 1
        /\ k.refresh \in BOOLEAN /\ "at" \in DOMAIN k
    BY <2>1
  <2> HIDE DEF k
  <2>3. request[r].at = "asked" /\ issued' = issued + 1 /\ UNCHANGED <<token, crossed>>
    BY <1>6 DEF Login!Answer
  <2>4. /\ DOMAIN request' = Callers /\ request'[r] = k
        /\ \A q \in Callers \ {r} : request'[q] = request[q]
        /\ \A q \in Callers : "at" \in DOMAIN request'[q]
    BY <2>2 DEF TokenTypes
  <2>5. r \notin AnsweredSet /\ AnsweredSet' = AnsweredSet \cup {r}
    BY <2>2, <2>3, <2>4 DEF AnsweredSet
  <2>6. Cardinality(AnsweredSet') = issued'
    <3>1. IsFiniteSet(AnsweredSet)
      BY FS_Subset DEF LoginFits, AnsweredSet
    <3> QED BY <2>3, <2>5, <3>1, FS_AddElement DEF TokenTypes
  <2>7. issued \in Nat /\ 1 .. issued \subseteq 1 .. issued' /\ issued' \in 1 .. issued' /\ issued' \in Nat
    BY <2>3 DEF TokenTypes
  <2>8. TokenTypes'
    BY <2>2, <2>3, <2>4, <2>6, <2>7 DEF TokenTypes
  <2>9. NewestInv'
    BY <2>2, <2>3, <2>4 DEF NewestInv
  <2> QED BY <2>8, <2>9
<1> QED
  <2>1. ASSUME ~ UNCHANGED Login!tokens PROVE \E r \in Callers : Login!Ask(r) \/ Login!Answer(r) \/ Login!StoreToken(r) \/ Login!AskFails(r)
    BY <2>1 DEF Login!Next, Login!StartCallbackServer, Login!TakeCode, Login!TakeState,
       Login!TakeError, Login!Cancel, Login!Shutdown, Login!Arrive, Login!PutCode,
       Login!PutState, Login!PutError
  <2> QED BY <1>1, <1>3, <1>4, <1>5, <1>6, <2>1

\* A step of the login keeps its invariant.
LEMMA LoginStep == LoginFits /\ LoginInv /\ Login!Next => LoginInv'
BY CallbackStep, TokenStep DEF LoginInv

\* What the invariant says of the sign-in.
LEMMA LoginIsSound ==
  ASSUME LoginFits, LoginInv
  PROVE  Login!TypeOK /\ Login!LoneCallbackReturns /\ Login!NewestUnlessOverlapping
<1> USE DEF LoginInv
<1>1. Login!TypeOK
  <2>1. issued \in 0 .. Login!Cardinality(Callers) /\ Login!Cardinality(Callers) \in Nat
    <3>1. Login!Cardinality(Callers) = Cardinality(Callers)
      BY DEF Login!Cardinality, Cardinality
    <3>2. Cardinality(AnsweredSet) <= Cardinality(Callers)
          /\ Cardinality(Callers) \in Nat
      BY FS_Subset, FS_CardinalityType DEF LoginFits, AnsweredSet
    <3> QED BY <3>1, <3>2 DEF TokenTypes
  <2>2. token \in Login!Token \cup {None}
    <3>1. CASE token \in [n : Nat, refresh : BOOLEAN] /\ token.n \in 1 .. issued
      <4>1. token.n \in 1 .. Login!Cardinality(Callers)
        BY <2>1, <3>1 DEF TokenTypes
      <4> QED BY <3>1, <4>1 DEF Login!Token
    <3> QED BY <3>1 DEF TokenTypes
  <2>3. \A q \in {codeCh, stateCh, errCh} : Len(q) <= 1 /\ \A k \in DOMAIN q : q[k] \in Ids
    <3>1. \A q \in {codeCh, stateCh, errCh} : q = <<>> \/ \E h \in Ids : q = <<h>>
      BY DEF CallbackInv, Holds
    <3>2. \A h \in Ids : Len(<<h>>) = 1 /\ DOMAIN <<h>> = {1} /\ <<h>>[1] = h
      OBVIOUS
    <3>3. Len(<<>>) = 0 /\ DOMAIN <<>> = {}
      OBVIOUS
    <3> DEFINE fits(q) == Len(q) <= 1 /\ \A k \in DOMAIN q : q[k] \in Ids
    <3>4. \A q : (q = <<>> \/ \E h \in Ids : q = <<h>>) => fits(q)
      BY <3>2, <3>3
    <3> HIDE DEF fits
    <3>5. \A q \in {codeCh, stateCh, errCh} : fits(q)
      BY <3>1, <3>4
    <3> QED BY <3>5 DEF fits
  <2> QED BY <2>1, <2>2, <2>3 DEF Login!TypeOK, CallbackInv, TokenTypes
<1>2. Login!LoneCallbackReturns
  <2> SUFFICES ASSUME Login!Cardinality(Login!Arrived) <= 1
               PROVE /\ taken.state # None => taken.state = taken.code
                     /\ \A h \in Login!Arrived :
                          /\ handler[h].at = "code" => codeCh = <<>>
                          /\ handler[h].at = "state" => stateCh = <<>>
    BY DEF Login!LoneCallbackReturns
  <2>1. taken.state # None => taken.state = taken.code
    BY LoneArrival DEF CallbackInv
  <2>2. ASSUME NEW h \in Login!Arrived, handler[h].at = "code", codeCh # <<>> PROVE FALSE
    <3>1. PICK g \in Ids : codeCh = <<g>> /\ handler[g].at \in {"state", "done"}
      BY <2>2 DEF CallbackInv, Holds
    <3>2. g \in Login!Arrived
      BY <3>1 DEF Login!Arrived
    <3> QED BY <2>2, <3>1, <3>2, LoneArrival
  <2>3. ASSUME NEW h \in Login!Arrived, handler[h].at = "state", stateCh # <<>> PROVE FALSE
    <3>1. PICK g \in Ids : stateCh = <<g>> /\ handler[g].at = "done"
      BY <2>3 DEF CallbackInv, Holds
    <3>2. g \in Login!Arrived
      BY <3>1 DEF Login!Arrived
    <3> QED BY <2>3, <3>1, <3>2, LoneArrival
  <2> QED BY <2>1, <2>2, <2>3
<1>3. Login!NewestUnlessOverlapping
  BY DEF NewestInv, Login!NewestUnlessOverlapping
<1> QED BY <1>1, <1>2, <1>3

-------------------------------------------------------------------------------
(* Server settings.                                                        *)

\* A list of nodes that has one, and each once.
ListSound(nodes) ==
  /\ nodes \in Seq(Settings!Node) /\ Len(nodes) > 0
  /\ \A i \in 1 .. Len(nodes), j \in 1 .. Len(nodes) : nodes[i].id = nodes[j].id => i = j
\* A copy of the settings whose top level is a copy of one of its nodes.
CopySound(s) ==
  /\ s \in Settings!Settings /\ ListSound(s.nodes)
  /\ \E i \in 1 .. Len(s.nodes) : s.nodes[i].id = s.active /\ s.nodes[i].token = s.token
\* The tokens of a copy were entered for the nodes that have them.
TokensEntered(s) ==
  \A i \in 1 .. Len(s.nodes) : s.nodes[i].token \in entered[s.nodes[i].id]
SettingsInv ==
  /\ CopySound(disk) /\ CopySound(form) /\ CopySound(reader.s) /\ CopySound(export)
  /\ unsaved \in BOOLEAN /\ imported \in BOOLEAN
  /\ reader.pc \in {"idle", "nodes", "patch"}
  /\ entered \in [Nodes -> SUBSET (Tokens \cup {Blank})]
  /\ \A n \in Nodes : Blank \in entered[n]
  /\ ~imported => TokensEntered(disk) /\ TokensEntered(form) /\ TokensEntered(reader.s)

\* The node that is selected is in the list, and the one with the id if it is.
LEMMA SelectedIsThere ==
  ASSUME NEW nodes, ListSound(nodes), NEW id
  PROVE  /\ Settings!Selected(nodes, id) \in 1 .. Len(nodes)
         /\ \A i \in 1 .. Len(nodes) : nodes[i].id = id => Settings!Selected(nodes, id) = i
<1>0. DOMAIN nodes = 1 .. Len(nodes) /\ 1 \in 1 .. Len(nodes)
  BY DEF ListSound
<1>1. CASE id \in Settings!IdsOf(nodes)
  <2>1. \E i \in DOMAIN nodes : nodes[i].id = id
    BY <1>1 DEF Settings!IdsOf
  <2>2. Settings!Selected(nodes, id) = CHOOSE i \in DOMAIN nodes : nodes[i].id = id
    BY <1>1 DEF Settings!Selected
  <2>3. /\ Settings!Selected(nodes, id) \in DOMAIN nodes
        /\ nodes[Settings!Selected(nodes, id)].id = id
    BY <2>1, <2>2
  <2> QED BY <1>0, <2>3 DEF ListSound
<1>2. CASE id \notin Settings!IdsOf(nodes)
  <2>1. Settings!Selected(nodes, id) = 1
    BY <1>2 DEF Settings!Selected
  <2> QED BY <1>0, <1>2, <2>1 DEF Settings!IdsOf
<1> QED BY <1>1, <1>2

\* What is read from a sound list is a sound copy of it.
LEMMA LoadedIsSound ==
  ASSUME NEW nodes, ListSound(nodes), NEW id
  PROVE  CopySound(Settings!Loaded(nodes, id)) /\ Settings!Loaded(nodes, id).nodes = nodes
<1> DEFINE i == Settings!Selected(nodes, id)
<1>1. i \in 1 .. Len(nodes) /\ nodes \in Seq(Settings!Node)
  BY SelectedIsThere DEF ListSound
<1>2. Settings!Loaded(nodes, id) =
        [nodes |-> nodes, active |-> nodes[i].id, token |-> nodes[i].token]
  BY DEF Settings!Loaded
<1> HIDE DEF i
<1>3. nodes[i] \in Settings!Node
  BY <1>1
<1>4. nodes[i].id \in Nodes /\ nodes[i].token \in Tokens \cup {Blank}
  BY <1>3 DEF Settings!Node
<1> QED BY <1>1, <1>2, <1>4 DEF CopySound, Settings!Settings

\* A node's new token.
LEMMA WithToken ==
  ASSUME NEW nodes, ListSound(nodes), NEW i \in 1 .. Len(nodes), NEW t \in Tokens \cup {Blank}
  PROVE  LET new == [nodes EXCEPT ![i].token = t]
         IN /\ ListSound(new) /\ Len(new) = Len(nodes)
            /\ new[i].id = nodes[i].id /\ new[i].token = t
            /\ \A j \in 1 .. Len(nodes) : new[j].id = nodes[j].id /\ (j # i => new[j] = nodes[j])
<1> DEFINE k == [nodes[i] EXCEPT !.token = t]
           new == [nodes EXCEPT ![i] = k]
<1>1. nodes \in Seq(Settings!Node) /\ nodes[i] \in Settings!Node
  BY DEF ListSound
<1>2. k \in Settings!Node /\ k.id = nodes[i].id /\ k.token = t
  BY <1>1 DEF Settings!Node
<1>3. [nodes EXCEPT ![i].token = t] = new
  OBVIOUS
<1> HIDE DEF k
<1>4. /\ new \in Seq(Settings!Node) /\ Len(new) = Len(nodes)
      /\ \A j \in 1 .. Len(nodes) : new[j] = IF j = i THEN k ELSE nodes[j]
  BY <1>1, <1>2, ExceptSeq
<1> HIDE DEF new
<1>5. ListSound(new)
  BY <1>2, <1>4 DEF ListSound
<1> QED BY <1>2, <1>3, <1>4, <1>5

\* Reading and saving a sound copy changes nothing.
LEMMA SoundIsSettled ==
  ASSUME NEW s, CopySound(s)
  PROVE  s = Settings!Loaded(s.nodes, s.active) /\ s = Settings!Normalize(s)
<1> DEFINE i == Settings!Selected(s.nodes, s.active)
           new == [s.nodes EXCEPT ![i].token = s.token]
<1>1. /\ i \in 1 .. Len(s.nodes) /\ s.nodes[i].id = s.active /\ s.nodes[i].token = s.token
  BY SelectedIsThere DEF CopySound
<1>2. s = [nodes |-> s.nodes, active |-> s.active, token |-> s.token]
  BY DEF CopySound, Settings!Settings
<1>3. s = Settings!Loaded(s.nodes, s.active)
  BY <1>1, <1>2 DEF Settings!Loaded
<1>4. new = s.nodes
  <2>1. s.nodes \in Seq(Settings!Node) /\ s.nodes[i] \in Settings!Node
    BY <1>1 DEF CopySound, ListSound
  <2>2. [s.nodes[i] EXCEPT !.token = s.token] = s.nodes[i]
    BY <1>1, <2>1 DEF Settings!Node
  <2>3. new = [s.nodes EXCEPT ![i] = [s.nodes[i] EXCEPT !.token = s.token]]
    OBVIOUS
  <2> HIDE DEF new, i
  <2>4. new = [s.nodes EXCEPT ![i] = s.nodes[i]]
    BY <2>2, <2>3
  <2> QED BY <2>1, <2>4, <1>1
<1>5. Settings!Normalize(s) = Settings!Loaded(new, s.nodes[i].id)
  BY DEF Settings!Normalize
<1> QED BY <1>1, <1>3, <1>4, <1>5

\* A save settles what it stores; the token goes to the node in use.
LEMMA NormalizeIsSound ==
  ASSUME NEW s, CopySound(s), NEW t \in Tokens \cup {Blank}
  PROVE  LET n == Settings!Normalize([s EXCEPT !.token = t])
         IN /\ CopySound(n) /\ Len(n.nodes) = Len(s.nodes)
            /\ \A j \in 1 .. Len(s.nodes) :
                 /\ n.nodes[j].id = s.nodes[j].id
                 /\ n.nodes[j].token = IF s.nodes[j].id = s.active THEN t ELSE s.nodes[j].token
<1> DEFINE r == [s EXCEPT !.token = t]
           i == Settings!Selected(s.nodes, s.active)
           new == [s.nodes EXCEPT ![i].token = t]
<1>1. r.nodes = s.nodes /\ r.active = s.active /\ r.token = t
  BY DEF CopySound, Settings!Settings
<1>2. ListSound(s.nodes) /\ i \in 1 .. Len(s.nodes) /\ s.nodes[i].id = s.active
  BY SelectedIsThere DEF CopySound
<1>3. Settings!Normalize(r) = Settings!Loaded(new, s.nodes[i].id)
  BY <1>1 DEF Settings!Normalize
<1> HIDE DEF r, i
<1>4. /\ ListSound(new) /\ Len(new) = Len(s.nodes)
      /\ new[i].id = s.nodes[i].id /\ new[i].token = t
      /\ \A j \in 1 .. Len(s.nodes) : new[j].id = s.nodes[j].id /\ (j # i => new[j] = s.nodes[j])
  BY <1>2, WithToken
<1> HIDE DEF new
<1>5. CopySound(Settings!Normalize(r)) /\ Settings!Normalize(r).nodes = new
  BY <1>3, <1>4, LoadedIsSound
<1>6. \A j \in 1 .. Len(s.nodes) : s.nodes[j].id = s.active <=> j = i
  BY <1>2 DEF ListSound
<1> QED BY <1>4, <1>5, <1>6 DEF r

\* A copy without its tokens gives no node the token of another.
LEMMA RedactedIsSound ==
  ASSUME NEW s, CopySound(s) PROVE CopySound(Settings!Redacted(s))
<1> DEFINE new == [i \in DOMAIN s.nodes |-> [s.nodes[i] EXCEPT !.token = Blank]]
           n == Settings!Redacted(s)
<1>1. s.nodes \in Seq(Settings!Node) /\ DOMAIN s.nodes = 1 .. Len(s.nodes) /\ Len(s.nodes) \in Nat
  BY DEF CopySound, ListSound
<1>2. n = [nodes |-> new, active |-> s.active, token |-> Blank]
  BY DEF Settings!Redacted
<1>3. \A i \in 1 .. Len(s.nodes) : /\ [s.nodes[i] EXCEPT !.token = Blank] \in Settings!Node
                                   /\ [s.nodes[i] EXCEPT !.token = Blank].id = s.nodes[i].id
                                   /\ [s.nodes[i] EXCEPT !.token = Blank].token = Blank
  <2> TAKE i \in 1 .. Len(s.nodes)
  <2>1. s.nodes[i] \in Settings!Node
    BY <1>1
  <2> QED BY <2>1 DEF Settings!Node
<1>4. /\ new \in Seq(Settings!Node) /\ Len(new) = Len(s.nodes)
      /\ \A i \in 1 .. Len(s.nodes) : new[i].id = s.nodes[i].id /\ new[i].token = Blank
  BY <1>1, <1>3
<1> HIDE DEF new
<1>5. ListSound(new)
  BY <1>4 DEF CopySound, ListSound
<1>6. s.active \in Nodes
  BY DEF CopySound, Settings!Settings
<1>7. n \in Settings!Settings /\ n.nodes = new /\ n.active = s.active /\ n.token = Blank
  BY <1>2, <1>4, <1>6 DEF Settings!Settings
<1> HIDE DEF n
<1>8. CopySound(n)
  BY <1>4, <1>5, <1>7 DEF CopySound
<1> QED BY <1>8 DEF n

\* The settings of a first start.
LEMMA FirstIsSound ==
  CopySound(Settings!First) /\ \A i \in 1 .. Len(Settings!First.nodes) :
    Settings!First.nodes[i].id = Default /\ Settings!First.nodes[i].token = Blank
<1> DEFINE nodes == <<[id |-> Default, token |-> Blank]>>
<1>1. [id |-> Default, token |-> Blank] \in Settings!Node
  BY ConstantsFit DEF ConstantsFit, Settings!DefaultAssumption, Settings!Node
<1>2. nodes \in Seq(Settings!Node) /\ Len(nodes) = 1 /\ nodes[1].token = Blank /\ nodes[1].id = Default
  BY <1>1
<1>3. ListSound(nodes)
  BY <1>2 DEF ListSound
<1>4. Settings!First = Settings!Loaded(nodes, Default)
  BY DEF Settings!First
<1> HIDE DEF nodes
<1> QED BY <1>2, <1>3, <1>4, LoadedIsSound

\* The settings start in their invariant.
LEMMA SettingsInit == Settings!Init => SettingsInv
<1> SUFFICES ASSUME Settings!Init PROVE SettingsInv
  OBVIOUS
<1>1. CopySound(Settings!First) /\ CopySound(Settings!Redacted(Settings!First))
  BY FirstIsSound, RedactedIsSound
<1>2. Settings!NoCall.s = Settings!First /\ Settings!NoCall.pc = "idle"
  BY DEF Settings!NoCall
<1>3. /\ disk = Settings!First /\ form = Settings!First /\ reader = Settings!NoCall
      /\ export = Settings!Redacted(Settings!First) /\ unsaved = FALSE /\ imported = FALSE
      /\ entered = [n \in Nodes |-> {Blank}]
  BY DEF Settings!Init
<1>4. Default \in Nodes
  BY ConstantsFit DEF ConstantsFit, Settings!DefaultAssumption
<1>5. TokensEntered(Settings!First)
  BY <1>3, <1>4, FirstIsSound DEF TokensEntered
<1> QED BY <1>1, <1>2, <1>3, <1>5 DEF SettingsInv

\* Tokens that are entered stay entered.
LEMMA EnteredStays ==
  ASSUME NEW s, TokensEntered(s), CopySound(s),
         entered \in [Nodes -> SUBSET (Tokens \cup {Blank})],
         \A n \in Nodes : entered[n] \subseteq entered'[n]
  PROVE  \A i \in 1 .. Len(s.nodes) : s.nodes[i].token \in entered'[s.nodes[i].id]
<1> SUFFICES ASSUME NEW i \in 1 .. Len(s.nodes) PROVE s.nodes[i].token \in entered'[s.nodes[i].id]
  OBVIOUS
<1>1. s.nodes[i] \in Settings!Node
  BY DEF CopySound, ListSound
<1>2. s.nodes[i].id \in Nodes
  BY <1>1 DEF Settings!Node
<1> QED BY <1>2 DEF TokensEntered

\* A change of the form.
LEMMA FormStep ==
  ASSUME SettingsInv, NEW nodes, NEW id, ListSound(nodes), Settings!Change(nodes, id),
         entered' \in [Nodes -> SUBSET (Tokens \cup {Blank})],
         \A n \in Nodes : entered[n] \subseteq entered'[n],
         ~imported => \A i \in 1 .. Len(nodes) : nodes[i].token \in entered'[nodes[i].id]
  PROVE  SettingsInv'
<1>1. /\ form' = Settings!Loaded(nodes, id) /\ unsaved' = TRUE
      /\ UNCHANGED <<disk, reader, export, imported>>
  BY DEF Settings!Change
<1>2. CopySound(form') /\ form'.nodes = nodes
  BY <1>1, LoadedIsSound
<1>3. ~imported' => TokensEntered(disk)' /\ TokensEntered(reader.s)'
  BY <1>1, EnteredStays DEF SettingsInv, TokensEntered
<1>4. ~imported' => TokensEntered(form)'
  BY <1>1, <1>2 DEF TokensEntered
<1>5. CopySound(disk)' /\ CopySound(form)' /\ CopySound(reader.s)' /\ CopySound(export)'
  BY <1>1, <1>2 DEF SettingsInv
<1> QED BY <1>1, <1>3, <1>4, <1>5 DEF SettingsInv

\* A save, of a copy with a new token at top level.
LEMMA SaveStep ==
  ASSUME SettingsInv, NEW s, CopySound(s), NEW t \in Tokens \cup {Blank},
         Settings!Store([s EXCEPT !.token = t]),
         form' = form, export' = export, unsaved' \in BOOLEAN, imported' \in BOOLEAN,
         imported => imported',
         reader' = reader \/ reader' = Settings!NoCall,
         entered' \in [Nodes -> SUBSET (Tokens \cup {Blank})],
         \A n \in Nodes : entered[n] \subseteq entered'[n],
         ~imported' => TokensEntered(s) /\ t \in entered'[s.active]
  PROVE  SettingsInv'
<1> DEFINE n == Settings!Normalize([s EXCEPT !.token = t])
<1>1. disk' = n
  BY DEF Settings!Store
<1>2. /\ CopySound(n) /\ Len(n.nodes) = Len(s.nodes)
      /\ \A j \in 1 .. Len(s.nodes) :
           /\ n.nodes[j].id = s.nodes[j].id
           /\ n.nodes[j].token = IF s.nodes[j].id = s.active THEN t ELSE s.nodes[j].token
  BY NormalizeIsSound
<1> HIDE DEF n
<1>3. CopySound(reader'.s) /\ reader'.pc \in {"idle", "nodes", "patch"}
  BY FirstIsSound DEF SettingsInv, Settings!NoCall
<1>4. ASSUME ~imported' PROVE TokensEntered(disk)' /\ TokensEntered(form)' /\ TokensEntered(reader.s)'
  <2>0. ~imported
    BY <1>4
  <2>1. TokensEntered(form)'
    BY <2>0, EnteredStays DEF SettingsInv, TokensEntered
  <2>2. TokensEntered(reader.s)'
    <3>1. CASE reader' = reader
      BY <2>0, <3>1, EnteredStays DEF SettingsInv, TokensEntered
    <3>2. CASE reader' # reader
      <4>1. reader'.s = Settings!First
        BY <3>2 DEF Settings!NoCall
      <4>2. Default \in Nodes /\ Blank \in entered'[Default]
        BY ConstantsFit DEF ConstantsFit, Settings!DefaultAssumption, SettingsInv
      <4> QED BY <4>1, <4>2, FirstIsSound DEF TokensEntered
    <3> QED BY <3>1, <3>2
  <2>3. TokensEntered(disk)'
    <3>1. \A j \in 1 .. Len(s.nodes) : s.nodes[j].token \in entered'[s.nodes[j].id]
      BY <1>4, EnteredStays DEF SettingsInv
    <3> QED BY <1>1, <1>2, <1>4, <3>1 DEF TokensEntered
  <2> QED BY <2>1, <2>2, <2>3
<1>5. CopySound(disk)' /\ CopySound(form)' /\ CopySound(reader.s)' /\ CopySound(export)'
  BY <1>1, <1>2, <1>3 DEF SettingsInv
<1> QED BY <1>3, <1>4, <1>5 DEF SettingsInv

\* A step of the settings keeps their invariant.
LEMMA SettingsStep == SettingsInv /\ Settings!Next => SettingsInv'
<1> SUFFICES ASSUME SettingsInv, Settings!Next PROVE SettingsInv'
  OBVIOUS
<1> DEFINE Entered == [Nodes -> SUBSET (Tokens \cup {Blank})]
<1>0. /\ CopySound(disk) /\ CopySound(form) /\ CopySound(reader.s) /\ CopySound(export)
      /\ entered \in Entered
      /\ ListSound(form.nodes) /\ DOMAIN form.nodes = 1 .. Len(form.nodes)
      /\ ListSound(reader.s.nodes)
  <2>1. CopySound(disk) /\ CopySound(form) /\ CopySound(reader.s) /\ CopySound(export)
        /\ entered \in Entered
    BY DEF SettingsInv
  <2>2. ListSound(form.nodes) /\ ListSound(reader.s.nodes)
    BY <2>1 DEF CopySound
  <2>3. DOMAIN form.nodes = 1 .. Len(form.nodes)
    BY <2>2 DEF ListSound
  <2> QED BY <2>1, <2>2, <2>3
\* A token that is entered for node n.
<1>e. ASSUME NEW n \in Nodes, NEW t \in Tokens,
             entered' = [entered EXCEPT ![n] = @ \cup {t}]
      PROVE /\ entered' \in Entered /\ t \in entered'[n]
            /\ \A m \in Nodes : entered[m] \subseteq entered'[m]
  BY <1>0, <1>e
<1>f. \A i \in 1 .. Len(form.nodes) : form.nodes[i] \in Settings!Node /\ form.nodes[i].id \in Nodes
  <2> TAKE i \in 1 .. Len(form.nodes)
  <2>1. form.nodes \in Seq(Settings!Node)
    BY <1>0 DEF ListSound
  <2>2. form.nodes[i] \in Settings!Node
    BY <2>1
  <2> QED BY <2>2 DEF Settings!Node
<1>1. CASE Settings!OpenForm
  BY <1>1 DEF Settings!OpenForm, SettingsInv, TokensEntered
<1>2. CASE Settings!SaveForm
  <2>1. form = [form EXCEPT !.token = form.token] /\ form.token \in Tokens \cup {Blank}
    BY <1>0 DEF CopySound, Settings!Settings
  <2>2. ~imported => TokensEntered(form) /\ form.token \in entered[form.active]
    BY <1>0 DEF SettingsInv, TokensEntered, CopySound
  <2>3. /\ Settings!Store([form EXCEPT !.token = form.token]) /\ unsaved' = FALSE
        /\ UNCHANGED <<form, reader, export, entered, imported>>
    BY <1>2, <2>1 DEF Settings!SaveForm
  <2>4. unsaved' \in BOOLEAN /\ imported' \in BOOLEAN /\ entered' \in Entered
        /\ (imported => imported') /\ \A n \in Nodes : entered[n] \subseteq entered'[n]
    BY <1>0, <2>3 DEF SettingsInv
  <2> QED BY <1>0, <2>1, <2>2, <2>3, <2>4, SaveStep
<1>3. CASE Settings!ReadNodes
  <2>1. reader'.s = disk /\ reader'.pc = "nodes"
        /\ UNCHANGED <<disk, form, unsaved, export, entered, imported>>
    BY <1>3 DEF Settings!ReadNodes
  <2> QED BY <2>1 DEF SettingsInv, TokensEntered
<1>4. CASE Settings!ReadActive
  <2>1. reader'.s = Settings!Loaded(reader.s.nodes, disk.active) /\ reader'.pc = "patch"
        /\ UNCHANGED <<disk, form, unsaved, export, entered, imported>>
    BY <1>4 DEF Settings!ReadActive
  <2>2. CopySound(reader'.s) /\ reader'.s.nodes = reader.s.nodes
    BY <1>0, <2>1, LoadedIsSound
  <2> QED BY <2>1, <2>2 DEF SettingsInv, TokensEntered
<1>5. ASSUME NEW t \in Tokens, Settings!PatchAndSave(t) PROVE SettingsInv'
  <2>1. /\ Settings!Store([reader.s EXCEPT !.token = t]) /\ reader' = Settings!NoCall
        /\ entered' = [entered EXCEPT ![reader.s.active] = @ \cup {t}]
        /\ UNCHANGED <<form, unsaved, export, imported>>
    BY <1>5 DEF Settings!PatchAndSave
  <2>2. reader.s.active \in Nodes
    BY <1>0 DEF CopySound, Settings!Settings
  <2>3. /\ entered' \in Entered /\ t \in entered'[reader.s.active]
        /\ \A m \in Nodes : entered[m] \subseteq entered'[m]
    BY <1>e, <2>1, <2>2
  <2>4. unsaved' \in BOOLEAN /\ imported' \in BOOLEAN /\ (imported => imported')
        /\ (~imported' => TokensEntered(reader.s))
    BY <2>1 DEF SettingsInv
  <2> QED BY <1>0, <2>1, <2>3, <2>4, SaveStep
<1>6. ASSUME NEW t \in Tokens, NEW id \in Nodes, Settings!AddNode(id, t) PROVE SettingsInv'
  <2> DEFINE k == [id |-> id, token |-> t]
             new == Append(form.nodes, k)
             n == Len(form.nodes)
  <2>1. k \in Settings!Node /\ k.id = id /\ k.token = t
    BY DEF Settings!Node
  <2> HIDE DEF k
  <2>2. /\ new \in Seq(Settings!Node) /\ Len(new) = n + 1 /\ n \in Nat
        /\ new[n + 1] = k
        /\ \A i \in 1 .. n : new[i] = form.nodes[i]
    BY <1>0, <2>1 DEF ListSound
  <2>3. \A i \in 1 .. n : form.nodes[i].id # id
    BY <1>0, <1>6 DEF Settings!AddNode, Settings!IdsOf
  <2>4. Settings!Change(new, id) /\ entered' = [entered EXCEPT ![id] = @ \cup {t}]
    BY <1>6 DEF Settings!AddNode, k
  <2> HIDE DEF new, n
  <2>5. 1 .. n + 1 = 1 .. n \cup {n + 1}
    BY <2>2
  <2>6. ListSound(new)
    <3>1. \A i \in 1 .. n, j \in 1 .. n : form.nodes[i].id = form.nodes[j].id => i = j
      BY <1>0 DEF ListSound, n
    <3>2. \A i \in 1 .. n : new[i].id # k.id
      BY <2>1, <2>2, <2>3
    <3>3. Len(new) > 0
      BY <2>2
    <3> SUFFICES ASSUME NEW i \in 1 .. n + 1, NEW j \in 1 .. n + 1, new[i].id = new[j].id
                 PROVE i = j
      BY <2>2, <3>3 DEF ListSound
    <3> QED BY <2>2, <2>5, <3>1, <3>2
  <2>7. /\ entered' \in Entered /\ t \in entered'[id]
        /\ \A m \in Nodes : entered[m] \subseteq entered'[m]
    BY <1>e, <2>4
  <2>8. ~imported => \A i \in 1 .. Len(new) : new[i].token \in entered'[new[i].id]
    <3>1. ~imported => \A i \in 1 .. n : form.nodes[i].token \in entered'[form.nodes[i].id]
      BY <1>f, <2>7 DEF SettingsInv, TokensEntered, n
    <3> QED BY <2>1, <2>2, <2>5, <2>7, <3>1
  <2> QED BY <2>4, <2>6, <2>7, <2>8, FormStep
<1>7. ASSUME NEW t \in Tokens, NEW i \in DOMAIN form.nodes, Settings!EditNode(i, t) PROVE SettingsInv'
  <2> DEFINE new == [form.nodes EXCEPT ![i].token = t]
             n == Len(form.nodes)
  <2>0. i \in 1 .. n
    BY <1>0
  <2>1. /\ ListSound(new) /\ Len(new) = n
        /\ new[i].id = form.nodes[i].id /\ new[i].token = t
        /\ \A j \in 1 .. n : new[j].id = form.nodes[j].id /\ (j # i => new[j] = form.nodes[j])
    BY <1>0, <2>0, WithToken
  <2>2. Settings!Change(new, form.active)
        /\ entered' = [entered EXCEPT ![form.nodes[i].id] = @ \cup {t}]
    BY <1>7 DEF Settings!EditNode
  <2> HIDE DEF new, n
  <2>3. /\ entered' \in Entered /\ t \in entered'[form.nodes[i].id]
        /\ \A m \in Nodes : entered[m] \subseteq entered'[m]
    BY <1>e, <1>f, <2>0, <2>2 DEF n
  <2>4. ~imported => \A j \in 1 .. Len(new) : new[j].token \in entered'[new[j].id]
    <3>1. ~imported => \A j \in 1 .. n : form.nodes[j].token \in entered'[form.nodes[j].id]
      BY <1>f, <2>3 DEF SettingsInv, TokensEntered, n
    <3> QED BY <2>1, <2>3, <3>1
  <2> QED BY <2>1, <2>2, <2>3, <2>4, FormStep
<1>8. ASSUME NEW i \in DOMAIN form.nodes, Settings!DeleteNode(i) PROVE SettingsInv'
  <2> DEFINE n == Len(form.nodes)
             before == SubSeq(form.nodes, 1, i - 1)
             after == SubSeq(form.nodes, i + 1, n)
             new == Settings!RemoveAt(form.nodes, i)
             old(j) == IF j < i THEN j ELSE j + 1
  <2>1. i \in 1 .. n /\ n \in Nat /\ n > 1 /\ form.nodes \in Seq(Settings!Node)
    BY <1>0, <1>8 DEF ListSound, Settings!DeleteNode
  <2>2. /\ before \in Seq(Settings!Node) /\ Len(before) = i - 1
        /\ \A j \in 1 .. i - 1 : before[j] = form.nodes[j]
    BY <2>1
  <2>3. /\ after \in Seq(Settings!Node) /\ Len(after) = n - i
        /\ \A j \in 1 .. n - i : after[j] = form.nodes[i + j]
    BY <2>1
  <2>4. new = before \o after
    BY DEF Settings!RemoveAt
  <2>5. Settings!Change(new, form.active) /\ entered' = entered
    BY <1>8 DEF Settings!DeleteNode
  <2> HIDE DEF before, after, new, n
  <2>6. /\ new \in Seq(Settings!Node) /\ Len(new) = n - 1
        /\ \A j \in 1 .. n - 1 : new[j] = form.nodes[old(j)] /\ old(j) \in 1 .. n
    <3>1. /\ new \in Seq(Settings!Node) /\ Len(new) = (i - 1) + (n - i)
          /\ \A j \in 1 .. (i - 1) + (n - i) :
               new[j] = IF j <= i - 1 THEN before[j] ELSE after[j - (i - 1)]
      <4>1. /\ before \o after \in Seq(Settings!Node)
            /\ Len(before \o after) = Len(before) + Len(after)
            /\ \A j \in 1 .. Len(before) + Len(after) : (before \o after)[j] =
                 IF j <= Len(before) THEN before[j] ELSE after[j - Len(before)]
        BY <2>2, <2>3, ConcatProperties
      <4> QED BY <2>2, <2>3, <2>4, <4>1
    <3>2. (i - 1) + (n - i) = n - 1
      BY <2>1
    <3>3. ASSUME NEW j \in 1 .. n - 1 PROVE new[j] = form.nodes[old(j)] /\ old(j) \in 1 .. n
      <4>1. CASE j < i
        BY <2>1, <2>2, <3>1, <3>2, <4>1
      <4>2. CASE ~(j < i)
        <5>1. j - (i - 1) \in 1 .. n - i /\ i + (j - (i - 1)) = j + 1
          BY <2>1, <4>2
        <5>2. new[j] = after[j - (i - 1)]
          BY <2>1, <3>1, <3>2, <4>2
        <5> QED BY <2>1, <2>3, <4>2, <5>1, <5>2
      <4> QED BY <4>1, <4>2
    <3> QED BY <3>1, <3>2, <3>3
  <2>7. \A j \in 1 .. n - 1, k \in 1 .. n - 1 : old(j) = old(k) => j = k
    BY <2>1
  <2> HIDE DEF old
  <2>8. ListSound(new)
    BY <1>0, <2>1, <2>6, <2>7 DEF ListSound, n
  <2>9. ~imported => \A j \in 1 .. Len(new) : new[j].token \in entered[new[j].id]
    BY <2>6 DEF SettingsInv, TokensEntered, n
  <2>10. entered' \in Entered /\ \A m \in Nodes : entered[m] \subseteq entered'[m]
    BY <1>0, <2>5
  <2> QED BY <2>5, <2>8, <2>9, <2>10, FormStep
<1>9. ASSUME NEW i \in DOMAIN form.nodes, Settings!UseNode(i) PROVE SettingsInv'
  <2>1. Settings!Change(form.nodes, form.nodes[i].id) /\ entered' = entered
    BY <1>9 DEF Settings!UseNode
  <2>2. entered' \in Entered /\ \A m \in Nodes : entered[m] \subseteq entered'[m]
    BY <1>0, <2>1
  <2>3. ~imported => \A j \in 1 .. Len(form.nodes) : form.nodes[j].token \in entered'[form.nodes[j].id]
    BY <2>1 DEF SettingsInv, TokensEntered
  <2> QED BY <1>0, <2>1, <2>2, <2>3, FormStep
<1>10. CASE Settings!Export
  <2>1. export' = Settings!Redacted(disk)
        /\ UNCHANGED <<disk, form, unsaved, reader, entered, imported>>
    BY <1>10 DEF Settings!Export
  <2>2. CopySound(export')
    BY <1>0, <2>1, RedactedIsSound
  <2> QED BY <2>1, <2>2 DEF SettingsInv, TokensEntered
<1>11. CASE Settings!Import
  <2>1. /\ Settings!Store([export EXCEPT !.token = disk.token]) /\ imported' = TRUE
        /\ UNCHANGED <<form, unsaved, reader, export, entered>>
    BY <1>11 DEF Settings!Import
  <2>2. disk.token \in Tokens \cup {Blank}
    BY <1>0 DEF CopySound, Settings!Settings
  <2>3. unsaved' \in BOOLEAN /\ entered' \in Entered /\ \A n \in Nodes : entered[n] \subseteq entered'[n]
    BY <1>0, <2>1 DEF SettingsInv
  <2> QED BY <1>0, <2>1, <2>2, <2>3, SaveStep
<1> QED BY <1>1, <1>2, <1>3, <1>4, <1>5, <1>6, <1>7, <1>8, <1>9, <1>10, <1>11 DEF Settings!Next

\* What the invariant says of the settings.
LEMMA SettingsAreSettled ==
  ASSUME SettingsInv
  PROVE  Settings!TypeOK /\ Settings!Settled /\ Settings!TokensStayWithTheirNode
<1>1. Settings!TypeOK
  BY DEF SettingsInv, CopySound, Settings!TypeOK
<1>2. CopySound(disk) /\ ListSound(disk.nodes) /\ DOMAIN disk.nodes = 1 .. Len(disk.nodes)
  BY DEF SettingsInv, CopySound, ListSound
<1>3. Settings!Settled
  BY <1>2, SoundIsSettled DEF Settings!Settled, Settings!IsInjective, ListSound
<1>4. Settings!TokensStayWithTheirNode
  BY <1>2 DEF Settings!TokensStayWithTheirNode, SettingsInv, TokensEntered
<1> QED BY <1>1, <1>3, <1>4

\* What is saved from an old copy is still settled and no node has another's
\* token; requests for tokens that do not overlap leave the newest, and a lone
\* callback ends the login that waits for it (app.go: normalizeServerSettings;
\* control_server.go; oidc/client.go).
THEOREM SettingsStaySound == Spec => []SettingsAreSound
<1> DEFINE Inv == /\ part = "settings" => SettingsInv
                  /\ part = "login" => LoginInv
<1>0. LoginFits
  BY LoginFitsAlways
<1>1. Init => Inv
  BY <1>0, SettingsInit, LoginInitInv DEF Init
<1>2. Inv /\ [Next]_vars => Inv'
  <2> SUFFICES ASSUME Inv, [Next]_vars PROVE Inv'
    OBVIOUS
  <2>1. ASSUME part' = "settings" PROVE SettingsInv'
    <3>1. CASE Next
      <4>1. part = "settings" /\ Settings!Next
        BY <2>1, <3>1 DEF Next
      <4> QED BY <4>1, SettingsStep
    <3>2. CASE UNCHANGED vars
      <4>1. SettingsInv /\ UNCHANGED settingVars
        BY <2>1, <3>2 DEF vars
      <4> QED BY <4>1 DEF settingVars, SettingsInv, TokensEntered
    <3> QED BY <3>1, <3>2
  <2>2. ASSUME part' = "login" PROVE LoginInv'
    <3>1. CASE Next
      <4>1. part = "login" /\ Login!Next
        BY <2>2, <3>1 DEF Next
      <4> QED BY <1>0, <4>1, LoginStep
    <3>2. CASE UNCHANGED vars
      <4>1. LoginInv /\ UNCHANGED loginVars
        BY <2>2, <3>2 DEF vars
      <4> QED BY <4>1 DEF loginVars, LoginInv, CallbackInv, Holds, Login!Arrived, TokenTypes,
             AnsweredSet, NewestInv, Pending
    <3> QED BY <3>1, <3>2
  <2> QED BY <2>1, <2>2
<1>3. Inv => SettingsAreSound
  BY <1>0, SettingsAreSettled, LoginIsSound DEF SettingsAreSound
<1> QED BY <1>1, <1>2, <1>3, PTL DEF Spec

-------------------------------------------------------------------------------
(* The virtual network.                                                    *)

RouteLists == {s \in Network!SeqOf(Dests, 2) : Network!IsInjective(s)}
StateRecords == [applied : BOOLEAN, ifc : Ifaces, routes : RouteLists]
Configs == Network!Config \cup StateRecords
Before == {"idle", "fetch", "again", "fetch again", "device", "apply"}
NetCalls == [pc : Before \cup {"add", "delete", "close"},
             cfg : Configs \cup {Network!NoState}, k : Nat]
\* What a call has, from its first step on.
CallFits(k) ==
  /\ k.pc = "idle" => k = Network!Idle
  /\ k.pc \in {"device", "apply", "add", "delete"} => k.cfg \in Configs
  /\ k.pc \in {"add", "delete"} => k.k \in 1 .. Len(k.cfg.routes) + 1

\* The routes of the state the program shows; those a call has added, or has still
\* to delete.
Shown == IF state.applied THEN Network!Routes(state) ELSE {}
Step(cfg, i) == <<cfg.ifc, cfg.routes[i]>>
Added(cfg, k) == {Step(cfg, i) : i \in {j \in 1 .. Len(cfg.routes) : j < k}}
ToDelete(cfg, k) == {Step(cfg, i) : i \in {j \in 1 .. Len(cfg.routes) : j >= k}}
\* The table while the call k is under way and nothing disturbs it.
TableDuring(k) ==
  /\ k.pc \in Before => table = Shown
  /\ k.pc = "add" => table = Shown \cup Added(k.cfg, k.k)
  /\ k.pc = "delete" => table = ToDelete(k.cfg, k.k)
  /\ k.pc = "close" => table = {} /\ ~state.applied

NetTypes ==
  /\ os \in Platforms /\ allocated \in BOOLEAN /\ netDisturbed \in BOOLEAN
  /\ adapters \subseteq Ifaces /\ table \subseteq Ifaces \X Dests
  /\ dev \in Ifaces \cup {None} /\ mu \in Callers \cup {None}
  /\ state \in {Network!NoState} \cup StateRecords
  /\ job \in Seq(Ifaces \X Dests) /\ Len(job) <= 2
  /\ netCall \in [Callers -> NetCalls]
  /\ \A c \in Callers : CallFits(netCall[c])
\* Nothing that was given up goes on, one call is under way and the table is where
\* it has got to.
Undisturbed ==
  ~netDisturbed =>
    /\ job = <<>>
    /\ \A c \in Callers, d \in Callers :
         netCall[c] # Network!Idle /\ netCall[d] # Network!Idle => c = d
    /\ \A c \in Callers : netCall[c] # Network!Idle => TableDuring(netCall[c])
    /\ (\A c \in Callers : netCall[c] = Network!Idle) => table = Shown
NetworkInv == NetTypes /\ Undisturbed

\* A list of routes names each destination once, and at most two.
LEMMA RouteListIs ==
  ASSUME NEW s \in RouteLists
  PROVE  /\ s \in Seq(Dests) /\ Len(s) \in 0 .. 2 /\ DOMAIN s = 1 .. Len(s)
         /\ \A i \in 1 .. Len(s), j \in 1 .. Len(s) : s[i] = s[j] => i = j
<1>1. PICK m \in 0 .. 2 : s \in [1 .. m -> Dests]
  BY DEF RouteLists, Network!SeqOf
<1>2. s \in Seq(Dests) /\ Len(s) = m /\ DOMAIN s = 1 .. m
  BY <1>1
<1>3. Network!IsInjective(s)
  BY DEF RouteLists
<1> QED BY <1>2, <1>3 DEF Network!IsInjective

\* What a configuration of the network is made of.
LEMMA ConfigIs ==
  ASSUME NEW cfg \in Configs
  PROVE  cfg.ifc \in Ifaces /\ cfg.routes \in RouteLists
BY DEF Configs, Network!Config, StateRecords, RouteLists

\* The state after an Apply of cfg.
LEMMA StateFromConfig ==
  ASSUME NEW cfg \in Configs, NEW b \in BOOLEAN
  PROVE  /\ Network!StateFrom(cfg, b) \in StateRecords
         /\ Network!StateFrom(cfg, b).applied = b
         /\ Network!Routes(Network!StateFrom(cfg, b)) = Network!Routes(cfg)
BY ConfigIs DEF Network!StateFrom, StateRecords, Network!Routes

\* Of the routes of a configuration, those behind step k are the one of step k and
\* those behind the next, which do not have it.
LEMMA RoutesInOrder ==
  ASSUME NEW cfg \in Configs, NEW k \in 1 .. Len(cfg.routes) + 1
  PROVE  /\ Added(cfg, 1) = {} /\ ToDelete(cfg, 1) = Network!Routes(cfg)
         /\ k > Len(cfg.routes) => Added(cfg, k) = Network!Routes(cfg) /\ ToDelete(cfg, k) = {}
         /\ k <= Len(cfg.routes) =>
              /\ Step(cfg, k) \in Ifaces \X Dests
              /\ Added(cfg, k + 1) = Added(cfg, k) \cup {Step(cfg, k)}
              /\ ToDelete(cfg, k + 1) = ToDelete(cfg, k) \ {Step(cfg, k)}
<1> DEFINE n == Len(cfg.routes)
<1>1. /\ n \in 0 .. 2 /\ DOMAIN cfg.routes = 1 .. n /\ cfg.ifc \in Ifaces
      /\ cfg.routes \in Seq(Dests)
      /\ \A i \in 1 .. n, j \in 1 .. n : cfg.routes[i] = cfg.routes[j] => i = j
  BY ConfigIs, RouteListIs
<1>2. \A i \in 1 .. n, j \in 1 .. n : Step(cfg, i) = Step(cfg, j) => i = j
  BY <1>1 DEF Step
<1>3. Network!Routes(cfg) = {Step(cfg, i) : i \in 1 .. n}
  BY <1>1 DEF Network!Routes, Step
<1>4. \A i \in 1 .. n : Step(cfg, i) \in Ifaces \X Dests
  BY <1>1 DEF Step
<1> HIDE DEF n
<1>5. n \in Nat /\ k \in 1 .. n + 1
  BY <1>1 DEF n
<1>6. \A m : Added(cfg, m) = {Step(cfg, i) : i \in {j \in 1 .. n : j < m}}
  BY DEF Added, n
<1>7. \A m : ToDelete(cfg, m) = {Step(cfg, i) : i \in {j \in 1 .. n : j >= m}}
  BY DEF ToDelete, n
<1>8. {j \in 1 .. n : j < 1} = {} /\ {j \in 1 .. n : j >= 1} = 1 .. n
  BY <1>5
<1>9. ASSUME k > n PROVE {j \in 1 .. n : j < k} = 1 .. n /\ {j \in 1 .. n : j >= k} = {}
  BY <1>5, <1>9
<1>10. ASSUME k <= n
       PROVE /\ {j \in 1 .. n : j < k + 1} = {j \in 1 .. n : j < k} \cup {k}
             /\ {j \in 1 .. n : j >= k + 1} = {j \in 1 .. n : j >= k} \ {k}
             /\ k \in 1 .. n
  BY <1>5, <1>10
<1>11. Added(cfg, 1) = {} /\ ToDelete(cfg, 1) = Network!Routes(cfg)
  BY <1>3, <1>6, <1>7, <1>8
<1>12. k > n => Added(cfg, k) = Network!Routes(cfg) /\ ToDelete(cfg, k) = {}
  BY <1>3, <1>6, <1>7, <1>9
<1>13. ASSUME k <= n
       PROVE /\ Step(cfg, k) \in Ifaces \X Dests
             /\ Added(cfg, k + 1) = Added(cfg, k) \cup {Step(cfg, k)}
             /\ ToDelete(cfg, k + 1) = ToDelete(cfg, k) \ {Step(cfg, k)}
  <2>1. Added(cfg, k + 1) = Added(cfg, k) \cup {Step(cfg, k)}
    BY <1>6, <1>10, <1>13
  <2>2. ToDelete(cfg, k + 1) = ToDelete(cfg, k) \ {Step(cfg, k)}
    <3>1. ToDelete(cfg, k + 1) = {Step(cfg, i) : i \in {j \in 1 .. n : j >= k} \ {k}}
      BY <1>7, <1>10, <1>13
    <3>2. \A i \in {j \in 1 .. n : j >= k} \ {k} : Step(cfg, i) # Step(cfg, k)
      BY <1>2, <1>10, <1>13
    <3> QED BY <1>7, <3>1, <3>2
  <2> QED BY <1>4, <1>10, <1>13, <2>1, <2>2
<1> QED BY <1>11, <1>12, <1>13 DEF n

\* The network starts in its invariant.
LEMMA NetworkInit == Network!Init => NetworkInv
<1> SUFFICES ASSUME Network!Init PROVE NetworkInv
  OBVIOUS
<1>1. Network!Idle \in NetCalls /\ CallFits(Network!Idle) /\ Network!NoState.applied = FALSE
  BY DEF Network!Idle, NetCalls, CallFits, Before, Network!NoState
<1>2. netCall = [c \in Callers |-> Network!Idle] /\ state = Network!NoState /\ table = {}
  BY DEF Network!Init
<1>3. \A c \in Callers : netCall[c] = Network!Idle
  BY <1>2
<1>4. NetTypes
  <2>1. job \in Seq(Ifaces \X Dests) /\ Len(job) <= 2
    BY DEF Network!Init
  <2>2. netCall \in [Callers -> NetCalls] /\ \A c \in Callers : CallFits(netCall[c])
    BY <1>1, <1>2
  <2>3. adapters \subseteq Ifaces /\ os \in Platforms /\ allocated = FALSE /\ dev = None
        /\ mu = None /\ netDisturbed = FALSE
    BY DEF Network!Init
  <2>4. table \subseteq Ifaces \X Dests /\ state \in {Network!NoState} \cup StateRecords
    BY <1>2
  <2> QED BY <2>1, <2>2, <2>3, <2>4 DEF NetTypes
<1>5. Undisturbed
  BY <1>1, <1>2, <1>3 DEF Network!Init, Undisturbed, Shown
<1> QED BY <1>4, <1>5 DEF NetworkInv

\* A step of call c, whose record it makes k.
LEMMA NetworkCallStep ==
  ASSUME NetworkInv, NEW c \in Callers, NEW k \in NetCalls, CallFits(k),
         netCall' = [netCall EXCEPT ![c] = k],
         os' = os, allocated' \in BOOLEAN, netDisturbed' \in BOOLEAN,
         adapters' \subseteq Ifaces, table' \subseteq Ifaces \X Dests,
         dev' \in Ifaces \cup {None}, mu' \in Callers \cup {None},
         state' \in {Network!NoState} \cup StateRecords,
         job' \in Seq(Ifaces \X Dests), Len(job') <= 2,
         ~netDisturbed' => /\ ~netDisturbed /\ job' = job
                           /\ netCall[c] = Network!Idle => ~Network!Overlaps(c)
                           /\ /\ k.pc \in Before => table' = Shown'
                              /\ k.pc = "add" => table' = Shown' \cup Added(k.cfg, k.k)
                              /\ k.pc = "delete" => table' = ToDelete(k.cfg, k.k)
                              /\ k.pc = "close" => table' = {} /\ ~state'.applied
  PROVE  NetworkInv'
<1>1. netCall \in [Callers -> NetCalls] /\ \A d \in Callers : CallFits(netCall[d])
  BY DEF NetworkInv, NetTypes
<1>2. netCall' \in [Callers -> NetCalls] /\ netCall'[c] = k
      /\ \A d \in Callers \ {c} : netCall'[d] = netCall[d]
  BY <1>1
<1>3. NetTypes'
  <2>1. \A d \in Callers : CallFits(netCall'[d])
    BY <1>1, <1>2
  <2> QED BY <1>2, <2>1 DEF NetworkInv, NetTypes, CallFits
<1>4. Undisturbed'
  <2> SUFFICES ASSUME ~netDisturbed' PROVE
        /\ job' = <<>>
        /\ \A a \in Callers, d \in Callers :
             netCall'[a] # Network!Idle /\ netCall'[d] # Network!Idle => a = d
        /\ \A d \in Callers : netCall'[d] # Network!Idle => TableDuring(netCall[d])'
        /\ (\A d \in Callers : netCall'[d] = Network!Idle) => table' = Shown'
    BY DEF Undisturbed
  <2>1. ~netDisturbed /\ job = <<>> /\ job' = job
    BY DEF NetworkInv, Undisturbed
  <2>2. \A d \in Callers \ {c} : netCall[d] = Network!Idle
    <3>1. CASE netCall[c] = Network!Idle
      BY <3>1 DEF Network!Overlaps
    <3>2. CASE netCall[c] # Network!Idle
      BY <2>1, <3>2 DEF NetworkInv, Undisturbed
    <3> QED BY <3>1, <3>2
  <2>3. \A d \in Callers \ {c} : netCall'[d] = Network!Idle
    BY <1>2, <2>2
  <2>4. TableDuring(netCall[c])'
    BY <1>2 DEF TableDuring
  <2>5. netCall'[c] = Network!Idle => table' = Shown'
    <3>1. Network!Idle.pc = "idle" /\ "idle" \in Before
      BY DEF Network!Idle, Before
    <3> QED BY <1>2, <3>1
  <2> QED BY <2>1, <2>3, <2>4, <2>5
<1> QED BY <1>3, <1>4 DEF NetworkInv

\* A step of the network keeps its invariant.
LEMMA NetworkStep == NetworkInv /\ Network!Next => NetworkInv'
<1> SUFFICES ASSUME NetworkInv, Network!Next PROVE NetworkInv'
  OBVIOUS
<1> USE DEF Network!At, Network!system
<1>t. /\ os \in Platforms /\ allocated \in BOOLEAN /\ netDisturbed \in BOOLEAN
      /\ adapters \subseteq Ifaces /\ table \subseteq Ifaces \X Dests
      /\ dev \in Ifaces \cup {None} /\ mu \in Callers \cup {None}
      /\ state \in {Network!NoState} \cup StateRecords
      /\ job \in Seq(Ifaces \X Dests) /\ Len(job) <= 2
  BY DEF NetworkInv, NetTypes
<1>c. ASSUME NEW c \in Callers
      PROVE /\ netCall[c] \in NetCalls /\ CallFits(netCall[c])
            /\ netCall[c].pc = "idle" <=> netCall[c] = Network!Idle
  BY DEF NetworkInv, NetTypes, CallFits, Network!Idle
<1>d. ASSUME NEW c \in Callers, ~netDisturbed, netCall[c] # Network!Idle
      PROVE TableDuring(netCall[c])
  BY <1>d DEF NetworkInv, Undisturbed
\* While a call is at most about to apply, the table is as is shown.
<1>b. ASSUME NEW c \in Callers, ~netDisturbed, netCall[c].pc \in Before
      PROVE netCall[c] # Network!Idle => table = Shown
  BY <1>b, <1>d DEF TableDuring
<1>0. /\ Network!Idle \in NetCalls /\ CallFits(Network!Idle) /\ Network!Idle.pc = "idle"
      /\ Network!NoState.applied = FALSE /\ "idle" \in Before
  BY DEF Network!Idle, NetCalls, CallFits, Before, Network!NoState
\* A quiet program is where it shows.
<1>q. ASSUME NEW c \in Callers, ~netDisturbed, netCall[c] = Network!Idle, ~Network!Overlaps(c)
      PROVE table = Shown
  BY <1>q DEF NetworkInv, Undisturbed, Network!Overlaps
\* A call goes from one step before Apply to another.
<1>g. ASSUME NEW c \in Callers, NEW k \in NetCalls, CallFits(k), k.pc \in Before,
             netCall' = [netCall EXCEPT ![c] = k],
             netCall[c].pc \in Before \cup {"close"},
             os' = os, allocated' \in BOOLEAN, netDisturbed' \in BOOLEAN, mu' \in Callers \cup {None},
             adapters' \subseteq Ifaces, dev' \in Ifaces \cup {None},
             table' \subseteq Ifaces \X Dests, job' = job, state' = state,
             ~netDisturbed' => /\ ~netDisturbed
                               /\ table' = table \/ (netCall[c].pc = "close" /\ table' \subseteq table)
                               /\ netCall[c] = Network!Idle => ~Network!Overlaps(c)
      PROVE NetworkInv'
  <2>1. ASSUME ~netDisturbed' PROVE table' = Shown'
    <3>1. Shown' = Shown
      BY <1>g DEF Shown, Network!Routes
    <3>2. CASE netCall[c].pc = "close"
      <4>1. table = {} /\ ~state.applied
        BY <1>0, <1>d, <1>g, <2>1, <3>2 DEF TableDuring
      <4> QED BY <1>g, <2>1, <3>1, <4>1 DEF Shown
    <3>3. CASE netCall[c] = Network!Idle
      BY <1>g, <1>q, <2>1, <3>1, <3>3, <1>0
    <3>4. CASE netCall[c].pc \in Before /\ netCall[c] # Network!Idle
      <4>1. netCall[c].pc # "close"
        BY <3>4 DEF Before
      <4> QED BY <1>b, <1>g, <2>1, <3>1, <3>4, <4>1
    <3> QED BY <1>g, <3>2, <3>3, <3>4
  <2>2. k.pc # "add" /\ k.pc # "delete" /\ k.pc # "close"
    BY <1>g DEF Before
  <2>3. ~netDisturbed' => /\ ~netDisturbed /\ job' = job
                          /\ netCall[c] = Network!Idle => ~Network!Overlaps(c)
                          /\ /\ k.pc \in Before => table' = Shown'
                             /\ k.pc = "add" => table' = Shown' \cup Added(k.cfg, k.k)
                             /\ k.pc = "delete" => table' = ToDelete(k.cfg, k.k)
                             /\ k.pc = "close" => table' = {} /\ ~state'.applied
    BY <1>g, <2>1, <2>2
  <2>4. state' \in {Network!NoState} \cup StateRecords
        /\ job' \in Seq(Ifaces \X Dests) /\ Len(job') <= 2
    BY <1>g, <1>t
  <2> QED BY <1>g, <2>3, <2>4, NetworkCallStep
\* The record of a call that goes on, with the configuration it has.
<1>k. ASSUME NEW c \in Callers, NEW pc \in Before \ {"idle"},
             pc \in {"device", "apply"} => netCall[c].cfg \in Configs,
             Network!Goto(c, pc)
      PROVE \E k \in NetCalls : /\ CallFits(k) /\ k.pc = pc
                                /\ netCall' = [netCall EXCEPT ![c] = k]
  <2> DEFINE k == [netCall[c] EXCEPT !.pc = pc]
  <2>1. k \in NetCalls /\ k.pc = pc /\ k.cfg = netCall[c].cfg
    BY <1>c DEF NetCalls
  <2>2. CallFits(k)
    BY <1>k, <2>1 DEF CallFits, Before
  <2>3. netCall' = [netCall EXCEPT ![c] = k]
    BY <1>k DEF Network!Goto
  <2> QED BY <2>1, <2>2, <2>3
<1>1. ASSUME NEW c \in Callers, Network!Register(c) PROVE NetworkInv'
  <2>1. PICK k \in NetCalls : /\ CallFits(k) /\ k.pc = "fetch"
                              /\ netCall' = [netCall EXCEPT ![c] = k]
    BY <1>1, <1>k DEF Network!Register, Before
  <2>2. /\ netCall[c].pc = "idle" /\ allocated' = TRUE
        /\ netDisturbed' = (netDisturbed \/ Network!Overlaps(c))
        /\ UNCHANGED <<os, adapters, table, dev, state, mu, job>>
    BY <1>1 DEF Network!Register
  <2>3. netDisturbed' \in BOOLEAN
    BY <1>t, <2>2 DEF Network!Overlaps
  <2>4. k.pc \in Before /\ netCall[c].pc \in Before
    BY <2>1, <2>2 DEF Before
  <2> QED BY <1>g, <1>t, <2>1, <2>2, <2>3, <2>4
<1>2. ASSUME NEW c \in Callers, Network!Fetch(c) PROVE NetworkInv'
  <2>0. /\ netCall[c].pc \in {"fetch", "fetch again"} /\ netCall[c] # Network!Idle
        /\ UNCHANGED <<os, allocated, adapters, table, dev, state, mu, job, netDisturbed>>
    BY <1>2, <1>0 DEF Network!Fetch
  <2>1. PICK k \in NetCalls : /\ CallFits(k) /\ k.pc \in {"device", "again", "idle"}
                              /\ netCall' = [netCall EXCEPT ![c] = k]
    <3>1. CASE allocated
      <4>1. PICK cfg \in Network!Config :
              netCall' = [netCall EXCEPT ![c].pc = "device", ![c].cfg = cfg]
        BY <1>2, <3>1 DEF Network!Fetch
      <4> DEFINE k == [netCall[c] EXCEPT !.pc = "device", !.cfg = cfg]
      <4>2. cfg \in Configs
        BY DEF Configs
      <4>3. k \in NetCalls /\ k.pc = "device" /\ k.cfg = cfg
        BY <1>c, <4>2 DEF NetCalls, Before
      <4>4. CallFits(k)
        BY <4>2, <4>3 DEF CallFits
      <4>5. netCall' = [netCall EXCEPT ![c] = k]
        BY <4>1
      <4> QED BY <4>3, <4>4, <4>5
    <3>2. CASE ~allocated /\ netCall[c].pc = "fetch"
      <4>1. Network!Goto(c, "again")
        BY <1>2, <3>2 DEF Network!Fetch
      <4>2. "again" \in Before \ {"idle"}
        BY DEF Before
      <4> QED BY <1>k, <4>1, <4>2
    <3>3. CASE ~allocated /\ netCall[c].pc # "fetch"
      BY <1>0, <1>2, <3>3 DEF Network!Fetch, Network!Return
    <3> QED BY <3>1, <3>2, <3>3
  <2>2. k.pc \in Before /\ netCall[c].pc \in Before
    BY <2>0, <2>1 DEF Before
  <2> QED BY <1>g, <1>t, <2>0, <2>1, <2>2
<1>3. ASSUME NEW c \in Callers, Network!RegisterAgain(c) PROVE NetworkInv'
  <2>0. /\ netCall[c].pc = "again" /\ netCall[c] # Network!Idle /\ allocated' \in BOOLEAN
        /\ UNCHANGED <<os, adapters, table, dev, state, mu, job, netDisturbed>>
    BY <1>3, <1>0, <1>t DEF Network!RegisterAgain
  <2>1. PICK k \in NetCalls : /\ CallFits(k) /\ k.pc \in {"fetch again", "idle"}
                              /\ netCall' = [netCall EXCEPT ![c] = k]
    <3>1. CASE Network!Goto(c, "fetch again")
      BY <1>k, <3>1 DEF Before
    <3>2. CASE Network!Return(c)
      BY <1>0, <3>2 DEF Network!Return
    <3> QED BY <1>3, <3>1, <3>2 DEF Network!RegisterAgain
  <2>2. k.pc \in Before /\ netCall[c].pc \in Before
    BY <2>0, <2>1 DEF Before
  <2> QED BY <1>g, <1>t, <2>0, <2>1, <2>2
<1>4. ASSUME NEW c \in Callers, Network!DeviceOnLinux(c) PROVE NetworkInv'
  <2>0. /\ netCall[c].pc = "device" /\ netCall[c] # Network!Idle /\ netCall[c].cfg \in Configs
        /\ UNCHANGED <<os, allocated, adapters, table, dev, state, mu, job, netDisturbed>>
    BY <1>4, <1>0, <1>c DEF Network!DeviceOnLinux, CallFits
  <2>1. PICK k \in NetCalls : /\ CallFits(k) /\ k.pc = "apply"
                              /\ netCall' = [netCall EXCEPT ![c] = k]
    BY <1>4, <1>k, <2>0 DEF Network!DeviceOnLinux, Before
  <2>2. k.pc \in Before /\ netCall[c].pc \in Before
    BY <2>0, <2>1 DEF Before
  <2> QED BY <1>g, <1>t, <2>0, <2>1, <2>2
<1>5. ASSUME NEW c \in Callers, Network!DeviceOnWindows(c) PROVE NetworkInv'
  <2>0. /\ netCall[c].pc = "device" /\ netCall[c] # Network!Idle /\ netCall[c].cfg \in Configs
        /\ UNCHANGED <<os, allocated, state, mu, job>>
        /\ netDisturbed' = (netDisturbed \/ table' # table)
    BY <1>5, <1>0, <1>c DEF Network!DeviceOnWindows, CallFits
  <2>1. netCall[c].cfg.ifc \in Ifaces
    BY <2>0, ConfigIs
  <2>2. PICK rest \in [adapters : SUBSET Ifaces, table : SUBSET (Ifaces \X Dests)] :
          /\ table' = rest.table
          /\ \/ /\ dev' \in {dev, None} /\ adapters' = rest.adapters
                /\ Network!Goto(c, "apply") \/ Network!Return(c)
             \/ /\ dev' = netCall[c].cfg.ifc /\ adapters' = rest.adapters \cup {netCall[c].cfg.ifc}
                /\ Network!Goto(c, "apply")
    <3> DEFINE rest == IF dev \in {None, netCall[c].cfg.ifc}
                       THEN [adapters |-> adapters, table |-> table]
                       ELSE Network!Closed(dev)
    <3>1. rest \in [adapters : SUBSET Ifaces, table : SUBSET (Ifaces \X Dests)]
      BY <1>t DEF Network!Closed
    <3>2. /\ table' = rest.table
          /\ \/ /\ dev' = IF dev = netCall[c].cfg.ifc THEN dev ELSE None
                /\ adapters' = rest.adapters /\ Network!Goto(c, "apply")
             \/ \/ dev' = netCall[c].cfg.ifc /\ adapters' = rest.adapters \cup {netCall[c].cfg.ifc}
                   /\ Network!Goto(c, "apply")
                \/ dev' = None /\ adapters' = rest.adapters /\ Network!Return(c)
      BY <1>5 DEF Network!DeviceOnWindows
    <3> HIDE DEF rest
    <3> QED BY <3>1, <3>2
  <2>3. PICK k \in NetCalls : /\ CallFits(k) /\ k.pc \in {"apply", "idle"}
                              /\ netCall' = [netCall EXCEPT ![c] = k]
    <3>1. CASE Network!Goto(c, "apply")
      BY <1>k, <2>0, <3>1 DEF Before
    <3>2. CASE Network!Return(c)
      BY <1>0, <3>2 DEF Network!Return
    <3> QED BY <2>2, <3>1, <3>2
  <2>4. adapters' \subseteq Ifaces /\ table' \subseteq Ifaces \X Dests /\ dev' \in Ifaces \cup {None}
        /\ netDisturbed' \in BOOLEAN
    BY <1>t, <2>0, <2>1, <2>2
  <2>5. k.pc \in Before /\ netCall[c].pc \in Before
    BY <2>0, <2>3 DEF Before
  <2>6. ~netDisturbed' => ~netDisturbed /\ table' = table
    BY <2>0
  <2> QED BY <1>g, <1>t, <2>0, <2>3, <2>4, <2>5, <2>6
<1>6. ASSUME NEW c \in Callers, Network!DeviceOnMacOS(c) PROVE NetworkInv'
  <2>0. /\ netCall[c].pc = "device" /\ netCall[c] # Network!Idle /\ netCall[c].cfg \in Configs
        /\ UNCHANGED <<os, allocated, table, state, mu, job, netDisturbed>>
    BY <1>6, <1>0, <1>c DEF Network!DeviceOnMacOS, CallFits
  <2>1. ASSUME NEW t \in Ifaces, netCall' = [netCall EXCEPT ![c].pc = "apply", ![c].cfg.ifc = t]
        PROVE \E k \in NetCalls : CallFits(k) /\ k.pc = "apply" /\ netCall' = [netCall EXCEPT ![c] = k]
    <3> DEFINE cfg == [netCall[c].cfg EXCEPT !.ifc = t]
               k == [netCall[c] EXCEPT !.pc = "apply", !.cfg = cfg]
    <3>1. cfg \in Configs
      BY <2>0 DEF Configs, Network!Config, StateRecords
    <3>2. netCall' = [netCall EXCEPT ![c] = k]
      BY <2>1
    <3> HIDE DEF cfg
    <3>3. k \in NetCalls /\ k.pc = "apply" /\ k.cfg = cfg
      BY <1>c, <3>1 DEF NetCalls, Before
    <3>4. CallFits(k)
      BY <3>1, <3>3 DEF CallFits
    <3> QED BY <3>2, <3>3, <3>4
  <2>2. /\ dev' \in Ifaces \cup {None} /\ adapters' \subseteq Ifaces
        /\ \/ \E t \in Ifaces : netCall' = [netCall EXCEPT ![c].pc = "apply", ![c].cfg.ifc = t]
           \/ Network!Return(c)
    <3>1. CASE dev # None
      BY <1>6, <1>t, <3>1 DEF Network!DeviceOnMacOS
    <3>2. CASE dev = None
      BY <1>6, <1>t, <3>2 DEF Network!DeviceOnMacOS
    <3> QED BY <3>1, <3>2
  <2>3. PICK k \in NetCalls : /\ CallFits(k) /\ k.pc \in {"apply", "idle"}
                              /\ netCall' = [netCall EXCEPT ![c] = k]
    BY <1>0, <2>1, <2>2 DEF Network!Return
  <2>4. k.pc \in Before /\ netCall[c].pc \in Before
    BY <2>0, <2>3 DEF Before
  <2> QED BY <1>g, <1>t, <2>0, <2>2, <2>3, <2>4

\* The steps of Apply and Reset.
<1>7. ASSUME NEW c \in Callers, Network!ApplyLock(c) PROVE NetworkInv'
  <2> DEFINE k == [netCall[c] EXCEPT !.pc = "add", !.k = 1]
  <2>0. /\ netCall[c].pc = "apply" /\ netCall[c] # Network!Idle /\ netCall[c].cfg \in Configs
        /\ mu' = c /\ netCall' = [netCall EXCEPT ![c] = k]
        /\ UNCHANGED <<os, allocated, adapters, table, dev, state, job, netDisturbed>>
    BY <1>7, <1>0, <1>c DEF Network!ApplyLock, CallFits
  <2>1. k \in NetCalls /\ k.pc = "add" /\ k.k = 1 /\ k.cfg = netCall[c].cfg
    BY <1>c DEF NetCalls
  <2> HIDE DEF k
  <2>2. Len(k.cfg.routes) \in Nat /\ 1 \in 1 .. Len(k.cfg.routes) + 1
    BY <2>0, <2>1, ConfigIs, RouteListIs
  <2>3. CallFits(k)
    BY <2>0, <2>1, <2>2 DEF CallFits
  <2>4. Added(k.cfg, k.k) = {}
    BY <2>0, <2>1, <2>2, RoutesInOrder
  <2>5. ~netDisturbed => table' = Shown'
    BY <1>b, <2>0 DEF Before, Shown, Network!Routes
  <2>6. k.pc \notin Before
    BY <2>1 DEF Before
  <2> QED BY <1>t, <2>0, <2>1, <2>3, <2>4, <2>5, <2>6, NetworkCallStep
\* One route on.
<1>r. ASSUME NEW c \in Callers, netCall[c].pc \in {"add", "delete"}, Network!More(c)
      PROVE \E k \in NetCalls :
              /\ CallFits(k) /\ k.pc = netCall[c].pc /\ k.cfg = netCall[c].cfg
              /\ k.k = netCall[c].k + 1 /\ netCall[c].k \in 1 .. Len(k.cfg.routes)
              /\ k.cfg \in Configs /\ netCall[c].k \in 1 .. Len(k.cfg.routes) + 1
              /\ netCall[c].k <= Len(k.cfg.routes)
              /\ [netCall EXCEPT ![c].k = @ + 1] = [netCall EXCEPT ![c] = k]
  <2> DEFINE k == [netCall[c] EXCEPT !.k = @ + 1]
  <2>1. k \in NetCalls /\ k.pc = netCall[c].pc /\ k.k = netCall[c].k + 1 /\ k.cfg = netCall[c].cfg
    BY <1>c DEF NetCalls
  <2>2. netCall[c].cfg \in Configs /\ netCall[c].k \in 1 .. Len(netCall[c].cfg.routes) + 1
    BY <1>c, <1>r DEF CallFits
  <2>3. Len(netCall[c].cfg.routes) \in Nat
    BY <2>2, ConfigIs, RouteListIs
  <2>4. netCall[c].k \in 1 .. Len(netCall[c].cfg.routes) /\ netCall[c].k <= Len(netCall[c].cfg.routes)
    BY <1>r, <2>2, <2>3 DEF Network!More
  <2>5. CallFits(k)
    <3> HIDE DEF k
    <3> QED BY <1>r, <2>1, <2>2, <2>3, <2>4 DEF CallFits
  <2>6. [netCall EXCEPT ![c].k = @ + 1] = [netCall EXCEPT ![c] = k]
    OBVIOUS
  <2> QED BY <2>1, <2>2, <2>4, <2>5, <2>6
<1>8. ASSUME NEW c \in Callers, Network!AddRoute(c) PROVE NetworkInv'
  <2>0. /\ netCall[c].pc = "add" /\ netCall[c] # Network!Idle /\ Network!More(c)
        /\ netCall' = [netCall EXCEPT ![c].k = @ + 1]
        /\ table' = table \cup {Step(netCall[c].cfg, netCall[c].k)}
        /\ UNCHANGED <<os, allocated, adapters, dev, state, mu, job, netDisturbed>>
    BY <1>8, <1>0 DEF Network!AddRoute, Network!Route, Step
  <2>1. PICK k \in NetCalls :
              /\ CallFits(k) /\ k.pc = "add" /\ k.cfg = netCall[c].cfg
              /\ k.k = netCall[c].k + 1 /\ netCall[c].k \in 1 .. Len(k.cfg.routes)
              /\ k.cfg \in Configs /\ netCall[c].k \in 1 .. Len(k.cfg.routes) + 1
              /\ netCall[c].k <= Len(k.cfg.routes)
              /\ netCall' = [netCall EXCEPT ![c] = k]
    BY <1>r, <2>0
  <2>2. /\ Step(k.cfg, netCall[c].k) \in Ifaces \X Dests
        /\ Added(k.cfg, k.k) = Added(k.cfg, netCall[c].k) \cup {Step(k.cfg, netCall[c].k)}
    BY <2>1, RoutesInOrder
  <2>3. ~netDisturbed => table' = Shown' \cup Added(k.cfg, k.k)
    BY <1>d, <2>0, <2>1, <2>2 DEF TableDuring, Shown, Network!Routes
  <2>4. k.pc \notin Before /\ table' \subseteq Ifaces \X Dests
    BY <1>t, <2>0, <2>1, <2>2 DEF Before
  <2> QED BY <1>t, <2>0, <2>1, <2>3, <2>4, NetworkCallStep
<1>9. ASSUME NEW c \in Callers, Network!ApplyFails(c) PROVE NetworkInv'
  <2> DEFINE cfg == netCall[c].cfg
             n == Len(cfg.routes) + 1 - netCall[c].k
             rest == [i \in 1 .. n |-> <<cfg.ifc, cfg.routes[i + netCall[c].k - 1]>>]
  <2>0. /\ netCall[c].pc = "add" /\ netCall' = [netCall EXCEPT ![c] = Network!Idle]
        /\ mu' = None /\ netDisturbed' = TRUE /\ state' = Network!StateFrom(cfg, FALSE)
        /\ job' \in {job, rest}
        /\ UNCHANGED <<os, allocated, adapters, table, dev>>
    BY <1>9 DEF Network!ApplyFails, Network!Return
  <2>1. cfg \in Configs /\ netCall[c].k \in 1 .. Len(cfg.routes) + 1
    BY <1>c, <2>0 DEF CallFits
  <2>2. cfg.ifc \in Ifaces /\ cfg.routes \in Seq(Dests) /\ Len(cfg.routes) \in 0 .. 2
    BY <2>1, ConfigIs, RouteListIs
  <2> HIDE DEF cfg
  <2>3. n \in 0 .. 2
    <3>1. \A a \in 0 .. 2 : \A b \in 1 .. a + 1 : a + 1 - b \in 0 .. 2
      OBVIOUS
    <3> QED BY <2>1, <2>2, <3>1
  <2>4. \A i \in 1 .. n : cfg.routes[i + netCall[c].k - 1] \in Dests
    <3> TAKE i \in 1 .. n
    <3>1. i + netCall[c].k - 1 \in 1 .. Len(cfg.routes)
      BY <2>1, <2>2
    <3> QED BY <2>2, <3>1
  <2> HIDE DEF n
  <2>5. rest \in Seq(Ifaces \X Dests) /\ Len(rest) = n
    BY <2>2, <2>3, <2>4
  <2>6. job' \in Seq(Ifaces \X Dests) /\ Len(job') <= 2
    BY <1>t, <2>0, <2>3, <2>5
  <2>7. state' \in StateRecords
    BY <2>0, <2>1, StateFromConfig
  <2> QED BY <1>0, <1>t, <2>0, <2>6, <2>7, NetworkCallStep
<1>10. ASSUME NEW c \in Callers, Network!ApplyDone(c) PROVE NetworkInv'
  <2> DEFINE cfg == netCall[c].cfg
  <2>0. /\ netCall[c].pc = "add" /\ netCall[c] # Network!Idle /\ ~Network!More(c)
        /\ netCall' = [netCall EXCEPT ![c] = Network!Idle]
        /\ mu' = None /\ state' = Network!StateFrom(cfg, TRUE)
        /\ netDisturbed' = (netDisturbed \/ ~(Network!Routes(state) \cap table \subseteq Network!Routes(cfg)))
        /\ UNCHANGED <<os, allocated, adapters, table, dev, job>>
    BY <1>10, <1>0 DEF Network!ApplyDone, Network!Return
  <2>1. cfg \in Configs /\ netCall[c].k \in 1 .. Len(cfg.routes) + 1
    BY <1>c, <2>0 DEF CallFits
  <2>2. Len(cfg.routes) \in Nat
    BY <2>1, ConfigIs, RouteListIs
  <2>3. Added(cfg, netCall[c].k) = Network!Routes(cfg)
    <3>1. netCall[c].k > Len(cfg.routes)
      BY <2>0, <2>1, <2>2 DEF Network!More
    <3> HIDE DEF cfg
    <3> QED BY <2>1, <3>1, RoutesInOrder
  <2>4. state' \in StateRecords /\ state'.applied = TRUE /\ Network!Routes(state)' = Network!Routes(cfg)
    <3> HIDE DEF cfg
    <3>1. state' \in StateRecords /\ state'.applied = TRUE
      BY <2>0, <2>1, StateFromConfig
    <3>2. Network!Routes(Network!StateFrom(cfg, TRUE)) = Network!Routes(cfg)
      BY <2>1, StateFromConfig
    <3>3. Network!Routes(state)' = Network!Routes(Network!StateFrom(cfg, TRUE))
      BY <2>0 DEF Network!Routes
    <3> QED BY <3>1, <3>2, <3>3
  <2>5. ASSUME ~netDisturbed' PROVE ~netDisturbed /\ table' = Shown'
    <3>1. ~netDisturbed /\ Network!Routes(state) \cap table \subseteq Network!Routes(cfg)
      BY <2>0, <2>5
    <3>2. table = Shown \cup Network!Routes(cfg)
      BY <1>d, <2>0, <2>3, <3>1 DEF TableDuring
    <3>3. Shown \subseteq Network!Routes(cfg)
      BY <3>1, <3>2 DEF Shown
    <3>4. Shown' = Network!Routes(cfg)
      BY <2>4 DEF Shown
    <3> QED BY <2>0, <3>1, <3>2, <3>3, <3>4
  <2>6. netDisturbed' \in BOOLEAN
    BY <1>t, <2>0
  <2>7. Network!Idle.pc \notin {"add", "delete", "close"}
    BY <1>0
  <2> HIDE DEF cfg
  <2> QED BY <1>0, <1>t, <2>0, <2>4, <2>5, <2>6, <2>7, NetworkCallStep
<1>11. ASSUME NEW c \in Callers, Network!ResetLock(c) PROVE NetworkInv'
  <2>0. /\ netCall[c] = Network!Idle
        /\ netDisturbed' = (netDisturbed \/ Network!Overlaps(c)) /\ netDisturbed' \in BOOLEAN
        /\ UNCHANGED <<os, allocated, adapters, table, dev, state, job>>
    BY <1>11, <1>c, <1>t DEF Network!ResetLock, Network!Overlaps
  <2>1. ~netDisturbed' => ~netDisturbed /\ ~Network!Overlaps(c) /\ table = Shown
    BY <1>q, <2>0
  <2>2. CASE state.applied
    <3> DEFINE k == [pc |-> "delete", cfg |-> state, k |-> 1]
    <3>1. /\ mu' = c /\ netCall' = [netCall EXCEPT ![c] = k]
      BY <1>11, <2>2 DEF Network!ResetLock
    <3>2. state \in Configs
      BY <1>0, <1>t, <2>2 DEF Configs
    <3>3. k \in NetCalls /\ k.pc = "delete" /\ k.cfg = state /\ k.k = 1
      BY <3>2 DEF NetCalls
    <3> HIDE DEF k
    <3>4. Len(state.routes) \in Nat /\ 1 \in 1 .. Len(state.routes) + 1
      BY <3>2, ConfigIs, RouteListIs
    <3>5. CallFits(k)
      BY <3>2, <3>3, <3>4 DEF CallFits
    <3>6. ToDelete(k.cfg, k.k) = Network!Routes(state)
      BY <3>2, <3>3, <3>4, RoutesInOrder
    <3>7. ~netDisturbed' => table' = ToDelete(k.cfg, k.k)
      BY <2>0, <2>1, <2>2, <3>6 DEF Shown
    <3>8. k.pc \notin Before
      BY <3>3 DEF Before
    <3> QED BY <1>t, <2>0, <2>1, <3>1, <3>3, <3>5, <3>7, <3>8, NetworkCallStep
  <2>3. CASE ~state.applied
    <3> DEFINE k == [netCall[c] EXCEPT !.pc = "close"]
    <3>1. mu' = mu /\ netCall' = [netCall EXCEPT ![c] = k]
      BY <1>11, <2>3 DEF Network!ResetLock, Network!Goto
    <3>2. k \in NetCalls /\ k.pc = "close"
      BY <1>c DEF NetCalls
    <3> HIDE DEF k
    <3>3. CallFits(k) /\ k.pc \notin Before
      BY <3>2 DEF CallFits, Before
    <3>4. ~netDisturbed' => table' = {} /\ ~state'.applied
      BY <2>0, <2>1, <2>3 DEF Shown
    <3> QED BY <1>t, <2>0, <2>1, <3>1, <3>2, <3>3, <3>4, NetworkCallStep
  <2> QED BY <2>2, <2>3
<1>12. ASSUME NEW c \in Callers, Network!DeleteRoute(c) PROVE NetworkInv'
  <2>0. /\ netCall[c].pc = "delete" /\ netCall[c] # Network!Idle /\ Network!More(c)
        /\ netCall' = [netCall EXCEPT ![c].k = @ + 1]
        /\ table' = table \ {Step(netCall[c].cfg, netCall[c].k)}
        /\ UNCHANGED <<os, allocated, adapters, dev, state, mu, job, netDisturbed>>
    BY <1>12, <1>0 DEF Network!DeleteRoute, Network!Route, Step
  <2>1. PICK k \in NetCalls :
              /\ CallFits(k) /\ k.pc = "delete" /\ k.cfg = netCall[c].cfg
              /\ k.k = netCall[c].k + 1 /\ netCall[c].k \in 1 .. Len(k.cfg.routes)
              /\ k.cfg \in Configs /\ netCall[c].k \in 1 .. Len(k.cfg.routes) + 1
              /\ netCall[c].k <= Len(k.cfg.routes)
              /\ netCall' = [netCall EXCEPT ![c] = k]
    BY <1>r, <2>0
  <2>2. ToDelete(k.cfg, k.k) = ToDelete(k.cfg, netCall[c].k) \ {Step(k.cfg, netCall[c].k)}
    BY <2>1, RoutesInOrder
  <2>3. ~netDisturbed => table' = ToDelete(k.cfg, k.k)
    BY <1>d, <2>0, <2>1, <2>2 DEF TableDuring
  <2>4. k.pc \notin Before /\ table' \subseteq Ifaces \X Dests
    BY <1>t, <2>0, <2>1 DEF Before
  <2> QED BY <1>t, <2>0, <2>1, <2>3, <2>4, NetworkCallStep
<1>13. ASSUME NEW c \in Callers, Network!ResetFails(c) PROVE NetworkInv'
  <2>0. /\ netCall' = [netCall EXCEPT ![c] = Network!Idle] /\ mu' = None /\ netDisturbed' = TRUE
        /\ UNCHANGED <<os, allocated, adapters, table, dev, state, job>>
    BY <1>13 DEF Network!ResetFails, Network!Return
  <2> QED BY <1>0, <1>t, <2>0, NetworkCallStep
<1>14. ASSUME NEW c \in Callers, Network!ResetDone(c) PROVE NetworkInv'
  <2> DEFINE k == [netCall[c] EXCEPT !.pc = "close"]
  <2>0. /\ netCall[c].pc = "delete" /\ netCall[c] # Network!Idle /\ ~Network!More(c)
        /\ netCall' = [netCall EXCEPT ![c] = k] /\ mu' = None
        /\ state' = [state EXCEPT !.applied = FALSE]
        /\ UNCHANGED <<os, allocated, adapters, table, dev, job, netDisturbed>>
    BY <1>14, <1>0 DEF Network!ResetDone, Network!Goto
  <2>1. k \in NetCalls /\ k.pc = "close"
    BY <1>c DEF NetCalls
  <2> HIDE DEF k
  <2>2. CallFits(k) /\ k.pc \notin Before
    BY <2>1 DEF CallFits, Before
  <2>3. state' \in {Network!NoState} \cup StateRecords /\ state'.applied = FALSE
    <3>1. CASE state = Network!NoState
      BY <2>0, <3>1 DEF Network!NoState
    <3>2. CASE state \in StateRecords
      BY <2>0, <3>2 DEF StateRecords
    <3> QED BY <1>t, <3>1, <3>2
  <2>4. netCall[c].cfg \in Configs /\ netCall[c].k \in 1 .. Len(netCall[c].cfg.routes) + 1
    BY <1>c, <2>0 DEF CallFits
  <2>5. ToDelete(netCall[c].cfg, netCall[c].k) = {}
    <3>1. Len(netCall[c].cfg.routes) \in Nat
      BY <2>4, ConfigIs, RouteListIs
    <3>2. netCall[c].k > Len(netCall[c].cfg.routes)
      BY <2>0, <2>4, <3>1 DEF Network!More
    <3> QED BY <2>4, <3>2, RoutesInOrder
  <2>6. ~netDisturbed => table' = {}
    BY <1>d, <2>0, <2>5 DEF TableDuring
  <2> QED BY <1>t, <2>0, <2>1, <2>2, <2>3, <2>6, NetworkCallStep
<1>15. ASSUME NEW c \in Callers, Network!CloseDevice(c) PROVE NetworkInv'
  <2>0. /\ netCall[c].pc = "close" /\ netCall[c] # Network!Idle
        /\ netCall' = [netCall EXCEPT ![c] = Network!Idle]
        /\ adapters' = adapters \ {dev} /\ table' = {r \in table : r[1] # dev} /\ dev' = None
        /\ UNCHANGED <<os, allocated, state, mu, job, netDisturbed>>
    BY <1>15, <1>0 DEF Network!CloseDevice, Network!Return, Network!Closed
  <2>1. /\ adapters' \subseteq Ifaces /\ table' \subseteq Ifaces \X Dests /\ table' \subseteq table
        /\ dev' \in Ifaces \cup {None}
    BY <1>t, <2>0
  <2> QED BY <1>0, <1>g, <1>t, <2>0, <2>1
<1>16. CASE Network!HelperGoesOn
  <2>0. /\ job # <<>> /\ job' = Tail(job)
        /\ table' \in {table, table \cup {Head(job)}}
        /\ UNCHANGED <<os, allocated, adapters, dev, state, mu, netCall, netDisturbed>>
    BY <1>16 DEF Network!HelperGoesOn
  <2>1. netDisturbed
    BY <2>0 DEF NetworkInv, Undisturbed
  <2>2. Head(job) \in Ifaces \X Dests /\ Tail(job) \in Seq(Ifaces \X Dests)
        /\ Len(Tail(job)) = Len(job) - 1 /\ Len(job) \in Nat
    BY <1>t, <2>0
  <2>3. table' \subseteq Ifaces \X Dests /\ Len(job') <= 2
    BY <1>t, <2>0, <2>2
  <2>4. NetTypes'
    BY <2>0, <2>2, <2>3 DEF NetworkInv, NetTypes
  <2> QED BY <2>0, <2>1, <2>4 DEF NetworkInv, Undisturbed
<1>17. CASE Network!LoseAllocation
  <2>0. /\ allocated' = FALSE
        /\ UNCHANGED <<os, adapters, table, dev, state, mu, netCall, job, netDisturbed>>
    BY <1>17 DEF Network!LoseAllocation
  <2>1. Shown' = Shown
    BY <2>0 DEF Shown, Network!Routes
  <2>2. \A c \in Callers : TableDuring(netCall[c])' <=> TableDuring(netCall[c])
    BY <2>0, <2>1 DEF TableDuring
  <2>3. NetTypes'
    BY <2>0 DEF NetworkInv, NetTypes
  <2>4. Undisturbed'
    BY <2>0, <2>1, <2>2 DEF NetworkInv, Undisturbed
  <2> QED BY <2>3, <2>4 DEF NetworkInv
<1>18. CASE Network!Exit
  <2>0. /\ adapters' = adapters \ {dev} /\ table' = {r \in table : r[1] # dev} /\ dev' = None
        /\ state' = Network!NoState /\ mu' = None
        /\ netCall' = [c \in Callers |-> Network!Idle]
        /\ netDisturbed' = (netDisturbed \/ table' # {})
        /\ UNCHANGED <<os, allocated, job>>
    BY <1>18 DEF Network!Exit, Network!Closed
  <2>1. \A c \in Callers : netCall'[c] = Network!Idle
    BY <2>0
  <2>2. NetTypes'
    <3>1. netCall' \in [Callers -> NetCalls] /\ \A c \in Callers : CallFits(netCall'[c])
      BY <1>0, <2>0
    <3>2. netDisturbed' \in BOOLEAN /\ adapters' \subseteq Ifaces /\ table' \subseteq Ifaces \X Dests
      BY <1>t, <2>0
    <3> QED BY <1>t, <2>0, <3>1, <3>2 DEF NetTypes, CallFits
  <2>3. ~netDisturbed' => table' = Shown' /\ job' = <<>>
    BY <1>0, <2>0 DEF Shown, NetworkInv, Undisturbed
  <2>4. Undisturbed'
    BY <2>1, <2>3 DEF Undisturbed
  <2> QED BY <2>2, <2>4 DEF NetworkInv
<1> QED
  BY <1>1, <1>2, <1>3, <1>4, <1>5, <1>6, <1>7, <1>8, <1>9, <1>10, <1>11, <1>12, <1>13,
     <1>14, <1>15, <1>16, <1>17, <1>18 DEF Network!Next

\* Between calls that were not disturbed, the routes of the machine are those the
\* program shows, so that a reset restores the table: for any interfaces, routes
\* and callers (virtualnet/manager.go, app.go: ApplyVirtualNetwork,
\* ResetVirtualNetwork).
THEOREM TableStaysAsShown == Spec => []TableIsAsShown
<1> DEFINE Inv == part = "network" => NetworkInv
<1>1. Init => Inv
  BY NetworkInit DEF Init
<1>2. Inv /\ [Next]_vars => Inv'
  <2> SUFFICES ASSUME Inv, [Next]_vars, part' = "network" PROVE NetworkInv'
    OBVIOUS
  <2>1. CASE Next
    <3>1. part = "network" /\ Network!Next
      BY <2>1 DEF Next
    <3> QED BY <3>1, NetworkStep
  <2>2. CASE UNCHANGED vars
    <3>1. NetworkInv /\ UNCHANGED networkVars
      BY <2>2 DEF vars
    <3>2. NetTypes'
      BY <3>1 DEF networkVars, NetworkInv, NetTypes
    <3>3. Shown' = Shown
      BY <3>1 DEF networkVars, Shown, Network!Routes
    <3>4. Undisturbed'
      BY <3>1, <3>3 DEF networkVars, NetworkInv, Undisturbed, TableDuring
    <3> QED BY <3>2, <3>4 DEF NetworkInv
  <2> QED BY <2>1, <2>2
<1>3. Inv => TableIsAsShown
  <2> SUFFICES ASSUME NetworkInv PROVE Network!TypeOK /\ Network!TableIsAsShown
    BY DEF TableIsAsShown
  <2>1. state = Network!NoState \/ (state.applied \in BOOLEAN
                /\ [ifc |-> state.ifc, routes |-> state.routes] \in Network!Config)
    BY DEF NetworkInv, NetTypes, StateRecords, RouteLists, Network!Config
  <2>2. Network!TypeOK
    BY <2>1 DEF NetworkInv, NetTypes, Network!TypeOK
  <2>3. Network!TableIsAsShown
    BY DEF NetworkInv, Undisturbed, Shown, Network!TableIsAsShown
  <2> QED BY <2>2, <2>3
<1> QED BY <1>1, <1>2, <1>3, PTL DEF Spec

-------------------------------------------------------------------------------
(* Tunnels.                                                                *)

Tables == [Ids -> Tunnels!Row \cup {None}]
Served == [Names -> Specs \cup {None}]
\* Row i of a table is marked running, and has the name n.
Runs(t, i, n) == t[i] # None /\ t[i].status = "running" /\ t[i].name = n
\* A name has one row.
NamesDiffer(t) ==
  \A i \in Ids, j \in Ids : t[i] # None /\ t[j] # None /\ t[i].name = t[j].name => i = j

HasRow == {"edit", "write", "start", "mark running", "stop", "mark stopped", "remove",
           "delete row"}
TunnelCalls == [pc : HasRow \cup {"idle", "connect", "install"}, id : Ids \cup {None},
                row : Tunnels!Row \cup Served \cup {None}]
TunnelCallFits(k) ==
  /\ k.pc = "idle" <=> k = Tunnels!Idle
  /\ k.pc \in HasRow => k.id \in Ids /\ k.row \in Tunnels!Row
  /\ k.pc = "install" => k.row \in Served
TunnelTypes ==
  /\ rows \in Tables /\ born \subseteq Ids
  /\ mgr \in Tunnels!Manager /\ left \in 0 .. MaxLeft /\ leftUp \in BOOLEAN
  /\ runMu \in Callers \cup {None} /\ disturbed \in BOOLEAN
  /\ call \in [Callers -> TunnelCalls]
  /\ \A c \in Callers : TunnelCallFits(call[c])
\* A row has one name, and its key is used.
RowsSound == NamesDiffer(rows) /\ \A i \in Ids : rows[i] # None => i \in born
\* What a call that is alone knows at each step, and what the manager has then:
\* what the table has, but for the tunnel that is being started or stopped.
StepSound(k, t, m) ==
  /\ k.pc \in HasRow => t[k.id] # None /\ k.row.status = t[k.id].status
  /\ k.pc \in HasRow \ {"write"} => k.row = t[k.id]
  /\ k.pc = "edit" => k.row.status = "stopped"
  /\ k.pc \in {"idle", "edit", "write", "start", "stop", "remove"} =>
       m = Tunnels!TunnelsOf(t)
  /\ k.pc = "mark running" =>
       m = [Tunnels!TunnelsOf(t) EXCEPT ![k.row.name] = k.row.spec]
  /\ k.pc \in {"mark stopped", "delete row"} =>
       m = [Tunnels!TunnelsOf(t) EXCEPT ![k.row.name] = None]
  /\ k.pc = "install" => k.row = Tunnels!TunnelsOf(t)
Alone ==
  ~disturbed =>
    /\ \A c \in Callers, d \in Callers :
         call[c] # Tunnels!Idle /\ call[d] # Tunnels!Idle => c = d
    /\ \A c \in Callers : call[c] # Tunnels!Idle => StepSound(call[c], rows, mgr.tunnels)
    /\ Tunnels!ServedAsStored
\* There is room for the manager that ConnectServer replaces.
Installing ==
  \A c \in Callers : call[c].pc \in {"connect", "install"} =>
    runMu = c /\ (mgr.phase \in {"dialing", "up"} => left < MaxLeft)
TunnelsInv == TunnelTypes /\ RowsSound /\ Alone

\* What a table marks as running, where a name has one row.
LEMMA TunnelsOfTable ==
  ASSUME ConstantsFit, NEW t \in Tables, NamesDiffer(t)
  PROVE  /\ Tunnels!TunnelsOf(t) \in Served
         /\ \A n \in Names, i \in Ids : Runs(t, i, n) => Tunnels!TunnelsOf(t)[n] = t[i].spec
         /\ \A n \in Names : (\A i \in Ids : ~Runs(t, i, n)) =>
                               Tunnels!TunnelsOf(t)[n] = None
<1> DEFINE Is(n) == {i \in Ids : /\ t[i] # None /\ t[i].status = "running" /\ t[i].name = n}
           Of(n) == IF Is(n) = {} THEN None ELSE t[CHOOSE i \in Is(n) : TRUE].spec
<1>1. Tunnels!TunnelsOf(t) = [n \in Names |-> Of(n)]
  BY DEF Tunnels!TunnelsOf
<1>2. ASSUME NEW n \in Names, NEW i \in Ids, Runs(t, i, n) PROVE Of(n) = t[i].spec
  <2>1. i \in Is(n)
    BY <1>2 DEF Runs
  <2>2. PICK j \in Is(n) : j = CHOOSE x \in Is(n) : TRUE
    BY <2>1
  <2>3. j = i
    BY <1>2, <2>2 DEF NamesDiffer, Runs
  <2> QED BY <2>1, <2>2, <2>3
<1>3. ASSUME NEW n \in Names, \A i \in Ids : ~Runs(t, i, n) PROVE Of(n) = None
  <2>1. Is(n) = {}
    BY <1>3 DEF Runs
  <2> QED BY <2>1
<1>4. ASSUME NEW n \in Names PROVE Of(n) \in Specs \cup {None}
  <2>1. CASE \E i \in Ids : Runs(t, i, n)
    <3>1. PICK i \in Ids : Runs(t, i, n)
      BY <2>1
    <3>2. t[i] \in Tunnels!Row /\ Of(n) = t[i].spec
      BY <1>2, <3>1 DEF Tables, Runs
    <3> HIDE DEF Of
    <3> QED BY <3>2 DEF Tunnels!Row
  <2>2. CASE \A i \in Ids : ~Runs(t, i, n)
    BY <1>3, <2>2
  <2> QED BY <2>1, <2>2
<1> HIDE DEF Of
<1> QED BY <1>1, <1>2, <1>3, <1>4 DEF Served

\* Tables with the same running rows give the same tunnels.
LEMMA SameTunnels ==
  ASSUME ConstantsFit, NEW t \in Tables, NEW u \in Tables, NamesDiffer(t), NamesDiffer(u),
         \A i \in Ids, n \in Names : Runs(t, i, n) <=> Runs(u, i, n),
         \A i \in Ids, n \in Names : Runs(t, i, n) => t[i].spec = u[i].spec
  PROVE  Tunnels!TunnelsOf(u) = Tunnels!TunnelsOf(t)
<1> DEFINE T == Tunnels!TunnelsOf(t)
           U == Tunnels!TunnelsOf(u)
<1>1. T \in Served /\ U \in Served
  BY TunnelsOfTable
<1>2. ASSUME NEW n \in Names PROVE T[n] = U[n]
  <2>1. CASE \E i \in Ids : Runs(t, i, n)
    BY <2>1, TunnelsOfTable
  <2>2. CASE \A i \in Ids : ~Runs(t, i, n)
    BY <2>2, TunnelsOfTable
  <2> QED BY <2>1, <2>2
<1> HIDE DEF T, U
<1>3. T = U
  BY <1>1, <1>2 DEF Served
<1> QED BY <1>3 DEF T, U

\* A row that changes, or comes or goes, changes the tunnel of its name.
LEMMA OneTunnelChanges ==
  ASSUME ConstantsFit, NEW t \in Tables, NamesDiffer(t), NEW id \in Ids, t[id] # None,
         NEW r \in Tunnels!Row \cup {None}, r # None => r.name = t[id].name
  PROVE  /\ NamesDiffer([t EXCEPT ![id] = r])
         /\ Tunnels!TunnelsOf([t EXCEPT ![id] = r]) =
              [Tunnels!TunnelsOf(t) EXCEPT
                 ![t[id].name] = IF r # None /\ r.status = "running" THEN r.spec ELSE None]
<1> DEFINE u == [t EXCEPT ![id] = r]
           v == IF r # None /\ r.status = "running" THEN r.spec ELSE None
           T == Tunnels!TunnelsOf(t)
           U == Tunnels!TunnelsOf(u)
           m == t[id].name
<1>1. u \in Tables /\ u[id] = r /\ \A i \in Ids \ {id} : u[i] = t[i]
  BY DEF Tables
<1>m. m \in Names
  BY DEF Tables, Tunnels!Row
<1> HIDE DEF u
<1>2. NamesDiffer(u)
  BY <1>1 DEF NamesDiffer
<1>3. T \in Served /\ U \in Served
  BY <1>1, <1>2, TunnelsOfTable
<1>4. U[m] = v
  <2>1. CASE r # None /\ r.status = "running"
    <3>1. Runs(u, id, m)
      BY <1>1, <2>1 DEF Runs
    <3> QED BY <1>1, <1>2, <1>m, <2>1, <3>1, TunnelsOfTable
  <2>2. CASE ~(r # None /\ r.status = "running")
    <3>1. \A i \in Ids : ~Runs(u, i, m)
      BY <1>1, <2>2 DEF Runs, NamesDiffer
    <3>2. U[m] = None
      BY <1>1, <1>2, <1>m, <3>1, TunnelsOfTable
    <3> QED BY <2>2, <3>2
  <2> QED BY <2>1, <2>2
<1>5. ASSUME NEW n \in Names, n # m PROVE U[n] = T[n]
  <2>1. \A i \in Ids : Runs(u, i, n) <=> Runs(t, i, n)
    BY <1>1, <1>5 DEF Runs
  <2>2. CASE \E i \in Ids : Runs(t, i, n)
    <3>1. PICK i \in Ids : Runs(t, i, n)
      BY <2>2
    <3>2. i # id
      BY <1>5, <3>1 DEF Runs
    <3>3. U[n] = u[i].spec /\ T[n] = t[i].spec
      BY <1>1, <1>2, <2>1, <3>1, TunnelsOfTable
    <3> QED BY <1>1, <3>2, <3>3
  <2>3. CASE \A i \in Ids : ~Runs(t, i, n)
    BY <1>1, <1>2, <2>1, <2>3, TunnelsOfTable
  <2> QED BY <2>2, <2>3
<1> HIDE DEF T, U, v, m
<1>6. U = [T EXCEPT ![m] = v]
  BY <1>3, <1>4, <1>5, <1>m DEF Served
<1> QED BY <1>2, <1>6 DEF T, U, v, m, u


\* The tunnels start in their invariant.
LEMMA TunnelsInitInv == ConstantsFit /\ Tunnels!Init => TunnelsInv
<1> SUFFICES ASSUME ConstantsFit, Tunnels!Init PROVE TunnelsInv
  OBVIOUS
<1> USE DEF Tunnels!Init
<1>1. Tunnels!Idle \in TunnelCalls /\ TunnelCallFits(Tunnels!Idle)
  BY DEF Tunnels!Idle, TunnelCalls, TunnelCallFits, HasRow
<1>2. rows \in Tables /\ mgr \in Tunnels!Manager
  BY DEF Tables, Tunnels!Manager
<1>3. TunnelTypes
  <2>1. left \in 0 .. MaxLeft
    BY DEF ConstantsFit, Tunnels!BoundAssumption
  <2>2. call \in [Callers -> TunnelCalls] /\ \A c \in Callers : TunnelCallFits(call[c])
    BY <1>1
  <2> QED BY <1>2, <2>1, <2>2 DEF TunnelTypes
<1>4. RowsSound
  BY DEF RowsSound, NamesDiffer
<1>5. mgr.tunnels = Tunnels!TunnelsOf(rows)
  BY DEF Tunnels!TunnelsOf
<1>6. Alone
  BY <1>5 DEF Alone, Tunnels!ServedAsStored
<1> QED BY <1>3, <1>4, <1>6 DEF TunnelsInv

\* A call's step: it is enough that what it knows is right.
LEMMA TunnelCallStep ==
  ASSUME TunnelsInv, NEW c \in Callers, NEW k \in TunnelCalls, TunnelCallFits(k),
         call' = [call EXCEPT ![c] = k],
         rows' \in Tables, born' \subseteq Ids, mgr' \in Tunnels!Manager,
         left' \in 0 .. MaxLeft, leftUp' \in BOOLEAN, runMu' \in Callers \cup {None},
         disturbed' \in BOOLEAN, RowsSound',
         ~disturbed' => /\ \A d \in Callers \ {c} : call[d] = Tunnels!Idle
                        /\ StepSound(k, rows', mgr'.tunnels)
  PROVE  TunnelsInv'
<1>1. call' \in [Callers -> TunnelCalls] /\ call'[c] = k
      /\ \A d \in Callers \ {c} : call'[d] = call[d]
  BY DEF TunnelsInv, TunnelTypes
<1>2. TunnelTypes'
  BY <1>1 DEF TunnelsInv, TunnelTypes
<1>3. Alone'
  <2>1. SUFFICES ASSUME ~disturbed' PROVE
          /\ \A a \in Callers, d \in Callers :
               call'[a] # Tunnels!Idle /\ call'[d] # Tunnels!Idle => a = d
          /\ \A d \in Callers : call'[d] # Tunnels!Idle => StepSound(call'[d], rows', mgr'.tunnels)
          /\ Tunnels!ServedAsStored'
    BY DEF Alone
  <2>2. \A d \in Callers \ {c} : call'[d] = Tunnels!Idle
    BY <1>1, <2>1
  <2>3. StepSound(call'[c], rows', mgr'.tunnels)
    BY <1>1, <2>1
  <2>4. Tunnels!ServedAsStored'
    <3>1. SUFFICES ASSUME \A d \in Callers : call'[d] = Tunnels!Idle
                   PROVE mgr'.tunnels = Tunnels!TunnelsOf(rows')
      BY DEF Tunnels!ServedAsStored
    <3>2. k = Tunnels!Idle
      BY <1>1, <3>1
    <3>3. k.pc = "idle"
      BY <3>2 DEF Tunnels!Idle
    <3> QED BY <1>1, <2>3, <3>3 DEF StepSound
  <2> QED BY <2>2, <2>3, <2>4
<1> QED BY <1>2, <1>3 DEF TunnelsInv

\* A step that leaves the calls and the tunnels alone.
LEMMA TunnelOtherStep ==
  ASSUME TunnelsInv, UNCHANGED <<rows, born, call, disturbed, runMu>>,
         mgr' \in Tunnels!Manager, mgr'.tunnels = mgr.tunnels,
         left' \in 0 .. MaxLeft, leftUp' \in BOOLEAN
  PROVE  TunnelsInv'
<1>1. TunnelTypes'
  BY DEF TunnelsInv, TunnelTypes
<1>2. RowsSound'
  BY DEF TunnelsInv, RowsSound, NamesDiffer
<1>3. Alone'
  BY DEF TunnelsInv, Alone, Tunnels!ServedAsStored
<1> QED BY <1>1, <1>2, <1>3 DEF TunnelsInv

\* A call that starts with a row it reads.
LEMMA BeginStep ==
  ASSUME ConstantsFit, TunnelsInv, NEW c \in Callers, NEW id \in Ids,
         NEW next \in {"edit", "write", "start", "stop", "remove"},
         NEW row \in Tunnels!Row, rows[id] # None, row.status = rows[id].status,
         next # "write" => row = rows[id], next = "edit" => row.status = "stopped",
         Tunnels!Begin(c, next, id, row), UNCHANGED <<rows, born, mgr, left, leftUp, runMu>>
  PROVE  TunnelsInv'
<1> DEFINE k == [pc |-> next, id |-> id, row |-> row]
<1>1. k \in TunnelCalls /\ TunnelCallFits(k)
  BY DEF TunnelCalls, TunnelCallFits, HasRow, Tunnels!Idle
<1>2. /\ call' = [call EXCEPT ![c] = k] /\ call[c] = Tunnels!Idle
      /\ disturbed' = (disturbed \/ ~Tunnels!Quiet(c))
  BY DEF Tunnels!Begin
<1>t. TunnelTypes /\ RowsSound /\ Alone
  BY DEF TunnelsInv
<1>3. ~disturbed' => /\ \A d \in Callers \ {c} : call[d] = Tunnels!Idle
                     /\ StepSound(k, rows', mgr'.tunnels)
  <2>1. SUFFICES ASSUME ~disturbed' PROVE /\ \A d \in Callers \ {c} : call[d] = Tunnels!Idle
                                          /\ StepSound(k, rows', mgr'.tunnels)
    OBVIOUS
  <2>2. ~disturbed /\ \A d \in Callers \ {c} : call[d] = Tunnels!Idle
    BY <1>2, <2>1 DEF Tunnels!Quiet
  <2>3. mgr.tunnels = Tunnels!TunnelsOf(rows)
    BY <1>2, <1>t, <2>2 DEF Alone, Tunnels!ServedAsStored
  <2> QED BY <2>2, <2>3 DEF StepSound
<1>4. RowsSound'
  BY <1>t DEF RowsSound, NamesDiffer
<1>5. disturbed' \in BOOLEAN
  BY <1>2, <1>t DEF TunnelTypes, Tunnels!Quiet
<1> HIDE DEF k
<1> QED BY <1>1, <1>2, <1>3, <1>4, <1>5, <1>t, TunnelCallStep DEF TunnelTypes

\* A row that is added.
LEMMA AddedRow ==
  ASSUME ConstantsFit, TunnelTypes, RowsSound, NEW id \in Ids \ born, NEW n \in Names,
         NEW s \in Specs, ~Tunnels!NameTaken(n, id),
         rows' = [rows EXCEPT ![id] = [name |-> n, spec |-> s, status |-> "stopped"]],
         born' = born \cup {id}
  PROVE  /\ rows' \in Tables /\ born' \subseteq Ids /\ RowsSound' /\ rows[id] = None
         /\ \A i \in Ids \ {id} : rows'[i] = rows[i]
         /\ rows'[id] = [name |-> n, spec |-> s, status |-> "stopped"]
         /\ Tunnels!TunnelsOf(rows') = Tunnels!TunnelsOf(rows)
<1> DEFINE r == [name |-> n, spec |-> s, status |-> "stopped"]
<1>1. r \in Tunnels!Row /\ r.status = "stopped" /\ r.name = n
  BY DEF Tunnels!Row
<1>2. rows' = [rows EXCEPT ![id] = r] /\ rows \in Tables
  BY DEF TunnelTypes
<1> HIDE DEF r
<1>3. rows' \in Tables /\ rows'[id] = r /\ \A i \in Ids \ {id} : rows'[i] = rows[i]
  BY <1>1, <1>2 DEF Tables
<1>4. rows[id] = None
  BY DEF RowsSound
<1>5. NamesDiffer(rows')
  BY <1>1, <1>3 DEF NamesDiffer, RowsSound, Tunnels!NameTaken
<1>6. RowsSound'
  BY <1>3, <1>5 DEF RowsSound
<1>7. \A i \in Ids, m \in Names : Runs(rows, i, m) <=> Runs(rows', i, m)
  BY <1>1, <1>3, <1>4 DEF Runs
<1>8. \A i \in Ids, m \in Names : Runs(rows, i, m) => rows[i].spec = rows'[i].spec
  BY <1>3, <1>4 DEF Runs
<1>9. Tunnels!TunnelsOf(rows') = Tunnels!TunnelsOf(rows)
  BY <1>2, <1>3, <1>5, <1>7, <1>8, SameTunnels DEF RowsSound
<1> QED BY <1>3, <1>4, <1>6, <1>9 DEF TunnelTypes, r

\* A tunnel is created.
LEMMA CreateStep ==
  ASSUME ConstantsFit, TunnelsInv, NEW id \in Ids, NEW n \in Names, NEW s \in Specs,
         Tunnels!Create(id, n, s)
  PROVE  TunnelsInv'
<1>t. TunnelTypes /\ RowsSound /\ Alone
  BY DEF TunnelsInv
<1>1. /\ id \in Ids \ born /\ ~Tunnels!NameTaken(n, id)
      /\ rows' = [rows EXCEPT ![id] = [name |-> n, spec |-> s, status |-> "stopped"]]
      /\ born' = born \cup {id}
      /\ UNCHANGED <<mgr, left, leftUp, runMu, call, disturbed>>
  BY DEF Tunnels!Create, Tunnels!others
<1>2. /\ rows' \in Tables /\ born' \subseteq Ids /\ RowsSound' /\ rows[id] = None
      /\ \A i \in Ids \ {id} : rows'[i] = rows[i]
      /\ Tunnels!TunnelsOf(rows') = Tunnels!TunnelsOf(rows)
  BY <1>1, <1>t, AddedRow
<1>3. TunnelTypes'
  BY <1>1, <1>2, <1>t DEF TunnelTypes
<1>4. ASSUME NEW k \in TunnelCalls, TunnelCallFits(k), StepSound(k, rows, mgr.tunnels)
      PROVE StepSound(k, rows', mgr.tunnels)
  <2>1. k.pc \in HasRow => k.id \in Ids \ {id}
    BY <1>2, <1>4 DEF TunnelCallFits, StepSound
  <2>2. k.pc \in HasRow => rows'[k.id] = rows[k.id]
    BY <1>2, <2>1
  <2> QED BY <1>2, <1>4, <2>2 DEF StepSound
<1>5. \A c \in Callers : call[c] \in TunnelCalls /\ TunnelCallFits(call[c])
  BY <1>t DEF TunnelTypes
<1>6. Alone'
  <2>1. /\ call' = call /\ mgr' = mgr /\ disturbed' = disturbed
        /\ Tunnels!TunnelsOf(rows') = Tunnels!TunnelsOf(rows)
    BY <1>1, <1>2
  <2> QED BY <2>1, <1>4, <1>5, <1>t DEF Alone, Tunnels!ServedAsStored
<1> QED BY <1>2, <1>3, <1>6 DEF TunnelsInv

\* PublishEndpoint creates a tunnel and goes on to start it.
LEMMA PublishStep ==
  ASSUME ConstantsFit, TunnelsInv, NEW c \in Callers, NEW id \in Ids, NEW n \in Names,
         NEW s \in Specs, Tunnels!Publish(c, id, n, s)
  PROVE  TunnelsInv'
<1> DEFINE r == [name |-> n, spec |-> s, status |-> "stopped"]
           k == [pc |-> "start", id |-> id, row |-> r]
<1>t. TunnelTypes /\ RowsSound /\ Alone
  BY DEF TunnelsInv
<1>1. /\ id \in Ids \ born /\ ~Tunnels!NameTaken(n, id)
      /\ rows' = [rows EXCEPT ![id] = r]
      /\ born' = born \cup {id} /\ Tunnels!Begin(c, "start", id, r)
      /\ UNCHANGED <<mgr, left, leftUp, runMu>>
  BY DEF Tunnels!Publish, Tunnels!others
<1>2. /\ rows' \in Tables /\ born' \subseteq Ids /\ RowsSound' /\ rows'[id] = r
      /\ Tunnels!TunnelsOf(rows') = Tunnels!TunnelsOf(rows)
  BY <1>1, <1>t, AddedRow
<1>3. /\ call' = [call EXCEPT ![c] = k] /\ call[c] = Tunnels!Idle
      /\ disturbed' = (disturbed \/ ~Tunnels!Quiet(c))
  BY <1>1 DEF Tunnels!Begin
<1>4. r \in Tunnels!Row /\ r # None
  BY DEF Tunnels!Row, ConstantsFit, Tunnels!NoneAssumption
<1> HIDE DEF r
<1>5. k \in TunnelCalls /\ TunnelCallFits(k) /\ k.pc = "start" /\ k.id = id /\ k.row = r
  BY <1>4 DEF TunnelCalls, TunnelCallFits, HasRow, Tunnels!Idle
<1> HIDE DEF k
<1>6. ~disturbed' => /\ \A d \in Callers \ {c} : call[d] = Tunnels!Idle
                     /\ StepSound(k, rows', mgr'.tunnels)
  <2>1. SUFFICES ASSUME ~disturbed' PROVE /\ \A d \in Callers \ {c} : call[d] = Tunnels!Idle
                                          /\ StepSound(k, rows', mgr'.tunnels)
    OBVIOUS
  <2>2. ~disturbed /\ \A d \in Callers \ {c} : call[d] = Tunnels!Idle
    BY <1>3, <2>1 DEF Tunnels!Quiet
  <2>3. mgr.tunnels = Tunnels!TunnelsOf(rows)
    BY <1>3, <1>t, <2>2 DEF Alone, Tunnels!ServedAsStored
  <2> QED BY <1>1, <1>2, <1>4, <1>5, <2>2, <2>3 DEF StepSound
<1>7. disturbed' \in BOOLEAN
  BY <1>3, <1>t DEF TunnelTypes, Tunnels!Quiet
<1> QED BY <1>1, <1>2, <1>3, <1>5, <1>6, <1>7, <1>t, TunnelCallStep DEF TunnelTypes


\* A step about the tunnels keeps their invariant.
LEMMA TunnelsStep ==
  ConstantsFit /\ TunnelsInv /\ Installing /\ Tunnels!Next => TunnelsInv'
<1> SUFFICES ASSUME ConstantsFit, TunnelsInv, Installing, Tunnels!Next PROVE TunnelsInv'
  OBVIOUS
<1>t. TunnelTypes /\ RowsSound /\ Alone
  BY DEF TunnelsInv
<1>n. None \notin Tunnels!Row \cup Specs \cup Callers
  BY DEF ConstantsFit, Tunnels!NoneAssumption
<1>i. Tunnels!Idle \in TunnelCalls /\ TunnelCallFits(Tunnels!Idle) /\ Tunnels!Idle.pc = "idle"
  BY DEF Tunnels!Idle, TunnelCalls, TunnelCallFits, HasRow
<1>r. \A i \in Ids : rows[i] # None => rows[i] \in Tunnels!Row
  BY <1>t DEF TunnelTypes, Tables
<1>o. Tunnels!TunnelsOf(rows) \in Served
  BY <1>t, TunnelsOfTable DEF TunnelTypes, RowsSound
\* A call that is under way: it is alone unless the run is disturbed.
<1>c. ASSUME NEW c \in Callers, call[c].pc # "idle"
      PROVE /\ call[c] \in TunnelCalls /\ TunnelCallFits(call[c]) /\ call[c] # Tunnels!Idle
            /\ ~disturbed => /\ \A d \in Callers \ {c} : call[d] = Tunnels!Idle
                             /\ StepSound(call[c], rows, mgr.tunnels)
  BY <1>c, <1>t, <1>i DEF TunnelTypes, Alone
<1>k. ASSUME UNCHANGED rows, UNCHANGED born PROVE RowsSound' /\ rows' \in Tables /\ born' \subseteq Ids
  BY <1>k, <1>t DEF RowsSound, NamesDiffer, TunnelTypes
\* A call that ends with the tables as they are and the tunnels right.
<1>e. ASSUME NEW c \in Callers, Tunnels!Return(c), UNCHANGED <<rows, born>>,
             mgr' \in Tunnels!Manager, left' \in 0 .. MaxLeft, leftUp' \in BOOLEAN,
             runMu' \in Callers \cup {None}, disturbed' \in BOOLEAN,
             call[c].pc # "idle",
             ~disturbed' => ~disturbed /\ mgr'.tunnels = Tunnels!TunnelsOf(rows)
      PROVE TunnelsInv'
  <2>1. call' = [call EXCEPT ![c] = Tunnels!Idle]
    BY <1>e DEF Tunnels!Return
  <2>2. ~disturbed' => /\ \A d \in Callers \ {c} : call[d] = Tunnels!Idle
                       /\ StepSound(Tunnels!Idle, rows', mgr'.tunnels)
    BY <1>c, <1>e, <1>i DEF StepSound, HasRow
  <2>3. RowsSound' /\ rows' \in Tables /\ born' \subseteq Ids
    BY <1>e, <1>k
  <2>4. PICK k \in TunnelCalls : k = Tunnels!Idle
    BY <1>i
  <2> QED BY <1>e, <1>i, <2>1, <2>2, <2>3, <2>4, TunnelCallStep
\* A call that goes on with the row it has.
<1>g. ASSUME NEW c \in Callers, NEW next \in HasRow, Tunnels!Goto(c, next),
             UNCHANGED <<rows, born, left, leftUp, disturbed>>, mgr' \in Tunnels!Manager,
             runMu' \in Callers \cup {None}, call[c].pc \in HasRow,
             ~disturbed => StepSound([call[c] EXCEPT !.pc = next], rows, mgr'.tunnels)
      PROVE TunnelsInv'
  <2>1. PICK k : k = [call[c] EXCEPT !.pc = next]
    OBVIOUS
  <2>2. call[c].pc # "idle"
    BY <1>g DEF HasRow
  <2>3. call[c] \in TunnelCalls /\ TunnelCallFits(call[c])
    BY <1>c, <2>2
  <2>4. k \in TunnelCalls /\ TunnelCallFits(k)
    BY <1>g, <2>1, <2>3 DEF TunnelCalls, TunnelCallFits, HasRow, Tunnels!Idle
  <2>5. call' = [call EXCEPT ![c] = k]
    BY <1>g, <2>1 DEF Tunnels!Goto
  <2>6. ~disturbed' => /\ \A d \in Callers \ {c} : call[d] = Tunnels!Idle
                       /\ StepSound(k, rows', mgr'.tunnels)
    BY <1>c, <1>g, <2>1, <2>2
  <2>7. RowsSound' /\ rows' \in Tables /\ born' \subseteq Ids
    BY <1>g, <1>k
  <2>8. left' \in 0 .. MaxLeft /\ leftUp' \in BOOLEAN /\ disturbed' \in BOOLEAN
    BY <1>g, <1>t DEF TunnelTypes
  <2> QED BY <1>g, <2>4, <2>5, <2>6, <2>7, <2>8, TunnelCallStep
\* The manager with another tunnel of a name.
<1>m. ASSUME NEW n \in Names, NEW v \in Specs \cup {None}, Tunnels!SetTunnel(n, v)
      PROVE mgr' \in Tunnels!Manager /\ mgr'.tunnels = [mgr.tunnels EXCEPT ![n] = v]
  <2>1. mgr.tunnels \in Served /\ mgr \in Tunnels!Manager
    BY <1>t DEF TunnelTypes, Tunnels!Manager, Served
  <2> DEFINE f == [mgr.tunnels EXCEPT ![n] = v]
  <2>2. f \in Served
    BY <2>1 DEF Served
  <2>3. mgr' = [mgr EXCEPT !.tunnels = f]
    BY <1>m DEF Tunnels!SetTunnel
  <2> HIDE DEF f
  <2>4. mgr' \in Tunnels!Manager /\ mgr'.tunnels = f
    BY <2>1, <2>2, <2>3 DEF Tunnels!Manager, Served
  <2> QED BY <2>4 DEF f
<1>1. ASSUME NEW id \in Ids, NEW n \in Names, NEW s \in Specs, Tunnels!Create(id, n, s)
      PROVE TunnelsInv'
  BY <1>1, CreateStep
<1>2. ASSUME NEW id \in Ids, NEW n \in Names, NEW s \in Specs, NEW c \in Callers,
             Tunnels!Publish(c, id, n, s)
      PROVE TunnelsInv'
  BY <1>2, PublishStep
<1>3. ASSUME NEW c \in Callers, NEW id \in Ids, Tunnels!EditRead(c, id) PROVE TunnelsInv'
  <2>1. rows[id] \in Tunnels!Row /\ rows[id] # None /\ rows[id].status = "stopped"
    BY <1>3, <1>r DEF Tunnels!EditRead
  <2> QED BY <1>3, <2>1, BeginStep DEF Tunnels!EditRead, Tunnels!others
<1>4. ASSUME NEW c \in Callers, NEW id \in Ids, Tunnels!StartRead(c, id) PROVE TunnelsInv'
  <2>1. rows[id] \in Tunnels!Row /\ rows[id] # None
    BY <1>4, <1>r DEF Tunnels!StartRead
  <2> QED BY <1>4, <2>1, BeginStep DEF Tunnels!StartRead, Tunnels!others
<1>5. ASSUME NEW c \in Callers, NEW id \in Ids, Tunnels!StopRead(c, id) PROVE TunnelsInv'
  <2>1. rows[id] \in Tunnels!Row /\ rows[id] # None
    BY <1>5, <1>r DEF Tunnels!StopRead
  <2> QED BY <1>5, <2>1, BeginStep DEF Tunnels!StopRead, Tunnels!others
<1>6. ASSUME NEW c \in Callers, NEW id \in Ids, Tunnels!DeleteRead(c, id) PROVE TunnelsInv'
  <2>1. rows[id] \in Tunnels!Row /\ rows[id] # None
    BY <1>6, <1>r DEF Tunnels!DeleteRead
  <2> QED BY <1>6, <2>1, BeginStep DEF Tunnels!DeleteRead, Tunnels!others
<1>7. ASSUME NEW c \in Callers, NEW id \in Ids, NEW s \in Specs, Tunnels!ImportRead(c, id, s)
      PROVE TunnelsInv'
  <2>1. rows[id] \in Tunnels!Row /\ rows[id] # None
    BY <1>7, <1>r DEF Tunnels!ImportRead
  <2>2. PICK r : r = [rows[id] EXCEPT !.spec = s]
    OBVIOUS
  <2>3. r \in Tunnels!Row /\ r.status = rows[id].status
    BY <2>1, <2>2 DEF Tunnels!Row
  <2>4. Tunnels!Begin(c, "write", id, r)
    BY <1>7, <2>2 DEF Tunnels!ImportRead
  <2> QED BY <1>7, <2>1, <2>3, <2>4, BeginStep DEF Tunnels!ImportRead, Tunnels!others
<1>8. ASSUME NEW c \in Callers, NEW n \in Names, NEW s \in Specs, Tunnels!EditCheck(c, n, s)
      PROVE TunnelsInv'
  <2>0. /\ call[c].pc = "edit" /\ UNCHANGED <<rows, born, mgr, left, leftUp, runMu, disturbed>>
        /\ mgr' \in Tunnels!Manager /\ left' \in 0 .. MaxLeft /\ leftUp' \in BOOLEAN
        /\ runMu' \in Callers \cup {None} /\ disturbed' \in BOOLEAN
    BY <1>8, <1>t DEF Tunnels!EditCheck, Tunnels!At, Tunnels!others, TunnelTypes
  <2>1. CASE Tunnels!Return(c)
    <3>1. ~disturbed' => mgr'.tunnels = Tunnels!TunnelsOf(rows)
      BY <1>c, <2>0 DEF StepSound
    <3> QED BY <1>e, <2>0, <2>1, <3>1
  <2>2. CASE call' = [call EXCEPT ![c].pc = "write", ![c].row.name = n, ![c].row.spec = s]
    <3>1. PICK r : r = [call[c].row EXCEPT !.name = n, !.spec = s]
      OBVIOUS
    <3>2. PICK k : k = [call[c] EXCEPT !.pc = "write", !.row = r]
      OBVIOUS
    <3>3. /\ call[c] \in TunnelCalls /\ call[c].row \in Tunnels!Row /\ call[c].id \in Ids
          /\ ~disturbed => /\ \A d \in Callers \ {c} : call[d] = Tunnels!Idle
                           /\ StepSound(call[c], rows, mgr.tunnels)
      BY <1>c, <2>0 DEF TunnelCallFits, HasRow
    <3>4. r \in Tunnels!Row /\ r.status = call[c].row.status
      BY <3>1, <3>3 DEF Tunnels!Row
    <3>5. k \in TunnelCalls /\ k.pc = "write" /\ k.id = call[c].id /\ k.row = r
      BY <3>2, <3>3, <3>4 DEF TunnelCalls, HasRow
    <3>6. TunnelCallFits(k)
      BY <3>3, <3>4, <3>5 DEF TunnelCallFits, Tunnels!Idle
    <3>7. call' = [call EXCEPT ![c] = k]
      BY <2>2, <3>1, <3>2
    <3>8. ~disturbed => StepSound(k, rows, mgr.tunnels)
      BY <2>0, <3>3, <3>4, <3>5 DEF StepSound, HasRow
    <3>9. RowsSound' /\ rows' \in Tables /\ born' \subseteq Ids
      BY <2>0, <1>k
    <3> QED BY <2>0, <3>3, <3>5, <3>6, <3>7, <3>8, <3>9, TunnelCallStep
  <2> QED BY <1>8, <2>1, <2>2 DEF Tunnels!EditCheck
<1>9. ASSUME NEW c \in Callers, Tunnels!WriteRow(c) PROVE TunnelsInv'
  <2> DEFINE id == call[c].id
             r == call[c].row
  <2>0. /\ call[c].pc = "write" /\ Tunnels!Return(c)
        /\ UNCHANGED <<born, mgr, left, leftUp, runMu>>
        /\ disturbed' = (disturbed \/ (rows[id] # None /\ Tunnels!HasTunnel(rows[id].name)))
        /\ mgr' \in Tunnels!Manager /\ left' \in 0 .. MaxLeft /\ leftUp' \in BOOLEAN
        /\ runMu' \in Callers \cup {None} /\ born' \subseteq Ids
    BY <1>9, <1>t DEF Tunnels!WriteRow, Tunnels!At, Tunnels!others, TunnelTypes
  <2>1. disturbed' \in BOOLEAN
    BY <2>0, <1>t DEF TunnelTypes, Tunnels!HasTunnel
  <2>2. /\ r \in Tunnels!Row /\ id \in Ids
        /\ ~disturbed => /\ \A d \in Callers \ {c} : call[d] = Tunnels!Idle
                         /\ StepSound(call[c], rows, mgr.tunnels)
    BY <1>c, <2>0 DEF TunnelCallFits, HasRow
  <2>3. CASE UNCHANGED rows
    <3>1. ~disturbed' => ~disturbed /\ mgr'.tunnels = Tunnels!TunnelsOf(rows)
      BY <2>0, <2>2 DEF StepSound
    <3> QED BY <1>e, <2>0, <2>1, <2>3, <3>1
  <2>4. CASE /\ rows[id] # None /\ ~Tunnels!NameTaken(r.name, id)
             /\ rows' = [rows EXCEPT ![id] = r]
    <3>1. PICK t \in Tables : t = rows'
      BY <2>2, <2>4, <1>t DEF TunnelTypes, Tables
    <3>2. t[id] = r /\ \A i \in Ids \ {id} : t[i] = rows[i]
      BY <2>2, <2>4, <3>1, <1>t DEF TunnelTypes, Tables
    <3>3. NamesDiffer(t)
      BY <2>2, <2>4, <3>2, <1>t DEF NamesDiffer, RowsSound, Tunnels!NameTaken
    <3>4. RowsSound'
      BY <2>0, <2>2, <2>4, <3>1, <3>2, <3>3, <1>t DEF RowsSound
    <3>5. ASSUME ~disturbed' PROVE Tunnels!TunnelsOf(t) = mgr.tunnels
      <4>1. ~disturbed /\ ~Tunnels!HasTunnel(rows[id].name)
        BY <2>0, <2>4, <3>5
      <4>2. mgr.tunnels = Tunnels!TunnelsOf(rows) /\ r.status = rows[id].status
        BY <2>0, <2>2, <4>1 DEF StepSound, HasRow
      <4>3. rows[id].status # "running"
        <5>1. SUFFICES ASSUME rows[id].status = "running" PROVE FALSE
          OBVIOUS
        <5>2. rows[id] \in Tunnels!Row
          BY <1>r, <2>2, <2>4
        <5>3. rows[id].name \in Names /\ rows[id].spec \in Specs
          BY <5>2 DEF Tunnels!Row
        <5>4. Runs(rows, id, rows[id].name)
          BY <2>4, <5>1 DEF Runs
        <5>5. mgr.tunnels[rows[id].name] = rows[id].spec
          BY <1>t, <2>2, <4>2, <5>3, <5>4, TunnelsOfTable DEF TunnelTypes, RowsSound
        <5> QED BY <1>n, <4>1, <5>3, <5>5 DEF Tunnels!HasTunnel
      <4>4. \A i \in Ids, n \in Names : Runs(rows, i, n) <=> Runs(t, i, n)
        BY <3>2, <4>2, <4>3 DEF Runs
      <4>5. \A i \in Ids, n \in Names : Runs(rows, i, n) => rows[i].spec = t[i].spec
        BY <3>2, <4>3 DEF Runs
      <4>6. rows \in Tables /\ NamesDiffer(rows)
        BY <1>t DEF TunnelTypes, RowsSound
      <4> QED BY <3>3, <4>2, <4>4, <4>5, <4>6, SameTunnels
    <3>6. ~disturbed' => /\ \A d \in Callers \ {c} : call[d] = Tunnels!Idle
                         /\ StepSound(Tunnels!Idle, rows', mgr'.tunnels)
      <4>1. ~disturbed' => ~disturbed
        BY <2>0
      <4> QED BY <1>i, <2>0, <2>2, <3>1, <3>5, <4>1 DEF StepSound, HasRow
    <3>7. PICK k \in TunnelCalls : k = Tunnels!Idle
      BY <1>i
    <3>8. call' = [call EXCEPT ![c] = k]
      BY <2>0, <3>7 DEF Tunnels!Return
    <3>9. rows' \in Tables
      BY <3>1
    <3> QED BY <1>i, <2>0, <2>1, <3>4, <3>6, <3>7, <3>8, <3>9, TunnelCallStep
  <2> QED BY <1>9, <2>3, <2>4 DEF Tunnels!WriteRow

<1>10. ASSUME NEW c \in Callers, Tunnels!StartRefused(c) PROVE TunnelsInv'
  <2>0. /\ call[c].pc = "start" /\ Tunnels!Return(c)
        /\ UNCHANGED <<rows, born, mgr, left, leftUp, runMu, disturbed>>
        /\ mgr' \in Tunnels!Manager /\ left' \in 0 .. MaxLeft /\ leftUp' \in BOOLEAN
        /\ runMu' \in Callers \cup {None} /\ disturbed' \in BOOLEAN
    BY <1>10, <1>t DEF Tunnels!StartRefused, Tunnels!At, Tunnels!others, TunnelTypes
  <2>1. ~disturbed' => ~disturbed /\ mgr'.tunnels = Tunnels!TunnelsOf(rows)
    BY <1>c, <2>0 DEF StepSound
  <2> QED BY <1>e, <2>0, <2>1
<1>11. ASSUME NEW c \in Callers, Tunnels!AddTunnel(c) PROVE TunnelsInv'
  <2> DEFINE row == call[c].row
  <2>0. /\ call[c].pc = "start" /\ UNCHANGED <<rows, born, left, leftUp>>
        /\ left' \in 0 .. MaxLeft /\ leftUp' \in BOOLEAN
    BY <1>11, <1>t DEF Tunnels!AddTunnel, Tunnels!At, Tunnels!others, TunnelTypes
  <2>1. /\ row \in Tunnels!Row /\ call[c].id \in Ids
        /\ ~disturbed => StepSound(call[c], rows, mgr.tunnels)
    BY <1>c, <2>0 DEF TunnelCallFits, HasRow
  <2>2. row.name \in Names /\ row.spec \in Specs
    BY <2>1 DEF Tunnels!Row
  <2>3. /\ mgr' \in Tunnels!Manager
        /\ Tunnels!HasTunnel(row.name) => mgr'.tunnels = mgr.tunnels
        /\ ~Tunnels!HasTunnel(row.name) =>
             mgr'.tunnels = [mgr.tunnels EXCEPT ![row.name] = row.spec]
    <3>1. CASE Tunnels!HasTunnel(row.name)
      BY <1>11, <1>t, <3>1 DEF Tunnels!AddTunnel, TunnelTypes
    <3>2. CASE ~Tunnels!HasTunnel(row.name)
      <4>1. Tunnels!SetTunnel(row.name, row.spec)
        BY <1>11, <3>2 DEF Tunnels!AddTunnel
      <4> QED BY <1>m, <2>2, <3>2, <4>1
    <3> QED BY <3>1, <3>2
  <2>4. CASE runMu' = c /\ Tunnels!Goto(c, "mark running") /\ UNCHANGED disturbed
    <3>1. ASSUME ~disturbed
          PROVE mgr'.tunnels = [Tunnels!TunnelsOf(rows) EXCEPT ![row.name] = row.spec]
      <4>1. mgr.tunnels = Tunnels!TunnelsOf(rows) /\ row = rows[call[c].id] /\ row # None
        BY <2>0, <2>1, <3>1 DEF StepSound, HasRow
      <4>2. CASE ~Tunnels!HasTunnel(row.name)
        BY <2>3, <4>1, <4>2
      <4>3. CASE Tunnels!HasTunnel(row.name)
        <5>1. PICK i \in Ids : Runs(rows, i, row.name)
          <6>1. Tunnels!TunnelsOf(rows)[row.name] # None
            BY <4>1, <4>3 DEF Tunnels!HasTunnel
          <6> QED BY <1>t, <2>2, <6>1, TunnelsOfTable DEF TunnelTypes, RowsSound
        <5>2. i = call[c].id
          BY <1>t, <2>1, <4>1, <5>1 DEF Runs, RowsSound, NamesDiffer
        <5>3. Tunnels!TunnelsOf(rows)[row.name] = row.spec
          BY <1>t, <2>2, <4>1, <5>1, <5>2, TunnelsOfTable DEF TunnelTypes, RowsSound
        <5>4. [Tunnels!TunnelsOf(rows) EXCEPT ![row.name] = row.spec] = Tunnels!TunnelsOf(rows)
          <6> DEFINE T == Tunnels!TunnelsOf(rows)
          <6> HIDE DEF T, row
          <6>1. T \in Served /\ T[row.name] = row.spec
            BY <1>o, <5>3 DEF T
          <6>2. [T EXCEPT ![row.name] = row.spec] = T
            BY <2>2, <6>1 DEF Served
          <6> QED BY <6>2 DEF T
        <5> QED BY <2>3, <4>1, <4>3, <5>4
      <4> QED BY <4>2, <4>3
    <3>2. ~disturbed => StepSound([call[c] EXCEPT !.pc = "mark running"], rows, mgr'.tunnels)
      <4>1. PICK k : k = [call[c] EXCEPT !.pc = "mark running"]
        OBVIOUS
      <4>2. k.pc = "mark running" /\ k.row = row /\ k.id = call[c].id
        BY <1>c, <2>0, <4>1 DEF TunnelCalls
      <4>3. ~disturbed => StepSound(k, rows, mgr'.tunnels)
        BY <2>0, <2>1, <3>1, <4>2 DEF StepSound, HasRow
      <4> QED BY <4>1, <4>3
    <3>3. call[c].pc \in HasRow /\ "mark running" \in HasRow
      BY <2>0 DEF HasRow
    <3> QED BY <1>g, <2>0, <2>3, <2>4, <3>2, <3>3
  <2>5. CASE Tunnels!Fail(c) /\ UNCHANGED runMu
    <3>1. Tunnels!Return(c) /\ disturbed' = TRUE
      BY <2>5 DEF Tunnels!Fail
    <3>2. runMu' \in Callers \cup {None}
      BY <2>5, <1>t DEF TunnelTypes
    <3> QED BY <1>e, <2>0, <2>3, <3>1, <3>2
  <2> QED BY <1>11, <2>4, <2>5 DEF Tunnels!AddTunnel
\* The row's new state, when the call has the manager right for it.
<1>s. ASSUME NEW c \in Callers, NEW r \in Tunnels!Row \cup {None},
             call[c].pc \in HasRow, Tunnels!Return(c), UNCHANGED <<born, mgr, left, leftUp>>,
             runMu' \in Callers \cup {None}, UNCHANGED disturbed,
             rows[call[c].id] # None, r # None => r.name = rows[call[c].id].name,
             rows' = [rows EXCEPT ![call[c].id] = r],
             ~disturbed => mgr.tunnels = [Tunnels!TunnelsOf(rows) EXCEPT ![rows[call[c].id].name] =
                             IF r # None /\ r.status = "running" THEN r.spec ELSE None]
      PROVE TunnelsInv'
  <2> DEFINE id == call[c].id
  <2>1. id \in Ids /\ rows \in Tables /\ NamesDiffer(rows) /\ call[c].pc # "idle"
    BY <1>c, <1>s, <1>t DEF TunnelCallFits, HasRow, TunnelTypes, RowsSound
  <2>2. PICK t \in Tables : t = rows'
    BY <1>s, <2>1 DEF Tables
  <2>3. t[id] = r /\ \A i \in Ids \ {id} : t[i] = rows[i]
    BY <1>s, <2>1, <2>2 DEF Tables
  <2>4. /\ NamesDiffer(t)
        /\ Tunnels!TunnelsOf(t) = [Tunnels!TunnelsOf(rows) EXCEPT ![rows[id].name] =
             IF r # None /\ r.status = "running" THEN r.spec ELSE None]
    BY <1>s, <2>1, <2>2, OneTunnelChanges
  <2>5. RowsSound'
    BY <1>s, <1>t, <2>1, <2>2, <2>3, <2>4 DEF RowsSound
  <2>6. ~disturbed' => /\ \A d \in Callers \ {c} : call[d] = Tunnels!Idle
                       /\ StepSound(Tunnels!Idle, rows', mgr'.tunnels)
    BY <1>c, <1>i, <1>s, <2>1, <2>2, <2>4 DEF StepSound, HasRow
  <2>7. PICK k \in TunnelCalls : k = Tunnels!Idle
    BY <1>i
  <2>8. call' = [call EXCEPT ![c] = k]
    BY <1>s, <2>7 DEF Tunnels!Return
  <2>9. /\ rows' \in Tables /\ born' \subseteq Ids /\ mgr' \in Tunnels!Manager
        /\ left' \in 0 .. MaxLeft /\ leftUp' \in BOOLEAN /\ disturbed' \in BOOLEAN
    BY <1>s, <1>t, <2>2 DEF TunnelTypes
  <2> QED BY <1>i, <1>s, <2>5, <2>6, <2>7, <2>8, <2>9, TunnelCallStep
\* A call that fails at its row.
<1>f. ASSUME NEW c \in Callers, Tunnels!Fail(c), UNCHANGED <<rows, born, mgr, left, leftUp>>,
             runMu' \in Callers \cup {None}, call[c].pc # "idle"
      PROVE TunnelsInv'
  <2>1. Tunnels!Return(c) /\ disturbed' = TRUE
    BY <1>f DEF Tunnels!Fail
  <2>2. mgr' \in Tunnels!Manager /\ left' \in 0 .. MaxLeft /\ leftUp' \in BOOLEAN
    BY <1>f, <1>t DEF TunnelTypes
  <2> QED BY <1>e, <1>f, <2>1, <2>2
<1>12. ASSUME NEW c \in Callers, Tunnels!MarkRunning(c) PROVE TunnelsInv'
  <2> DEFINE id == call[c].id
  <2>0. /\ call[c].pc = "mark running" /\ runMu' \in Callers \cup {None}
        /\ UNCHANGED <<born, mgr, left, leftUp>>
    BY <1>12 DEF Tunnels!MarkRunning, Tunnels!SetStatus, Tunnels!At, Tunnels!Unlock, Tunnels!others
  <2>1. /\ call[c].pc \in HasRow /\ call[c].pc # "idle" /\ id \in Ids
        /\ ~disturbed => StepSound(call[c], rows, mgr.tunnels)
    BY <1>c, <2>0 DEF TunnelCallFits, HasRow
  <2>2. CASE Tunnels!Fail(c) /\ UNCHANGED rows
    BY <1>f, <2>0, <2>1, <2>2
  <2>3. CASE Tunnels!Return(c) /\ UNCHANGED disturbed /\ rows[id] = None /\ UNCHANGED rows
    <3>1. ~disturbed' => ~disturbed /\ mgr'.tunnels = Tunnels!TunnelsOf(rows)
      BY <2>1, <2>3 DEF StepSound
    <3>2. mgr' \in Tunnels!Manager /\ left' \in 0 .. MaxLeft /\ leftUp' \in BOOLEAN
          /\ disturbed' \in BOOLEAN
      BY <2>0, <2>3, <1>t DEF TunnelTypes
    <3> QED BY <1>e, <2>0, <2>1, <2>3, <3>1, <3>2
  <2>4. CASE /\ Tunnels!Return(c) /\ UNCHANGED disturbed /\ rows[id] # None
             /\ rows' = [rows EXCEPT ![id].status = "running"]
    <3>1. PICK r : r = [rows[id] EXCEPT !.status = "running"]
      OBVIOUS
    <3>2. /\ r \in Tunnels!Row /\ r.name = rows[id].name /\ r.spec = rows[id].spec
          /\ r.status = "running" /\ r # None
      BY <1>n, <1>r, <2>1, <2>4, <3>1 DEF Tunnels!Row
    <3>3. rows' = [rows EXCEPT ![id] = r]
      BY <2>4, <3>1
    <3>4. ~disturbed => mgr.tunnels = [Tunnels!TunnelsOf(rows) EXCEPT ![rows[id].name] = r.spec]
      BY <2>0, <2>1, <3>2 DEF StepSound, HasRow
    <3> QED BY <1>s, <2>0, <2>1, <2>4, <3>2, <3>3, <3>4
  <2> QED BY <1>12, <2>2, <2>3, <2>4 DEF Tunnels!MarkRunning, Tunnels!SetStatus
<1>13. ASSUME NEW c \in Callers, Tunnels!RemoveTunnel(c) PROVE TunnelsInv'
  <2> DEFINE row == call[c].row
  <2>0. /\ call[c].pc = "stop" /\ UNCHANGED <<rows, born, left, leftUp>>
        /\ Tunnels!SetTunnel(row.name, None)
        /\ left' \in 0 .. MaxLeft /\ leftUp' \in BOOLEAN
    BY <1>13, <1>t DEF Tunnels!RemoveTunnel, Tunnels!At, Tunnels!others, TunnelTypes
  <2>1. /\ row \in Tunnels!Row /\ call[c].id \in Ids
        /\ ~disturbed => StepSound(call[c], rows, mgr.tunnels)
    BY <1>c, <2>0 DEF TunnelCallFits, HasRow
  <2>2. row.name \in Names
    BY <2>1 DEF Tunnels!Row
  <2>3. mgr' \in Tunnels!Manager /\ mgr'.tunnels = [mgr.tunnels EXCEPT ![row.name] = None]
    BY <1>m, <2>0, <2>2
  <2>4. CASE runMu' = c /\ Tunnels!Goto(c, "mark stopped") /\ UNCHANGED disturbed
    <3>2. ~disturbed => StepSound([call[c] EXCEPT !.pc = "mark stopped"], rows, mgr'.tunnels)
      <4>1. PICK k : k = [call[c] EXCEPT !.pc = "mark stopped"]
        OBVIOUS
      <4>2. k.pc = "mark stopped" /\ k.row = row /\ k.id = call[c].id
        BY <1>c, <2>0, <4>1 DEF TunnelCalls
      <4>3. ~disturbed => StepSound(k, rows, mgr'.tunnels)
        BY <2>0, <2>1, <2>3, <4>2 DEF StepSound, HasRow
      <4> QED BY <4>1, <4>3
    <3>3. call[c].pc \in HasRow /\ "mark stopped" \in HasRow
      BY <2>0 DEF HasRow
    <3> QED BY <1>g, <2>0, <2>3, <2>4, <3>2, <3>3
  <2>5. CASE Tunnels!Fail(c) /\ UNCHANGED runMu
    <3>1. Tunnels!Return(c) /\ disturbed' = TRUE
      BY <2>5 DEF Tunnels!Fail
    <3>2. runMu' \in Callers \cup {None}
      BY <2>5, <1>t DEF TunnelTypes
    <3> QED BY <1>e, <2>0, <2>3, <3>1, <3>2
  <2> QED BY <1>13, <2>4, <2>5 DEF Tunnels!RemoveTunnel
<1>14. ASSUME NEW c \in Callers, Tunnels!MarkStopped(c) PROVE TunnelsInv'
  <2> DEFINE id == call[c].id
  <2>0. /\ call[c].pc = "mark stopped" /\ runMu' \in Callers \cup {None}
        /\ UNCHANGED <<born, mgr, left, leftUp>>
    BY <1>14 DEF Tunnels!MarkStopped, Tunnels!SetStatus, Tunnels!At, Tunnels!Unlock, Tunnels!others
  <2>1. /\ call[c].pc \in HasRow /\ call[c].pc # "idle" /\ id \in Ids
        /\ ~disturbed => StepSound(call[c], rows, mgr.tunnels)
    BY <1>c, <2>0 DEF TunnelCallFits, HasRow
  <2>2. CASE Tunnels!Fail(c) /\ UNCHANGED rows
    BY <1>f, <2>0, <2>1, <2>2
  <2>3. CASE Tunnels!Return(c) /\ UNCHANGED disturbed /\ rows[id] = None /\ UNCHANGED rows
    <3>1. ~disturbed' => ~disturbed /\ mgr'.tunnels = Tunnels!TunnelsOf(rows)
      BY <2>1, <2>3 DEF StepSound
    <3>2. mgr' \in Tunnels!Manager /\ left' \in 0 .. MaxLeft /\ leftUp' \in BOOLEAN
          /\ disturbed' \in BOOLEAN
      BY <2>0, <2>3, <1>t DEF TunnelTypes
    <3> QED BY <1>e, <2>0, <2>1, <2>3, <3>1, <3>2
  <2>4. CASE /\ Tunnels!Return(c) /\ UNCHANGED disturbed /\ rows[id] # None
             /\ rows' = [rows EXCEPT ![id].status = "stopped"]
    <3>1. PICK r : r = [rows[id] EXCEPT !.status = "stopped"]
      OBVIOUS
    <3>2. /\ r \in Tunnels!Row /\ r.name = rows[id].name /\ r.status # "running"
      BY <1>n, <1>r, <2>1, <2>4, <3>1 DEF Tunnels!Row
    <3>3. rows' = [rows EXCEPT ![id] = r]
      BY <2>4, <3>1
    <3>4. ~disturbed => mgr.tunnels = [Tunnels!TunnelsOf(rows) EXCEPT ![rows[id].name] = None]
      BY <2>0, <2>1 DEF StepSound, HasRow
    <3> QED BY <1>s, <2>0, <2>1, <2>4, <3>2, <3>3, <3>4
  <2> QED BY <1>14, <2>2, <2>3, <2>4 DEF Tunnels!MarkStopped, Tunnels!SetStatus
<1>15. ASSUME NEW c \in Callers, Tunnels!DeleteRemoves(c) PROVE TunnelsInv'
  <2> DEFINE row == call[c].row
  <2>0. /\ call[c].pc = "remove" /\ UNCHANGED <<rows, born, left, leftUp, runMu, disturbed>>
        /\ Tunnels!SetTunnel(row.name, None) /\ Tunnels!Goto(c, "delete row")
        /\ runMu' \in Callers \cup {None}
    BY <1>15, <1>t DEF Tunnels!DeleteRemoves, Tunnels!At, Tunnels!others, TunnelTypes
  <2>1. /\ row \in Tunnels!Row /\ call[c].id \in Ids
        /\ ~disturbed => StepSound(call[c], rows, mgr.tunnels)
    BY <1>c, <2>0 DEF TunnelCallFits, HasRow
  <2>2. row.name \in Names
    BY <2>1 DEF Tunnels!Row
  <2>3. mgr' \in Tunnels!Manager /\ mgr'.tunnels = [mgr.tunnels EXCEPT ![row.name] = None]
    BY <1>m, <2>0, <2>2
  <2>4. ~disturbed => StepSound([call[c] EXCEPT !.pc = "delete row"], rows, mgr'.tunnels)
    <3>1. PICK k : k = [call[c] EXCEPT !.pc = "delete row"]
      OBVIOUS
    <3>2. k.pc = "delete row" /\ k.row = row /\ k.id = call[c].id
      BY <1>c, <2>0, <3>1 DEF TunnelCalls
    <3>3. ~disturbed => StepSound(k, rows, mgr'.tunnels)
      BY <2>0, <2>1, <2>3, <3>2 DEF StepSound, HasRow
    <3> QED BY <3>1, <3>3
  <2>5. call[c].pc \in HasRow /\ "delete row" \in HasRow
    BY <2>0 DEF HasRow
  <2> QED BY <1>g, <2>0, <2>3, <2>4, <2>5
<1>16. ASSUME NEW c \in Callers, Tunnels!DeleteRow(c) PROVE TunnelsInv'
  <2> DEFINE id == call[c].id
  <2>0. /\ call[c].pc = "delete row" /\ runMu' \in Callers \cup {None}
        /\ UNCHANGED <<born, mgr, left, leftUp, runMu>>
    BY <1>16, <1>t DEF Tunnels!DeleteRow, Tunnels!At, Tunnels!others, TunnelTypes
  <2>1. /\ call[c].pc \in HasRow /\ call[c].pc # "idle" /\ id \in Ids
        /\ ~disturbed => StepSound(call[c], rows, mgr.tunnels)
    BY <1>c, <2>0 DEF TunnelCallFits, HasRow
  <2>2. CASE Tunnels!Fail(c) /\ UNCHANGED rows
    BY <1>f, <2>0, <2>1, <2>2
  <2>3. CASE Tunnels!Return(c) /\ UNCHANGED disturbed /\ rows' = [rows EXCEPT ![id] = None]
    <3>1. CASE rows[id] = None
      <4>1. rows' = rows
        BY <2>1, <2>3, <3>1, <1>t DEF TunnelTypes, Tables
      <4>2. ~disturbed' => ~disturbed /\ mgr'.tunnels = Tunnels!TunnelsOf(rows)
        BY <2>1, <2>3, <3>1 DEF StepSound
      <4>3. mgr' \in Tunnels!Manager /\ left' \in 0 .. MaxLeft /\ leftUp' \in BOOLEAN
            /\ disturbed' \in BOOLEAN
        BY <2>0, <2>3, <1>t DEF TunnelTypes
      <4> QED BY <1>e, <2>0, <2>1, <2>3, <4>1, <4>2, <4>3
    <3>2. CASE rows[id] # None
      <4>1. PICK r : r = None
        OBVIOUS
      <4>2. ~disturbed => mgr.tunnels = [Tunnels!TunnelsOf(rows) EXCEPT ![rows[id].name] = None]
        BY <2>0, <2>1 DEF StepSound, HasRow
      <4> QED BY <1>s, <2>0, <2>1, <2>3, <3>2, <4>1, <4>2
    <3> QED BY <3>1, <3>2
  <2> QED BY <1>16, <2>2, <2>3 DEF Tunnels!DeleteRow
<1>17. ASSUME NEW c \in Callers, Tunnels!ConnectLock(c) PROVE TunnelsInv'
  <2>0. /\ runMu' = c /\ call[c] = Tunnels!Idle /\ call' = [call EXCEPT ![c].pc = "connect"]
        /\ disturbed' = ~Tunnels!Quiet(c) /\ UNCHANGED <<rows, born, mgr, left, leftUp>>
    BY <1>17 DEF Tunnels!ConnectLock, Tunnels!Lock, Tunnels!others
  <2>1. PICK k : k = [call[c] EXCEPT !.pc = "connect"]
    OBVIOUS
  <2>2. k.pc = "connect" /\ k \in TunnelCalls
    BY <1>i, <2>0, <2>1 DEF TunnelCalls
  <2>3. TunnelCallFits(k)
    BY <1>i, <2>2 DEF TunnelCallFits, HasRow
  <2>4. call' = [call EXCEPT ![c] = k]
    BY <2>0, <2>1
  <2>5. ~disturbed' => /\ \A d \in Callers \ {c} : call[d] = Tunnels!Idle
                       /\ StepSound(k, rows', mgr'.tunnels)
    BY <2>0, <2>2 DEF Tunnels!Quiet, StepSound, HasRow
  <2>6. disturbed' \in BOOLEAN
    BY <2>0 DEF Tunnels!Quiet
  <2>7. RowsSound' /\ rows' \in Tables /\ born' \subseteq Ids
    BY <1>k, <2>0
  <2>8. mgr' \in Tunnels!Manager /\ left' \in 0 .. MaxLeft /\ leftUp' \in BOOLEAN
    BY <2>0, <1>t DEF TunnelTypes
  <2> QED BY <2>0, <2>2, <2>3, <2>4, <2>5, <2>6, <2>7, <2>8, TunnelCallStep
<1>18. ASSUME NEW c \in Callers, Tunnels!ListRows(c) PROVE TunnelsInv'
  <2>0. /\ call[c].pc = "connect"
        /\ call' = [call EXCEPT ![c].pc = "install", ![c].row = Tunnels!TunnelsOf(rows)]
        /\ UNCHANGED <<rows, born, mgr, left, leftUp, runMu, disturbed>>
    BY <1>18 DEF Tunnels!ListRows, Tunnels!At, Tunnels!others
  <2>1. PICK T : T = Tunnels!TunnelsOf(rows)
    OBVIOUS
  <2>2. PICK k : k = [call[c] EXCEPT !.pc = "install", !.row = T]
    OBVIOUS
  <2>3. k.pc = "install" /\ k.row = T /\ k \in TunnelCalls
    BY <1>c, <1>o, <2>0, <2>1, <2>2 DEF TunnelCalls
  <2>4. TunnelCallFits(k)
    BY <1>i, <1>o, <2>1, <2>3 DEF TunnelCallFits, HasRow
  <2>5. call' = [call EXCEPT ![c] = k]
    BY <2>0, <2>1, <2>2
  <2>6. ~disturbed' => /\ \A d \in Callers \ {c} : call[d] = Tunnels!Idle
                       /\ StepSound(k, rows', mgr'.tunnels)
    <3>1. Tunnels!TunnelsOf(rows') = T
      BY <2>0, <2>1
    <3> QED BY <1>c, <2>0, <2>3, <3>1 DEF StepSound, HasRow
  <2>7. RowsSound' /\ rows' \in Tables /\ born' \subseteq Ids
    BY <1>k, <2>0
  <2>8. mgr' \in Tunnels!Manager /\ left' \in 0 .. MaxLeft /\ leftUp' \in BOOLEAN
        /\ runMu' \in Callers \cup {None} /\ disturbed' \in BOOLEAN
    BY <2>0, <1>t DEF TunnelTypes
  <2> QED BY <2>3, <2>4, <2>5, <2>6, <2>7, <2>8, TunnelCallStep
<1>19. ASSUME NEW c \in Callers, Tunnels!Install(c) PROVE TunnelsInv'
  <2>0. /\ call[c].pc = "install" /\ runMu' = None /\ Tunnels!Return(c)
        /\ mgr' = [phase |-> "dialing", tunnels |-> call[c].row]
        /\ leftUp' = (leftUp \/ mgr.phase = "up") /\ UNCHANGED <<rows, born, disturbed>>
    BY <1>19 DEF Tunnels!Install, Tunnels!At, Tunnels!Unlock
  <2>1. /\ call[c].row \in Served
        /\ ~disturbed => StepSound(call[c], rows, mgr.tunnels)
    BY <1>c, <2>0 DEF TunnelCallFits
  <2>2. mgr' \in Tunnels!Manager /\ mgr'.tunnels = call[c].row
    BY <2>0, <2>1 DEF Tunnels!Manager, Served
  <2>3. leftUp' \in BOOLEAN /\ disturbed' \in BOOLEAN
    BY <2>0, <1>t DEF TunnelTypes
  <2>4. ~disturbed' => ~disturbed /\ mgr'.tunnels = Tunnels!TunnelsOf(rows)
    BY <2>0, <2>1, <2>2 DEF StepSound
  <2>5. left' \in 0 .. MaxLeft
    <3>1. left \in 0 .. MaxLeft /\ MaxLeft \in Nat
      BY <1>t DEF TunnelTypes, ConstantsFit, Tunnels!BoundAssumption
    <3>2. mgr.phase \in {"dialing", "up"} => left < MaxLeft
      BY <2>0 DEF Installing
    <3>3. left' = IF mgr.phase \in {"dialing", "up"} THEN left + 1 ELSE left
      BY <1>19 DEF Tunnels!Install
    <3> QED BY <3>1, <3>2, <3>3
  <2>6. runMu' \in Callers \cup {None} /\ call[c].pc # "idle"
    BY <2>0
  <2> QED BY <1>e, <2>0, <2>2, <2>3, <2>4, <2>5, <2>6

<1>20. ASSUME Tunnels!LogIn \/ Tunnels!LoseConnection \/ Tunnels!Disconnect
       PROVE TunnelsInv'
  <2>1. /\ mgr \in Tunnels!Manager /\ left \in 0 .. MaxLeft /\ leftUp \in BOOLEAN
    BY <1>t DEF TunnelTypes
  <2>2. /\ UNCHANGED <<rows, born, call, disturbed, runMu, left>>
        /\ leftUp' \in BOOLEAN
    BY <1>20, <2>1 DEF Tunnels!LogIn, Tunnels!LoseConnection, Tunnels!Disconnect, Tunnels!others
  <2>3. \E p \in {"idle", "dialing", "up", "stopped"} : mgr' = [mgr EXCEPT !.phase = p]
    <3>1. mgr = [mgr EXCEPT !.phase = mgr.phase] /\ mgr.phase \in {"idle", "dialing", "up", "stopped"}
      BY <2>1 DEF Tunnels!Manager
    <3>2. CASE Tunnels!LogIn
      BY <3>1, <3>2 DEF Tunnels!LogIn
    <3>3. CASE Tunnels!LoseConnection
      BY <3>1, <3>3 DEF Tunnels!LoseConnection
    <3>4. CASE Tunnels!Disconnect
      BY <3>4 DEF Tunnels!Disconnect
    <3> QED BY <1>20, <3>2, <3>3, <3>4
  <2>4. mgr' \in Tunnels!Manager /\ mgr'.tunnels = mgr.tunnels
    BY <2>1, <2>3 DEF Tunnels!Manager
  <2> QED BY <2>1, <2>2, <2>4, TunnelOtherStep
<1>21. ASSUME Tunnels!Restart PROVE TunnelsInv'
  <2>0. /\ mgr' = [phase |-> "idle", tunnels |-> Tunnels!TunnelsOf(rows)]
        /\ left' = 0 /\ leftUp' = FALSE /\ runMu' = None /\ disturbed' = FALSE
        /\ call' = [c \in Callers |-> Tunnels!Idle] /\ UNCHANGED <<rows, born>>
    BY <1>21 DEF Tunnels!Restart
  <2>1. call' \in [Callers -> TunnelCalls] /\ \A c \in Callers : TunnelCallFits(call'[c])
    BY <1>i, <2>0
  <2>2. left' \in 0 .. MaxLeft
    BY <2>0 DEF ConstantsFit, Tunnels!BoundAssumption
  <2>3. mgr' \in Tunnels!Manager /\ mgr'.tunnels = Tunnels!TunnelsOf(rows')
    BY <1>o, <2>0 DEF Tunnels!Manager, Served
  <2>4. RowsSound' /\ rows' \in Tables /\ born' \subseteq Ids
    BY <1>k, <2>0
  <2>5. TunnelTypes'
    BY <2>0, <2>1, <2>2, <2>3, <2>4 DEF TunnelTypes
  <2>6. Alone'
    BY <2>0, <2>3 DEF Alone, Tunnels!ServedAsStored
  <2> QED BY <2>4, <2>5, <2>6 DEF TunnelsInv
<1> QED
  BY <1>1, <1>2, <1>3, <1>4, <1>5, <1>6, <1>7, <1>8, <1>9, <1>10, <1>11, <1>12, <1>13, <1>14,
     <1>15, <1>16, <1>17, <1>18, <1>19, <1>20, <1>21 DEF Tunnels!Next

\* A manager is replaced under a.runMu, and nothing else makes one (app.go:
\* ConnectServer, DisconnectServer).
LEMMA InstallingStep ==
  ConstantsFit /\ TunnelTypes /\ Installing /\ Tunnels!Next => Installing'
<1> SUFFICES ASSUME ConstantsFit, TunnelTypes, Installing, Tunnels!Next,
                    NEW c \in Callers, call'[c].pc \in {"connect", "install"}
             PROVE  runMu' = c /\ (mgr'.phase \in {"dialing", "up"} => left' < MaxLeft)
  BY DEF Installing
<1> DEFINE Room == mgr.phase \in {"dialing", "up"} => left < MaxLeft
           Busy(k) == k.pc \in {"connect", "install"}
<1>0. /\ None \notin Callers /\ Tunnels!Idle.pc = "idle"
      /\ Busy(call[c]) => runMu = c /\ Room
  BY DEF ConstantsFit, Tunnels!NoneAssumption, Installing, Tunnels!Idle
<1>t. /\ call \in [Callers -> TunnelCalls] /\ mgr \in Tunnels!Manager
      /\ \A d \in Callers : call[d] \in TunnelCalls
  BY DEF TunnelTypes
\* Calls that neither lock, nor unlock, nor become such a call.
<1>1. ASSUME UNCHANGED <<runMu, left>>, mgr'.phase = mgr.phase, Busy(call[c])
      PROVE runMu' = c /\ (mgr'.phase \in {"dialing", "up"} => left' < MaxLeft)
  BY <1>0, <1>1
<1>2. ASSUME NEW d \in Callers, NEW k, k.pc \notin {"connect", "install"},
             call' = [call EXCEPT ![d] = k]
      PROVE c # d /\ Busy(call[c])
  BY <1>2, <1>t
<1>3. ASSUME NEW d \in Callers, NEW id, NEW row, NEW next \in {"edit", "write", "start", "stop", "remove"},
             Tunnels!Begin(d, next, id, row), UNCHANGED <<mgr, runMu, left>>
      PROVE runMu' = c /\ (mgr'.phase \in {"dialing", "up"} => left' < MaxLeft)
  <2>1. PICK k : k = [pc |-> next, id |-> id, row |-> row]
    OBVIOUS
  <2>2. Busy(call[c])
    BY <1>2, <1>3, <2>1 DEF Tunnels!Begin
  <2> QED BY <1>1, <1>3, <2>2
<1>4. ASSUME NEW d \in Callers, Tunnels!Return(d) \/ Tunnels!Fail(d)
      PROVE c # d /\ Busy(call[c])
  <2>1. PICK k : k = Tunnels!Idle
    OBVIOUS
  <2>2. k.pc \notin {"connect", "install"} /\ call' = [call EXCEPT ![d] = k]
    BY <1>0, <1>4, <2>1 DEF Tunnels!Return, Tunnels!Fail
  <2> QED BY <1>2, <2>2
<1>5. ASSUME NEW d \in Callers, NEW next \in HasRow, Tunnels!Goto(d, next)
      PROVE c # d /\ Busy(call[c])
  <2>1. PICK k : k = [call[d] EXCEPT !.pc = next]
    OBVIOUS
  <2>2. k.pc \notin {"connect", "install"} /\ call' = [call EXCEPT ![d] = k]
    BY <1>t, <1>5, <2>1 DEF Tunnels!Goto, TunnelCalls, HasRow
  <2> QED BY <1>2, <2>2
<1>6. ASSUME NEW n, NEW v, Tunnels!SetTunnel(n, v) PROVE mgr'.phase = mgr.phase
  BY <1>6, <1>t DEF Tunnels!SetTunnel, Tunnels!Manager
<1>7. ASSUME NEW id \in Ids, NEW n \in Names, NEW s \in Specs, Tunnels!Create(id, n, s)
      PROVE runMu' = c /\ (mgr'.phase \in {"dialing", "up"} => left' < MaxLeft)
  BY <1>1, <1>7 DEF Tunnels!Create, Tunnels!others
<1>8. ASSUME NEW id \in Ids, NEW n \in Names, NEW s \in Specs, NEW d \in Callers,
             Tunnels!Publish(d, id, n, s)
      PROVE runMu' = c /\ (mgr'.phase \in {"dialing", "up"} => left' < MaxLeft)
  BY <1>3, <1>8 DEF Tunnels!Publish, Tunnels!others
<1>9. ASSUME NEW d \in Callers, NEW id \in Ids,
             \/ Tunnels!EditRead(d, id) \/ Tunnels!StartRead(d, id) \/ Tunnels!StopRead(d, id)
             \/ Tunnels!DeleteRead(d, id) \/ \E s \in Specs : Tunnels!ImportRead(d, id, s)
      PROVE runMu' = c /\ (mgr'.phase \in {"dialing", "up"} => left' < MaxLeft)
  BY <1>3, <1>9 DEF Tunnels!EditRead, Tunnels!StartRead, Tunnels!StopRead, Tunnels!DeleteRead,
     Tunnels!ImportRead, Tunnels!others
<1>10. ASSUME NEW d \in Callers, NEW n \in Names, NEW s \in Specs, Tunnels!EditCheck(d, n, s)
       PROVE runMu' = c /\ (mgr'.phase \in {"dialing", "up"} => left' < MaxLeft)
  <2>1. Busy(call[c])
    <3>1. CASE Tunnels!Return(d)
      BY <1>4, <3>1
    <3>2. CASE call' = [call EXCEPT ![d].pc = "write", ![d].row.name = n, ![d].row.spec = s]
      <4>1. PICK r : r = [call[d].row EXCEPT !.name = n, !.spec = s]
        OBVIOUS
      <4>2. PICK k : k = [call[d] EXCEPT !.pc = "write", !.row = r]
        OBVIOUS
      <4>3. k.pc = "write"
        BY <1>t, <4>2 DEF TunnelCalls
      <4>4. call' = [call EXCEPT ![d] = k]
        BY <3>2, <4>1, <4>2
      <4> QED BY <1>2, <4>3, <4>4
    <3> QED BY <1>10, <3>1, <3>2 DEF Tunnels!EditCheck
  <2> QED BY <1>1, <1>10, <2>1 DEF Tunnels!EditCheck, Tunnels!others
<1>11. ASSUME NEW d \in Callers, Tunnels!WriteRow(d) \/ Tunnels!StartRefused(d) \/ Tunnels!DeleteRow(d)
       PROVE runMu' = c /\ (mgr'.phase \in {"dialing", "up"} => left' < MaxLeft)
  <2>1. Busy(call[c])
    BY <1>4, <1>11 DEF Tunnels!WriteRow, Tunnels!StartRefused, Tunnels!DeleteRow
  <2> QED BY <1>1, <1>11, <2>1 DEF Tunnels!WriteRow, Tunnels!StartRefused, Tunnels!DeleteRow,
          Tunnels!others
<1>12. ASSUME NEW d \in Callers, Tunnels!AddTunnel(d) \/ Tunnels!RemoveTunnel(d)
       PROVE runMu' = c /\ (mgr'.phase \in {"dialing", "up"} => left' < MaxLeft)
  <2>1. runMu = None
    BY <1>12 DEF Tunnels!AddTunnel, Tunnels!RemoveTunnel
  <2>2. Busy(call[c])
    <3>1. "mark running" \in HasRow /\ "mark stopped" \in HasRow
      BY DEF HasRow
    <3> QED BY <1>4, <1>5, <1>12, <3>1 DEF Tunnels!AddTunnel, Tunnels!RemoveTunnel
  <2> QED BY <1>0, <2>1, <2>2
<1>13. ASSUME NEW d \in Callers, Tunnels!MarkRunning(d) \/ Tunnels!MarkStopped(d)
       PROVE runMu' = c /\ (mgr'.phase \in {"dialing", "up"} => left' < MaxLeft)
  <2>1. runMu = d
    BY <1>13 DEF Tunnels!MarkRunning, Tunnels!MarkStopped, Tunnels!SetStatus, Tunnels!Unlock
  <2>2. c # d /\ Busy(call[c])
    BY <1>4, <1>13 DEF Tunnels!MarkRunning, Tunnels!MarkStopped, Tunnels!SetStatus
  <2> QED BY <1>0, <2>1, <2>2
<1>14. ASSUME NEW d \in Callers, Tunnels!DeleteRemoves(d)
       PROVE runMu' = c /\ (mgr'.phase \in {"dialing", "up"} => left' < MaxLeft)
  <2>1. mgr'.phase = mgr.phase
    BY <1>6, <1>14 DEF Tunnels!DeleteRemoves
  <2>2. Busy(call[c])
    <3>1. "delete row" \in HasRow
      BY DEF HasRow
    <3> QED BY <1>5, <1>14, <3>1 DEF Tunnels!DeleteRemoves
  <2> QED BY <1>1, <1>14, <2>1, <2>2 DEF Tunnels!DeleteRemoves, Tunnels!others
<1>15. ASSUME NEW d \in Callers, Tunnels!ConnectLock(d)
       PROVE runMu' = c /\ (mgr'.phase \in {"dialing", "up"} => left' < MaxLeft)
  <2>1. /\ runMu = None /\ runMu' = d /\ mgr.phase # "up"
        /\ mgr.phase = "dialing" => left < MaxLeft
        /\ call' = [call EXCEPT ![d].pc = "connect"] /\ UNCHANGED <<mgr, left>>
    BY <1>15 DEF Tunnels!ConnectLock, Tunnels!Lock, Tunnels!Connected, Tunnels!others
  <2>2. c = d
    <3>1. SUFFICES ASSUME c # d PROVE FALSE
      OBVIOUS
    <3>2. Busy(call[c])
      BY <1>t, <2>1, <3>1
    <3> QED BY <1>0, <2>1, <3>2
  <2> QED BY <2>1, <2>2
<1>16. ASSUME NEW d \in Callers, Tunnels!ListRows(d)
       PROVE runMu' = c /\ (mgr'.phase \in {"dialing", "up"} => left' < MaxLeft)
  <2>1. /\ call[d].pc = "connect" /\ UNCHANGED <<mgr, left, runMu>>
        /\ call' = [call EXCEPT ![d].pc = "install", ![d].row = Tunnels!TunnelsOf(rows)]
    BY <1>16 DEF Tunnels!ListRows, Tunnels!At, Tunnels!others
  <2>2. Busy(call[c])
    <3>1. c # d => call'[c] = call[c]
      BY <1>t, <2>1
    <3> QED BY <2>1, <3>1
  <2> QED BY <1>1, <2>1, <2>2
<1>17. ASSUME NEW d \in Callers, Tunnels!Install(d)
       PROVE runMu' = c /\ (mgr'.phase \in {"dialing", "up"} => left' < MaxLeft)
  <2>1. runMu = d
    BY <1>17 DEF Tunnels!Install, Tunnels!Unlock
  <2>2. c # d /\ Busy(call[c])
    BY <1>4, <1>17 DEF Tunnels!Install
  <2> QED BY <1>0, <2>1, <2>2
<1>18. ASSUME Tunnels!LogIn \/ Tunnels!LoseConnection
       PROVE runMu' = c /\ (mgr'.phase \in {"dialing", "up"} => left' < MaxLeft)
  <2>1. /\ UNCHANGED <<call, left, runMu>>
        /\ mgr' = mgr \/ (mgr.phase \in {"dialing", "up"})
    BY <1>18 DEF Tunnels!LogIn, Tunnels!LoseConnection
  <2> QED BY <1>0, <2>1
<1>19. ASSUME Tunnels!Disconnect
       PROVE runMu' = c /\ (mgr'.phase \in {"dialing", "up"} => left' < MaxLeft)
  BY <1>0, <1>19 DEF Tunnels!Disconnect
<1>20. ASSUME Tunnels!Restart
       PROVE runMu' = c /\ (mgr'.phase \in {"dialing", "up"} => left' < MaxLeft)
  <2>1. call'[c] = Tunnels!Idle
    BY <1>20 DEF Tunnels!Restart
  <2> QED BY <1>0, <2>1
<1> QED
  BY <1>7, <1>8, <1>9, <1>10, <1>11, <1>12, <1>13, <1>14, <1>15, <1>16, <1>17, <1>18, <1>19,
     <1>20 DEF Tunnels!Next

\* What the tunnels part of the program keeps.
LEMMA TunnelsKept == Spec => [](part = "tunnels" => TunnelsInv /\ Installing)
<1> DEFINE Inv == part = "tunnels" => TunnelsInv /\ Installing
<1>1. Init => Inv
  <2>1. Tunnels!Init => Installing
    BY DEF Tunnels!Init, Tunnels!Idle, Installing
  <2> QED BY <2>1, ConstantsFit, TunnelsInitInv DEF Init
<1>2. Inv /\ [Next]_vars => Inv'
  <2>1. CASE UNCHANGED vars
    BY <2>1 DEF vars, tunnelVars, TunnelsInv, TunnelTypes, RowsSound, NamesDiffer, Alone,
       Tunnels!ServedAsStored, Installing
  <2>2. CASE Next
    <3>1. part' = part /\ (part = "tunnels" => Tunnels!Next)
      BY <2>2 DEF Next
    <3>2. TunnelsInv => TunnelTypes
      BY DEF TunnelsInv
    <3> QED BY <3>1, <3>2, ConstantsFit, TunnelsStep, InstallingStep
  <2> QED BY <2>1, <2>2
<1> QED BY <1>1, <1>2, PTL DEF Spec

\* A deleted row is not brought back by a call that read it (config/store.go:
\* Update, UpdateStatus).
THEOREM DeletedRowsStayDeleted == Spec => DeletedStaysDeleted
<1> DEFINE Gone == \A i \in born : rows[i] = None => rows'[i] = None
<1>1. ASSUME TunnelTypes, Tunnels!Next PROVE Gone
  <2>t. rows \in Tables /\ born \subseteq Ids /\ call \in [Callers -> TunnelCalls]
    BY <1>1 DEF TunnelTypes
  \* Whoever writes a row looks first.
  <2>1. ASSUME NEW id, NEW r, rows' = [rows EXCEPT ![id] = r], rows[id] # None \/ id \notin born
        PROVE Gone
    BY <2>1, <2>t DEF Tables
  <2>2. ASSUME NEW id \in Ids, NEW n \in Names, NEW s \in Specs,
               \/ Tunnels!Create(id, n, s)
               \/ \E c \in Callers : Tunnels!Publish(c, id, n, s)
        PROVE Gone
    <3>1. /\ id \notin born
          /\ rows' = [rows EXCEPT ![id] = [name |-> n, spec |-> s, status |-> "stopped"]]
      BY <2>2 DEF Tunnels!Create, Tunnels!Publish
    <3>2. PICK r : r = [name |-> n, spec |-> s, status |-> "stopped"]
      OBVIOUS
    <3> QED BY <2>1, <3>1, <3>2
  <2>3. ASSUME UNCHANGED rows PROVE Gone
    BY <2>3
  <2>4. ASSUME NEW c \in Callers, NEW id \in Ids,
               \/ Tunnels!EditRead(c, id) \/ Tunnels!StartRead(c, id)
               \/ Tunnels!StopRead(c, id) \/ Tunnels!DeleteRead(c, id)
               \/ \E s \in Specs : Tunnels!ImportRead(c, id, s)
        PROVE Gone
    <3>1. UNCHANGED rows
      BY <2>4 DEF Tunnels!EditRead, Tunnels!StartRead, Tunnels!StopRead, Tunnels!DeleteRead,
         Tunnels!ImportRead
    <3> QED BY <2>3, <3>1
  <2>5. ASSUME NEW c \in Callers, NEW n \in Names, NEW s \in Specs, Tunnels!EditCheck(c, n, s)
        PROVE Gone
    BY <2>3, <2>5 DEF Tunnels!EditCheck
  <2>6. ASSUME NEW c \in Callers, Tunnels!WriteRow(c) PROVE Gone
    <3>1. CASE UNCHANGED rows
      BY <2>3, <3>1
    <3>2. CASE rows[call[c].id] # None /\ rows' = [rows EXCEPT ![call[c].id] = call[c].row]
      BY <2>t, <3>2 DEF Tables
    <3> QED BY <2>6, <3>1, <3>2 DEF Tunnels!WriteRow
  <2>7. ASSUME NEW c \in Callers, Tunnels!MarkRunning(c) \/ Tunnels!MarkStopped(c) PROVE Gone
    <3>1. PICK s : Tunnels!SetStatus(c, call[c].pc, s)
      BY <2>7 DEF Tunnels!MarkRunning, Tunnels!MarkStopped, Tunnels!SetStatus, Tunnels!At
    <3>2. CASE UNCHANGED rows
      BY <2>3, <3>2
    <3>3. CASE rows[call[c].id] # None /\ rows' = [rows EXCEPT ![call[c].id].status = s]
      <4>1. PICK r : r = [rows[call[c].id] EXCEPT !.status = s]
        OBVIOUS
      <4> QED BY <2>t, <3>3, <4>1 DEF Tables
    <3> QED BY <3>1, <3>2, <3>3 DEF Tunnels!SetStatus
  <2>8. ASSUME NEW c \in Callers, Tunnels!DeleteRow(c) PROVE Gone
    <3>1. CASE UNCHANGED rows
      BY <2>3, <3>1
    <3>2. CASE rows' = [rows EXCEPT ![call[c].id] = None]
      BY <2>t, <3>2 DEF Tables
    <3> QED BY <2>8, <3>1, <3>2 DEF Tunnels!DeleteRow
  <2>9. ASSUME NEW c \in Callers,
               \/ Tunnels!StartRefused(c) \/ Tunnels!AddTunnel(c) \/ Tunnels!RemoveTunnel(c)
               \/ Tunnels!DeleteRemoves(c) \/ Tunnels!ConnectLock(c) \/ Tunnels!ListRows(c)
               \/ Tunnels!Install(c)
        PROVE Gone
    <3>1. UNCHANGED rows
      BY <2>9 DEF Tunnels!StartRefused, Tunnels!AddTunnel, Tunnels!RemoveTunnel,
         Tunnels!DeleteRemoves, Tunnels!ConnectLock, Tunnels!ListRows, Tunnels!Install
    <3> QED BY <2>3, <3>1
  <2>10. ASSUME \/ Tunnels!LogIn \/ Tunnels!LoseConnection \/ Tunnels!Disconnect
                \/ Tunnels!Restart
         PROVE Gone
    <3>1. UNCHANGED rows
      BY <2>10 DEF Tunnels!LogIn, Tunnels!LoseConnection, Tunnels!Disconnect, Tunnels!Restart
    <3> QED BY <2>3, <3>1
  <2> QED BY <1>1, <2>2, <2>4, <2>5, <2>6, <2>7, <2>8, <2>9, <2>10 DEF Tunnels!Next
<1>2. ASSUME part = "tunnels" => TunnelsInv /\ Installing, [Next]_vars
      PROVE [Gone]_(Tunnels!vars)
  <2>1. CASE UNCHANGED vars
    BY <2>1 DEF vars, tunnelVars, Tunnels!vars, Tunnels!others
  <2>2. CASE Next /\ part = "tunnels"
    BY <1>1, <1>2, <2>2 DEF Next, TunnelsInv
  <2>3. CASE Next /\ part # "tunnels"
    BY <2>3 DEF Next, tunnelVars, Tunnels!vars, Tunnels!others
  <2> QED BY <1>2, <2>1, <2>2, <2>3
<1> QED BY <1>2, TunnelsKept, PTL DEF Spec, DeletedStaysDeleted, Tunnels!DeletedStaysDeleted

-------------------------------------------------------------------------------
(* The fields of a tunnel that the relay fills.                            *)

AnyOf == RelayPorts \cup {0}
Requests == [kind : {"new", "close"}, port : AnyOf, n : Nat]
Answers == [ok : BOOLEAN, port : AnyOf, n : Nat]
FieldTypes ==
  /\ Fields!TypeOK
  /\ toRelay \in Seq(Requests) /\ toClient \in Seq(Answers)
\* What a wish that was not disturbed has reached.
WishHeld ==
  wish # 0 /\ ~mixed =>
    /\ saved.port = wish /\ (def # None => def.port = wish)
    /\ poll.pc # "write" /\ (poll.pc = "status" => poll.seen = wish)
    /\ \A i \in 1 .. Len(toRelay) : toRelay[i].kind = "new" => toRelay[i].port = wish
    /\ \A i \in 1 .. Len(toClient) : toClient[i].ok => toClient[i].port = wish
\* Starts and stops alternate on their way to the relay, the last is the tunnel's;
\* the relay has nothing for a tunnel whose start is next.
InTurn ==
  /\ \A i \in 1 .. Len(toRelay) - 1 : toRelay[i].kind # toRelay[i + 1].kind
  /\ Len(toRelay) > 0 =>
       /\ toRelay[Len(toRelay)].kind = "new" <=> def # None
       /\ toRelay[1].kind = "new" => bound = None
\* Nothing is under way without a connection, and a registration of all tunnels
\* waits for the only message there is.
Linked ==
  /\ ~linked => toRelay = <<>> /\ toClient = <<>> /\ bound = None /\ ~registering
  /\ registering => def # None /\ Len(toRelay) + Len(toClient) = 1
\* Once the relay has taken every message, its last answer is about what it has.
Answered ==
  linked /\ toRelay = <<>> =>
    /\ def = None => bound = None
    /\ def # None /\ Len(toClient) > 0 =>
         LET a == toClient[Len(toClient)]
         IN (a.ok <=> bound # None) /\ (a.ok => a.port = bound)
FieldsInv == FieldTypes /\ WishHeld /\ InTurn /\ Linked /\ Answered /\ Fields!ActiveAsShown

\* The rows and the tunnels the runtime fields are copied between.
LEMMA FieldTypesOf ==
  /\ Fields!Any = 0 /\ Fields!AnyPorts = AnyOf
  /\ Fields!Row = [port : AnyOf, running : BOOLEAN]
  /\ Fields!Tunnel = [port : AnyOf, status : {"inactive", "active", "error"}, n : Nat]
  /\ Fields!Idle = [pc |-> "idle", seen |-> 0, port |-> 0]
BY DEF Fields!Any, Fields!AnyPorts, Fields!Row, Fields!Tunnel, Fields!Idle, AnyOf

\* The runtime fields start in their invariant.
LEMMA FieldsInitInv == ConstantsFit /\ Fields!Init => FieldsInv
<1> SUFFICES ASSUME ConstantsFit, Fields!Init PROVE FieldsInv
  OBVIOUS
<1>0. QueueCap \in Nat /\ MaxStarts \in Nat
  BY DEF ConstantsFit, Fields!BoundAssumption
<1> USE DEF Fields!Init
<1>1. Fields!TypeOK
  <2>1. /\ Len(toRelay) <= QueueCap /\ Len(toClient) <= QueueCap /\ starts \in 0 .. MaxStarts
        /\ {mixed, refused, declined} \subseteq BOOLEAN
    <3>1. Len(toRelay) = 0 /\ Len(toClient) = 0
      OBVIOUS
    <3>2. mixed \in BOOLEAN /\ refused \in BOOLEAN /\ declined \in BOOLEAN
      OBVIOUS
    <3>3. starts \in 0 .. MaxStarts
      BY <1>0
    <3> HIDE DEF Fields!Init
    <3> QED BY <1>0, <3>1, <3>2, <3>3
  <2>2. /\ saved \in Fields!Row /\ wish \in Fields!AnyPorts
        /\ poll \in [pc : {"idle", "status", "write"}, seen : Fields!AnyPorts,
                      port : Fields!AnyPorts]
    BY FieldTypesOf DEF AnyOf
  <2> QED BY <2>1, <2>2 DEF Fields!TypeOK
<1>2. FieldTypes /\ InTurn /\ Linked /\ Answered
  BY <1>1 DEF FieldTypes, InTurn, Linked, Answered
<1>3. WishHeld
  BY FieldTypesOf DEF WishHeld
<1>4. Fields!ActiveAsShown
  BY DEF Fields!ActiveAsShown
<1> QED BY <1>1, <1>2, <1>3, <1>4 DEF FieldsInv

\* A step about the runtime fields keeps their invariant.
LEMMA FieldsStep == ConstantsFit /\ FieldsInv /\ Fields!Next => FieldsInv'
<1> SUFFICES ASSUME ConstantsFit, FieldsInv, Fields!Next PROVE FieldsInv'
  OBVIOUS
<1>t. /\ FieldTypes /\ WishHeld /\ InTurn /\ Linked /\ Answered /\ Fields!ActiveAsShown
      /\ Fields!TypeOK
  BY DEF FieldsInv, FieldTypes
<1>n. None \notin AnyOf /\ None \notin Fields!Tunnel
      /\ 0 \notin RelayPorts /\ QueueCap \in Nat \ {0} /\ MaxStarts \in Nat
  BY FieldTypesOf DEF ConstantsFit, Fields!PortsAssumption, Fields!BoundAssumption
<1>a. /\ saved \in [port : AnyOf, running : BOOLEAN]
      /\ def # None =>
           def \in [port : AnyOf, status : {"inactive", "active", "error"}, n : Nat]
      /\ def \in Fields!Tunnel \cup {None}
      /\ linked \in BOOLEAN /\ registering \in BOOLEAN
      /\ QueueCap \in Nat \ {0} /\ MaxStarts \in Nat
      /\ Len(toRelay) <= QueueCap /\ Len(toClient) <= QueueCap
      /\ toRelay \in Seq(Requests) /\ toClient \in Seq(Answers)
      /\ Len(toRelay) \in Nat /\ Len(toClient) \in Nat
      /\ bound \in RelayPorts \cup {None} /\ others \subseteq RelayPorts
      /\ poll \in [pc : {"idle", "status", "write"}, seen : AnyOf, port : AnyOf]
      /\ starts \in 0 .. MaxStarts /\ wish \in AnyOf
      /\ mixed \in BOOLEAN /\ refused \in BOOLEAN /\ declined \in BOOLEAN
  BY <1>n, <1>t, FieldTypesOf DEF FieldTypes, Fields!TypeOK
\* The types of the next state, said without the instance.
<1>b. ASSUME saved' \in [port : AnyOf, running : BOOLEAN], def' \in Fields!Tunnel \cup {None},
             linked' \in BOOLEAN, registering' \in BOOLEAN,
             Len(toRelay') <= QueueCap, Len(toClient') <= QueueCap,
             toRelay' \in Seq(Requests), toClient' \in Seq(Answers),
             bound' \in RelayPorts \cup {None}, others' \subseteq RelayPorts,
             poll' \in [pc : {"idle", "status", "write"}, seen : AnyOf, port : AnyOf],
             starts' \in 0 .. MaxStarts, wish' \in AnyOf,
             mixed' \in BOOLEAN, refused' \in BOOLEAN, declined' \in BOOLEAN
      PROVE FieldTypes'
  BY <1>b, FieldTypesOf DEF FieldTypes, Fields!TypeOK
<1>v. UNCHANGED <<linked, registering, toRelay, toClient, bound>> <=>
        UNCHANGED Fields!conn
  BY DEF Fields!conn
<1>1. ASSUME NEW p \in Fields!AnyPorts, Fields!Edit(p) PROVE FieldsInv'
  <2>0. /\ def = None /\ saved' = [saved EXCEPT !.port = p] /\ wish' = p /\ declined' = FALSE
        /\ mixed' = (poll.pc # "idle" \/ toRelay # <<>> \/ toClient # <<>>)
        /\ UNCHANGED <<def, linked, registering, toRelay, toClient, bound, others, poll, starts,
                       refused>>
    BY <1>1 DEF Fields!Edit, Fields!conn
  <2>1. saved' \in [port : AnyOf, running : BOOLEAN] /\ saved'.port = p /\ p \in AnyOf
        /\ mixed' \in BOOLEAN
    BY <1>a, <2>0, FieldTypesOf
  <2>2. FieldTypes'
    <3>1. wish' \in AnyOf /\ declined' \in BOOLEAN /\ Len(toRelay') <= QueueCap /\ Len(toClient') <= QueueCap
      BY <1>a, <2>0, <2>1
    <3>2. toRelay' \in Seq(Requests) /\ toClient' \in Seq(Answers)
      BY <1>a, <2>0
    <3> QED BY <1>a, <1>b, <2>0, <2>1, <3>1, <3>2
  <2>3. WishHeld'
    <3>1. SUFFICES ASSUME ~mixed'
                   PROVE /\ saved'.port = wish' /\ (def' # None => def'.port = wish')
                         /\ poll'.pc # "write" /\ (poll'.pc = "status" => poll'.seen = wish')
                         /\ toRelay' = <<>> /\ toClient' = <<>>
      BY DEF WishHeld
    <3>2. poll.pc = "idle" /\ toRelay = <<>> /\ toClient = <<>>
      BY <2>0, <3>1
    <3> QED BY <2>0, <2>1, <3>2
  <2>4. InTurn' /\ Linked' /\ Answered' /\ Fields!ActiveAsShown'
    BY <1>t, <2>0 DEF InTurn, Linked, Answered, Fields!ActiveAsShown
  <2> QED BY <2>2, <2>3, <2>4 DEF FieldsInv
\* A message more, and the tunnel it is about.
<1>m. ASSUME NEW m \in Requests, toRelay' = Append(toRelay, m)
      PROVE /\ toRelay' \in Seq(Requests) /\ Len(toRelay') = Len(toRelay) + 1
            /\ toRelay'[Len(toRelay) + 1] = m
            /\ \A i \in 1 .. Len(toRelay) : toRelay'[i] = toRelay[i]
  BY <1>a, <1>m
<1>2. ASSUME Fields!Start PROVE FieldsInv'
  <2> DEFINE m == [kind |-> "new", port |-> saved.port, n |-> starts + 1]
             d == [port |-> saved.port, status |-> "inactive", n |-> starts + 1]
  <2>0. /\ linked /\ ~registering /\ def = None /\ starts < MaxStarts /\ Len(toRelay) < QueueCap
        /\ starts' = starts + 1 /\ def' = d
        /\ saved' = [saved EXCEPT !.running = TRUE] /\ toRelay' = Append(toRelay, m)
        /\ refused' = FALSE
        /\ UNCHANGED <<linked, registering, toClient, bound, others, poll, wish, mixed, declined>>
    BY <1>2 DEF Fields!Start, Fields!DefOf
  <2>1. m \in Requests /\ m.kind = "new" /\ m.port = saved.port
    BY <1>a DEF Requests
  <2>2. d \in Fields!Tunnel /\ d.port = saved.port
    BY <1>a, FieldTypesOf
  <2>3. saved' \in [port : AnyOf, running : BOOLEAN] /\ saved'.port = saved.port
    BY <1>a, <2>0
  <2>4. starts' \in 0 .. MaxStarts
    BY <1>a, <2>0
  <2> HIDE DEF m, d
  <2>5. /\ toRelay' \in Seq(Requests) /\ Len(toRelay') = Len(toRelay) + 1
        /\ toRelay'[Len(toRelay) + 1] = m
        /\ \A i \in 1 .. Len(toRelay) : toRelay'[i] = toRelay[i]
    BY <1>m, <2>0, <2>1
  <2>6. Len(toRelay') <= QueueCap /\ def' \in Fields!Tunnel \cup {None} /\ def' # None
    BY <1>a, <1>n, <2>0, <2>2, <2>5
  <2>7. FieldTypes'
    BY <1>a, <1>b, <2>0, <2>3, <2>4, <2>5, <2>6
  <2>8. WishHeld'
    BY <1>a, <1>t, <2>0, <2>1, <2>2, <2>3, <2>5 DEF WishHeld
  <2>9. InTurn'
    <3>1. \A i \in 1 .. Len(toRelay') - 1 : toRelay'[i].kind # toRelay'[i + 1].kind
      <4> TAKE i \in 1 .. Len(toRelay') - 1
      <4>1. i \in 1 .. Len(toRelay)
        BY <1>a, <2>5
      <4>2. CASE i = Len(toRelay)
        BY <1>a, <1>t, <2>0, <2>1, <2>5, <4>1, <4>2 DEF InTurn, Requests
      <4>3. CASE i # Len(toRelay)
        BY <1>a, <1>t, <2>5, <4>1, <4>3 DEF InTurn
      <4> QED BY <4>2, <4>3
    <3>2. toRelay'[1].kind = "new" => bound' = None
      <4>1. CASE Len(toRelay) = 0
        BY <1>a, <1>t, <2>0, <4>1 DEF Answered
      <4>2. CASE Len(toRelay) > 0
        BY <1>a, <1>t, <2>0, <2>5, <4>2 DEF InTurn
      <4> QED BY <1>a, <4>1, <4>2
    <3> QED BY <1>a, <2>1, <2>5, <2>6, <3>1, <3>2 DEF InTurn
  <2>10. Linked' /\ Answered' /\ Fields!ActiveAsShown'
    <3>1. toRelay' # <<>>
      BY <1>a, <2>5
    <3> QED BY <2>0, <3>1 DEF Linked, Answered, Fields!ActiveAsShown
  <2> QED BY <2>7, <2>8, <2>9, <2>10 DEF FieldsInv
<1>3. ASSUME Fields!Stop PROVE FieldsInv'
  <2>0. /\ def # None /\ ~registering /\ Len(toRelay) < QueueCap /\ def' = None
        /\ saved' = [saved EXCEPT !.running = FALSE]
        /\ UNCHANGED <<linked, registering, toClient, bound, others, poll, starts, wish, mixed,
                       refused, declined>>
    BY <1>3 DEF Fields!Stop, Fields!history
  <2>1. saved' \in [port : AnyOf, running : BOOLEAN] /\ saved'.port = saved.port
    BY <1>a, <2>0
  <2>2. CASE ~linked
    <3>1. toRelay' = toRelay
      BY <1>3, <2>2 DEF Fields!Stop
    <3>2. FieldTypes'
      BY <1>a, <1>b, <2>0, <2>1, <3>1
    <3>3. WishHeld'
      BY <1>t, <2>0, <2>1, <3>1 DEF WishHeld
    <3>4. InTurn' /\ Linked' /\ Answered' /\ Fields!ActiveAsShown'
      BY <1>t, <2>0, <2>2, <3>1 DEF InTurn, Linked, Answered, Fields!ActiveAsShown
    <3> QED BY <3>2, <3>3, <3>4 DEF FieldsInv
  <2>3. CASE linked
    <3> DEFINE m == [kind |-> "close", port |-> 0, n |-> def.n]
    <3>1. m \in Requests /\ m.kind = "close"
      BY <1>a, <2>0 DEF Requests, AnyOf
    <3>2. toRelay' = Append(toRelay, m)
      BY <1>3, <2>3 DEF Fields!Stop, Fields!Any
    <3> HIDE DEF m
    <3>3. /\ toRelay' \in Seq(Requests) /\ Len(toRelay') = Len(toRelay) + 1
          /\ toRelay'[Len(toRelay) + 1] = m
          /\ \A i \in 1 .. Len(toRelay) : toRelay'[i] = toRelay[i]
      BY <1>m, <3>1, <3>2
    <3>4. FieldTypes'
      BY <1>a, <1>b, <2>0, <2>1, <3>3
    <3>5. WishHeld'
      BY <1>a, <1>t, <2>0, <2>1, <3>1, <3>3 DEF WishHeld
    <3>6. InTurn'
      <4>1. \A i \in 1 .. Len(toRelay') - 1 : toRelay'[i].kind # toRelay'[i + 1].kind
        <5> TAKE i \in 1 .. Len(toRelay') - 1
        <5>1. i \in 1 .. Len(toRelay)
          BY <1>a, <3>3
        <5>2. CASE i = Len(toRelay)
          BY <1>a, <1>t, <2>0, <3>1, <3>3, <5>1, <5>2 DEF InTurn, Requests
        <5>3. CASE i # Len(toRelay)
          BY <1>a, <1>t, <3>3, <5>1, <5>3 DEF InTurn
        <5> QED BY <5>2, <5>3
      <4>2. toRelay'[1].kind = "new" => bound' = None
        <5>1. CASE Len(toRelay) = 0
          BY <3>1, <3>3, <5>1
        <5>2. CASE Len(toRelay) > 0
          <6>1. toRelay'[1] = toRelay[1]
            BY <1>a, <3>3, <5>2
          <6>2. toRelay[1].kind = "new" => bound = None
            BY <1>t, <5>2 DEF InTurn
          <6> QED BY <2>0, <6>1, <6>2
        <5> QED BY <1>a, <5>1, <5>2
      <4> QED BY <1>a, <2>0, <3>1, <3>3, <4>1, <4>2 DEF InTurn
    <3>7. Linked' /\ Answered' /\ Fields!ActiveAsShown'
      <4>1. toRelay' # <<>>
        BY <1>a, <3>3
      <4> QED BY <2>0, <2>3, <4>1 DEF Linked, Answered, Fields!ActiveAsShown
    <3> QED BY <3>4, <3>5, <3>6, <3>7 DEF FieldsInv
  <2> QED BY <2>2, <2>3

\* An answer more.
<1>4. ASSUME Fields!Serve PROVE FieldsInv'
  <2> DEFINE m == toRelay[1]
  <2>0. /\ Len(toRelay) > 0 /\ Len(toClient) < QueueCap /\ toRelay' = Tail(toRelay) /\ m = Head(toRelay)
        /\ UNCHANGED <<saved, def, linked, registering, others, poll, starts, wish, mixed, refused>>
    BY <1>4, <1>a DEF Fields!Serve
  <2>1. /\ m \in Requests /\ toRelay' \in Seq(Requests) /\ Len(toRelay') = Len(toRelay) - 1
        /\ \A i \in 1 .. Len(toRelay') : toRelay'[i] = toRelay[i + 1]
    BY <1>a, <2>0
  <2>2. linked
    BY <1>a, <1>t, <2>0 DEF Linked
  <2>3. \A i \in 1 .. Len(toRelay') - 1 : toRelay'[i].kind # toRelay'[i + 1].kind
    <3> TAKE i \in 1 .. Len(toRelay') - 1
    <3>1. /\ i + 1 \in 1 .. Len(toRelay) - 1 /\ i \in 1 .. Len(toRelay')
          /\ i + 1 \in 1 .. Len(toRelay')
      BY <1>a, <2>1
    <3>2. toRelay[i + 1].kind # toRelay[(i + 1) + 1].kind
      BY <1>t, <3>1 DEF InTurn
    <3> QED BY <2>1, <3>1, <3>2
  <2>4. Len(toRelay') > 0 =>
          /\ toRelay'[Len(toRelay')] = toRelay[Len(toRelay)]
          /\ toRelay'[1] = toRelay[2] /\ toRelay[1].kind # toRelay[2].kind
    <3>1. SUFFICES ASSUME Len(toRelay') > 0
                   PROVE /\ toRelay'[Len(toRelay')] = toRelay[Len(toRelay)]
                         /\ toRelay'[1] = toRelay[2] /\ toRelay[1].kind # toRelay[2].kind
      OBVIOUS
    <3>2. 1 \in 1 .. Len(toRelay') /\ Len(toRelay') \in 1 .. Len(toRelay')
          /\ 1 \in 1 .. Len(toRelay) - 1 /\ 1 + 1 = 2 /\ Len(toRelay') + 1 = Len(toRelay)
      BY <1>a, <2>1, <3>1
    <3>3. toRelay[1].kind # toRelay[1 + 1].kind
      BY <1>t, <3>2 DEF InTurn
    <3> QED BY <2>1, <3>2, <3>3
  <2>5. wish # 0 /\ ~mixed =>
          \A i \in 1 .. Len(toRelay') : toRelay'[i].kind = "new" => toRelay'[i].port = wish
    <3> SUFFICES ASSUME wish # 0, ~mixed, NEW i \in 1 .. Len(toRelay'),
                        toRelay'[i].kind = "new"
                 PROVE  toRelay'[i].port = wish
      OBVIOUS
    <3>1. i + 1 \in 1 .. Len(toRelay)
      BY <1>a, <2>1
    <3> QED BY <1>t, <2>1, <3>1 DEF WishHeld
  <2>6. CASE m.kind = "close"
    <3>1. bound' = None /\ UNCHANGED <<toClient, declined>>
      BY <1>4, <2>0, <2>6 DEF Fields!Serve
    <3>2. FieldTypes'
      BY <1>a, <1>b, <2>0, <2>1, <3>1
    <3>3. WishHeld'
      BY <1>t, <2>0, <2>5, <3>1 DEF WishHeld
    <3>4. InTurn'
      BY <1>a, <1>t, <2>0, <2>1, <2>3, <2>4, <3>1 DEF InTurn
    <3>5. Len(toRelay') = 0 => def = None
      BY <1>a, <1>t, <2>0, <2>1, <2>6 DEF InTurn
    <3>6. registering => FALSE
      <4>1. SUFFICES ASSUME registering PROVE FALSE
        OBVIOUS
      <4>l. \A i \in Nat, j \in Nat : i > 0 /\ i + j = 1 => i = 1
        OBVIOUS
      <4>m. def # None /\ Len(toRelay) + Len(toClient) = 1
        BY <1>t, <4>1 DEF Linked
      <4>2. Len(toRelay) = 1 /\ def # None
        BY <1>a, <2>0, <4>l, <4>m
      <4>3. toRelay[1].kind = "new"
        BY <1>t, <2>0, <4>2 DEF InTurn
      <4> QED BY <2>6, <4>3
    <3>7. Linked' /\ Answered' /\ Fields!ActiveAsShown'
      <4>1. toRelay' = <<>> => Len(toRelay') = 0
        OBVIOUS
      <4> QED BY <2>0, <2>2, <3>1, <3>5, <3>6, <4>1 DEF Linked, Answered, Fields!ActiveAsShown
    <3> QED BY <3>2, <3>3, <3>4, <3>7 DEF FieldsInv
  <2>7. CASE m.kind = "new"
    <3>1. bound = None
      BY <1>t, <2>0, <2>7 DEF InTurn
    <3>2. \E p \in RelayPorts \cup {None} :
            /\ bound' = p /\ toClient' = Fields!Answer(m, p) /\ declined' \in BOOLEAN
            /\ p # None /\ m.port # 0 => p = m.port
      <4> DEFINE free == Fields!Bindable(m.port)
      <4>1. \A p \in free : p \in RelayPorts /\ (m.port # 0 => p = m.port)
        BY <2>1 DEF Fields!Bindable, Fields!Any, Requests, AnyOf
      <4>2. \/ \E p \in free : bound' = p /\ toClient' = Fields!Answer(m, p) /\ UNCHANGED declined
            \/ /\ toClient' = Fields!Answer(m, None) /\ UNCHANGED bound
               /\ declined' = (declined \/ (bound = None /\ others # RelayPorts))
        BY <1>4, <2>0, <2>7, <3>1 DEF Fields!Serve
      <4> HIDE DEF free
      <4> QED BY <1>a, <3>1, <4>1, <4>2
    <3>3. PICK p \in RelayPorts \cup {None} :
            /\ bound' = p /\ toClient' = Fields!Answer(m, p) /\ declined' \in BOOLEAN
            /\ p # None /\ m.port # 0 => p = m.port
      BY <3>2
    <3> DEFINE a == [ok |-> p # None, port |-> IF p = None THEN 0 ELSE p, n |-> m.n]
    <3>4. a \in Answers /\ (a.ok <=> p # None) /\ (a.ok => a.port = p)
      BY <2>1 DEF Answers, Requests, AnyOf
    <3>5. toClient' = Append(toClient, a)
      BY <3>3 DEF Fields!Answer, Fields!Any
    <3> HIDE DEF a
    <3>6. /\ toClient' \in Seq(Answers) /\ Len(toClient') = Len(toClient) + 1
          /\ toClient'[Len(toClient) + 1] = a
          /\ \A i \in 1 .. Len(toClient) : toClient'[i] = toClient[i]
      BY <1>a, <3>4, <3>5
    <3>7. FieldTypes'
      BY <1>a, <1>b, <2>0, <2>1, <3>3, <3>6
    <3>8. wish # 0 /\ ~mixed =>
            \A i \in 1 .. Len(toClient') : toClient'[i].ok => toClient'[i].port = wish
      <4> SUFFICES ASSUME wish # 0, ~mixed, NEW i \in 1 .. Len(toClient'), toClient'[i].ok
                   PROVE toClient'[i].port = wish
        OBVIOUS
      <4>1. CASE i \in 1 .. Len(toClient)
        BY <1>t, <3>6, <4>1 DEF WishHeld
      <4>2. CASE i = Len(toClient) + 1
        <5>1. m.port = wish
          BY <1>a, <1>t, <2>0, <2>7 DEF WishHeld
        <5> QED BY <3>3, <3>4, <3>6, <4>2, <5>1
      <4> QED BY <1>a, <3>6, <4>1, <4>2
    <3>9. WishHeld'
      BY <1>t, <2>0, <2>5, <3>8 DEF WishHeld
    <3>10. InTurn'
      BY <1>a, <1>t, <2>0, <2>1, <2>3, <2>4, <2>7 DEF InTurn
    <3>11. Linked'
      BY <1>a, <1>t, <2>0, <2>1, <2>2, <3>6 DEF Linked
    <3>12. Len(toRelay') = 0 => def # None
      BY <1>a, <1>t, <2>0, <2>1, <2>7 DEF InTurn
    <3>13. Answered' /\ Fields!ActiveAsShown'
      <4>1. toRelay' = <<>> => Len(toRelay') = 0
        OBVIOUS
      <4>2. toClient'[Len(toClient')] = a /\ toClient' # <<>>
        BY <1>a, <3>6
      <4> QED BY <2>0, <3>3, <3>4, <3>12, <4>1, <4>2 DEF Answered, Fields!ActiveAsShown
    <3> QED BY <3>7, <3>9, <3>10, <3>11, <3>13 DEF FieldsInv
  <2> QED BY <2>1, <2>6, <2>7 DEF Requests
<1>5. ASSUME Fields!TakeAnswer PROVE FieldsInv'
  <2> DEFINE a == toClient[1]
  <2>0. /\ Len(toClient) > 0 /\ a = Head(toClient) /\ toClient' = Tail(toClient)
        /\ registering' = FALSE
        /\ UNCHANGED <<saved, linked, toRelay, bound, others, poll, starts, wish, declined>>
    BY <1>5, <1>a DEF Fields!TakeAnswer
  <2>1. /\ a \in Answers /\ toClient' \in Seq(Answers) /\ Len(toClient') = Len(toClient) - 1
        /\ \A i \in 1 .. Len(toClient') : toClient'[i] = toClient[i + 1]
    BY <1>a, <2>0
  <2>2. linked
    BY <1>a, <1>t, <2>0 DEF Linked
  <2>3. wish # 0 /\ ~mixed =>
          \A i \in 1 .. Len(toClient') : toClient'[i].ok => toClient'[i].port = wish
    <3> SUFFICES ASSUME wish # 0, ~mixed, NEW i \in 1 .. Len(toClient'), toClient'[i].ok
                 PROVE  toClient'[i].port = wish
      OBVIOUS
    <3>1. i + 1 \in 1 .. Len(toClient)
      BY <1>a, <2>1
    <3> QED BY <1>t, <2>1, <3>1 DEF WishHeld
  <2>4. Len(toClient') > 0 => toClient'[Len(toClient')] = toClient[Len(toClient)]
    <3>1. SUFFICES ASSUME Len(toClient') > 0
                   PROVE toClient'[Len(toClient')] = toClient[Len(toClient)]
      OBVIOUS
    <3>2. Len(toClient') \in 1 .. Len(toClient') /\ Len(toClient') + 1 = Len(toClient)
      BY <1>a, <2>1, <3>1
    <3> QED BY <2>1, <3>2
  <2>5. Len(toClient') = 0 => Len(toClient) = 1 /\ toClient' = <<>>
    BY <1>a, <2>1
  <2>6. toClient' = <<>> => Len(toClient') = 0
    OBVIOUS
  <2>7. CASE def = None
    <3>1. UNCHANGED <<def, mixed, refused>>
      BY <1>5, <2>7 DEF Fields!TakeAnswer
    <3>2. FieldTypes'
      <4>l. \A i \in Nat : i <= 2 => i - 1 <= 2
        OBVIOUS
      <4>m. Len(toClient') <= QueueCap
        BY <1>a, <2>1, <4>l
      <4>1. Len(toClient') <= QueueCap /\ registering' \in BOOLEAN /\ Len(toRelay') <= QueueCap
        BY <1>a, <2>0, <4>m
      <4> QED BY <1>a, <1>b, <2>0, <2>1, <3>1, <4>1
    <3>3. WishHeld'
      BY <1>t, <2>0, <2>3, <3>1 DEF WishHeld
    <3>4. InTurn' /\ Linked' /\ Answered' /\ Fields!ActiveAsShown'
      BY <1>t, <2>0, <2>2, <2>7, <3>1 DEF InTurn, Linked, Answered, Fields!ActiveAsShown
    <3> QED BY <3>2, <3>3, <3>4 DEF FieldsInv
  <2>8. CASE def # None
    <3>1. /\ def' = IF a.ok THEN [def EXCEPT !.port = a.port, !.status = "active"]
                    ELSE IF registering THEN def ELSE [def EXCEPT !.status = "error"]
          /\ mixed' = (mixed \/ a.n # def.n) /\ refused' = (registering /\ ~a.ok)
      BY <1>5, <2>0, <2>8 DEF Fields!TakeAnswer, Fields!Applied
    <3>2. /\ def' \in Fields!Tunnel
          /\ a.ok => def'.port = a.port /\ def'.status = "active"
          /\ ~a.ok => def'.port = def.port /\ (registering \/ def'.status = "error")
      BY <1>a, <2>1, <2>8, <3>1, FieldTypesOf DEF Answers
    <3>3. mixed' \in BOOLEAN /\ refused' \in BOOLEAN /\ def' # None
      BY <1>a, <1>n, <2>1, <3>1, <3>2 DEF Answers
    <3>4. FieldTypes'
      <4>l. \A i \in Nat : i <= 2 => i - 1 <= 2
        OBVIOUS
      <4>m. Len(toClient') <= QueueCap
        BY <1>a, <2>1, <4>l
      <4>1. Len(toClient') <= QueueCap /\ registering' \in BOOLEAN /\ Len(toRelay') <= QueueCap
        BY <1>a, <2>0, <4>m
      <4>2. toRelay' \in Seq(Requests) /\ def' \in Fields!Tunnel \cup {None}
        BY <1>a, <2>0, <3>2
      <4> QED BY <1>a, <1>b, <2>0, <2>1, <3>3, <4>1, <4>2
    <3>5. WishHeld'
      <4>1. wish # 0 /\ ~mixed /\ a.ok => a.port = wish
        BY <1>a, <1>t, <2>0 DEF WishHeld
      <4>2. ~mixed' => ~mixed
        BY <3>1
      <4> QED BY <1>t, <2>0, <2>1, <2>3, <2>8, <3>2, <4>1, <4>2 DEF WishHeld, Answers
    <3>6. InTurn' /\ Linked'
      BY <1>t, <2>0, <2>2, <2>8, <3>3 DEF InTurn, Linked
    <3>7. Answered'
      BY <1>t, <2>0, <2>1, <2>4, <2>8, <3>3, <1>a DEF Answered
    <3>8. Fields!ActiveAsShown'
      <4>1. SUFFICES ASSUME toRelay = <<>>, toClient' = <<>>
                     PROVE /\ bound # None => def'.status = "active" /\ def'.port = bound
                           /\ def'.status = "active" /\ ~refused' => bound # None
        BY <2>0, <3>3 DEF Fields!ActiveAsShown
      <4>2. toClient[Len(toClient)] = a
        BY <2>5, <2>6, <4>1
      <4>3. (a.ok <=> bound # None) /\ (a.ok => a.port = bound)
        BY <1>t, <2>0, <2>2, <2>8, <4>1, <4>2 DEF Answered
      <4> QED BY <2>1, <3>1, <3>2, <4>3 DEF Answers
    <3> QED BY <3>4, <3>5, <3>6, <3>7, <3>8 DEF FieldsInv
  <2> QED BY <2>7, <2>8
<1>6. ASSUME Fields!Connect PROVE FieldsInv'
  <2>0. /\ ~linked /\ linked' = TRUE /\ registering' = (def # None)
        /\ UNCHANGED <<saved, def, toClient, bound, others, poll, starts, wish, mixed, refused,
                       declined>>
    BY <1>6 DEF Fields!Connect, Fields!history
  <2>1. toRelay = <<>> /\ toClient = <<>> /\ bound = None
    BY <1>t, <2>0 DEF Linked
  <2>2. CASE def = None
    <3>1. toRelay' = <<>>
      BY <1>6, <2>2 DEF Fields!Connect
    <3>2. FieldTypes'
      BY <1>a, <1>b, <2>0, <2>1, <2>2, <3>1
    <3>3. WishHeld'
      BY <1>t, <2>0, <2>1, <3>1 DEF WishHeld
    <3>4. InTurn' /\ Linked' /\ Answered' /\ Fields!ActiveAsShown'
      BY <1>t, <2>0, <2>1, <2>2, <3>1 DEF InTurn, Linked, Answered, Fields!ActiveAsShown
    <3> QED BY <3>2, <3>3, <3>4 DEF FieldsInv
  <2>3. CASE def # None
    <3> DEFINE m == [kind |-> "new", port |-> def.port, n |-> def.n]
    <3>1. m \in Requests /\ m.kind = "new" /\ m.port = def.port
      BY <1>a, <2>3 DEF Requests
    <3>2. toRelay' = <<m>>
      BY <1>6, <2>3 DEF Fields!Connect
    <3> HIDE DEF m
    <3>3. toRelay' \in Seq(Requests) /\ Len(toRelay') = 1 /\ toRelay'[1] = m /\ toRelay' # <<>>
      BY <3>1, <3>2
    <3>4. FieldTypes'
      BY <1>a, <1>b, <2>0, <3>3
    <3>5. WishHeld'
      BY <1>t, <2>0, <2>3, <3>1, <3>3 DEF WishHeld
    <3>6. InTurn'
      BY <2>0, <2>1, <2>3, <3>1, <3>3 DEF InTurn
    <3>7. Linked' /\ Answered' /\ Fields!ActiveAsShown'
      <4>1. Len(toClient') = 0
        BY <2>0, <2>1
      <4> QED BY <2>0, <2>3, <3>3, <4>1 DEF Linked, Answered, Fields!ActiveAsShown
    <3> QED BY <3>4, <3>5, <3>6, <3>7 DEF FieldsInv
  <2> QED BY <2>2, <2>3
<1>7. ASSUME Fields!Lose PROVE FieldsInv'
  <2>0. /\ linked' = FALSE /\ registering' = FALSE /\ toRelay' = <<>> /\ toClient' = <<>>
        /\ bound' = None
        /\ UNCHANGED <<saved, def, others, poll, starts, wish, mixed, refused, declined>>
    BY <1>7 DEF Fields!Lose, Fields!history
  <2>1. FieldTypes'
    <3>1. /\ Len(toRelay') <= QueueCap /\ Len(toClient') <= QueueCap
          /\ toRelay' \in Seq(Requests) /\ toClient' \in Seq(Answers)
      BY <1>a, <2>0
    <3>2. bound' \in RelayPorts \cup {None} /\ linked' \in BOOLEAN /\ registering' \in BOOLEAN
      BY <2>0
    <3> QED BY <1>a, <1>b, <2>0, <3>1, <3>2
  <2>2. WishHeld'
    BY <1>t, <2>0 DEF WishHeld
  <2>3. InTurn' /\ Linked' /\ Answered' /\ Fields!ActiveAsShown'
    BY <2>0 DEF InTurn, Linked, Answered, Fields!ActiveAsShown
  <2> QED BY <2>1, <2>2, <2>3 DEF FieldsInv
<1>8. ASSUME Fields!Restart PROVE FieldsInv'
  <2> DEFINE d == [port |-> saved.port, status |-> "inactive", n |-> starts]
  <2>0. /\ linked' = FALSE /\ registering' = FALSE /\ toRelay' = <<>> /\ toClient' = <<>>
        /\ bound' = None /\ def' \in {d, None} /\ poll' = Fields!Idle /\ refused' = FALSE
        /\ UNCHANGED <<saved, others, starts, wish, mixed, declined>>
    BY <1>8 DEF Fields!Restart, Fields!DefOf
  <2>1. d \in Fields!Tunnel /\ d.port = saved.port
    BY <1>a, FieldTypesOf
  <2> HIDE DEF d
  <2>2. poll' \in [pc : {"idle", "status", "write"}, seen : AnyOf, port : AnyOf]
        /\ poll'.pc = "idle"
    BY <2>0, FieldTypesOf DEF AnyOf
  <2>3. FieldTypes'
    <3>1. /\ Len(toRelay') <= QueueCap /\ Len(toClient') <= QueueCap
          /\ toRelay' \in Seq(Requests) /\ toClient' \in Seq(Answers)
      BY <1>a, <2>0
    <3>2. /\ bound' \in RelayPorts \cup {None} /\ linked' \in BOOLEAN /\ registering' \in BOOLEAN
          /\ refused' \in BOOLEAN /\ def' \in Fields!Tunnel \cup {None}
      BY <2>0, <2>1
    <3> QED BY <1>a, <1>b, <2>0, <2>2, <3>1, <3>2
  <2>4. WishHeld'
    BY <1>t, <2>0, <2>1, <2>2 DEF WishHeld
  <2>5. InTurn' /\ Linked' /\ Answered' /\ Fields!ActiveAsShown'
    BY <2>0 DEF InTurn, Linked, Answered, Fields!ActiveAsShown
  <2> QED BY <2>3, <2>4, <2>5 DEF FieldsInv
\* What GetTunnels does by itself.
<1>p. ASSUME UNCHANGED <<def, linked, registering, toRelay, toClient, bound, others, starts, wish,
                         mixed, refused, declined>>,
             poll' \in [pc : {"idle", "status", "write"}, seen : AnyOf, port : AnyOf],
             saved' \in [port : AnyOf, running : BOOLEAN],
             wish # 0 /\ ~mixed => /\ saved'.port = wish /\ poll'.pc # "write"
                                   /\ poll'.pc = "status" => poll'.seen = wish
      PROVE FieldsInv'
  <2>1. FieldTypes'
    BY <1>a, <1>b, <1>p
  <2>2. WishHeld'
    BY <1>t, <1>p DEF WishHeld
  <2>3. InTurn' /\ Linked' /\ Answered' /\ Fields!ActiveAsShown'
    BY <1>t, <1>p DEF InTurn, Linked, Answered, Fields!ActiveAsShown
  <2> QED BY <2>1, <2>2, <2>3 DEF FieldsInv
<1>9. ASSUME Fields!PollLists PROVE FieldsInv'
  <2>1. /\ poll' = [poll EXCEPT !.pc = "status", !.seen = saved.port]
        /\ UNCHANGED <<saved, def, linked, registering, toRelay, toClient, bound, others, starts,
                       wish, mixed, refused, declined>>
    BY <1>9 DEF Fields!PollLists, Fields!conn, Fields!history
  <2>2. /\ poll' \in [pc : {"idle", "status", "write"}, seen : AnyOf, port : AnyOf]
        /\ poll'.pc = "status" /\ poll'.seen = saved.port
    BY <1>a, <2>1
  <2> QED BY <1>a, <1>p, <1>t, <2>1, <2>2 DEF WishHeld
<1>10. ASSUME Fields!PollReads PROVE FieldsInv'
  <2>1. /\ poll.pc = "status"
        /\ poll' = IF def # None /\ def.port # 0 /\ def.port # poll.seen
                   THEN [poll EXCEPT !.pc = "write", !.port = def.port] ELSE Fields!Idle
        /\ UNCHANGED <<saved, def, linked, registering, toRelay, toClient, bound, others, starts,
                       wish, mixed, refused, declined>>
    BY <1>10 DEF Fields!PollReads, Fields!ShouldPersist, Fields!Any, Fields!conn, Fields!history
  <2>2. poll' \in [pc : {"idle", "status", "write"}, seen : AnyOf, port : AnyOf]
    BY <1>a, <2>1, FieldTypesOf DEF AnyOf
  <2>3. wish # 0 /\ ~mixed => poll'.pc = "idle" /\ saved.port = wish
    BY <1>a, <1>t, <2>1, FieldTypesOf DEF WishHeld
  <2> QED BY <1>a, <1>p, <2>1, <2>2, <2>3
<1>11. ASSUME Fields!PollWrites PROVE FieldsInv'
  <2>1. /\ poll.pc = "write" /\ saved' = [saved EXCEPT !.port = poll.port] /\ poll' = Fields!Idle
        /\ UNCHANGED <<def, linked, registering, toRelay, toClient, bound, others, starts,
                       wish, mixed, refused, declined>>
    BY <1>11 DEF Fields!PollWrites, Fields!conn, Fields!history
  <2>2. /\ poll' \in [pc : {"idle", "status", "write"}, seen : AnyOf, port : AnyOf]
        /\ saved' \in [port : AnyOf, running : BOOLEAN]
    BY <1>a, <2>1, FieldTypesOf DEF AnyOf
  <2>3. ~(wish # 0 /\ ~mixed)
    BY <1>t, <2>1 DEF WishHeld
  <2> QED BY <1>p, <2>1, <2>2, <2>3
<1>12. ASSUME NEW p \in RelayPorts, Fields!OthersChange(p) PROVE FieldsInv'
  <2>1. /\ others' \subseteq RelayPorts
        /\ UNCHANGED <<saved, def, linked, registering, toRelay, toClient, bound, poll, starts,
                       wish, mixed, refused, declined>>
    BY <1>12, <1>a DEF Fields!OthersChange, Fields!conn, Fields!history
  <2>2. FieldTypes'
    BY <1>a, <1>b, <2>1
  <2>3. WishHeld' /\ InTurn' /\ Linked' /\ Answered' /\ Fields!ActiveAsShown'
    BY <1>t, <2>1 DEF WishHeld, InTurn, Linked, Answered, Fields!ActiveAsShown
  <2> QED BY <2>2, <2>3 DEF FieldsInv
<1> QED
  BY <1>1, <1>2, <1>3, <1>4, <1>5, <1>6, <1>7, <1>8, <1>9, <1>10, <1>11, <1>12 DEF Fields!Next

\* The invariant of the runtime fields holds while they are what is looked at.
LEMMA FieldsKept == Spec => [](part = "fields" => FieldsInv)
<1> DEFINE Inv == part = "fields" => FieldsInv
<1>1. Init => Inv
  BY ConstantsFit, FieldsInitInv DEF Init
<1>2. Inv /\ [Next]_vars => Inv'
  <2>1. CASE UNCHANGED vars
    BY <2>1 DEF vars, fieldVars, FieldsInv, FieldTypes, Fields!TypeOK, WishHeld, InTurn, Linked,
       Answered, Fields!ActiveAsShown
  <2>2. CASE Next
    BY <2>2, ConstantsFit, FieldsStep DEF Next
  <2> QED BY <2>1, <2>2
<1> QED BY <1>1, <1>2, PTL DEF Spec

\* Between calls that neither overlap nor fail half way the manager serves what
\* the table marks as running; the port of a tunnel is the one the user chose or
\* the relay gave (app.go: StartTunnel, StopTunnel, DeleteTunnel, UpdateTunnel,
\* ConnectServer, GetTunnels).
THEOREM TunnelsAreServedAsStored == Spec => []ServedAsStored
<1>1. TunnelsInv => Tunnels!TypeOK /\ Tunnels!ServedAsStored
  <2>1. SUFFICES ASSUME TunnelsInv PROVE Tunnels!TypeOK /\ Tunnels!ServedAsStored
    OBVIOUS
  <2>2. Tunnels!ServedAsStored
    BY <2>1 DEF TunnelsInv, Alone, Tunnels!ServedAsStored
  <2>3. \A c \in Callers : call[c].pc \in HasRow \cup {"idle", "connect", "install"}
    BY <2>1 DEF TunnelsInv, TunnelTypes, TunnelCalls
  <2> QED BY <2>1, <2>2, <2>3 DEF TunnelsInv, TunnelTypes, Tables, HasRow, Tunnels!TypeOK
<1>2. FieldsInv => Fields!TypeOK /\ Fields!EditsAreKept /\ Fields!ActiveAsShown
  BY DEF FieldsInv, FieldTypes, WishHeld, Fields!EditsAreKept, Fields!Any
<1>3. /\ part = "tunnels" => TunnelsInv /\ Installing
      /\ part = "fields" => FieldsInv
      => ServedAsStored
  BY <1>1, <1>2 DEF ServedAsStored
<1> QED BY <1>3, TunnelsKept, FieldsKept, PTL

===============================================================================
