---------------------------- MODULE DesktopRecords -----------------------------
(***************************************************************************)
(* Favourite ports and the activity log of the desktop program             *)
(* (desktop/app.go, desktop/internal/config: db.go, store.go).  The window *)
(* may run several calls at once; each statement of SQLite is a step, and  *)
(* no call holds a lock over its statements.  The program's own favourites *)
(* are seeded by the first call that lists them, one statement a port, and *)
(* marked done by another.  A port stands for protocol and number, the     *)
(* unique key of the table; the columns are whether the user wrote them.   *)
(* Of the log, only the entries about ports are kept; a call that is       *)
(* refused, a scan and the clearing of the log append others.              *)
(***************************************************************************)
EXTENDS FiniteSets

CONSTANTS
  Ports,      \* port numbers
  Defaults,   \* those of defaultFavoritePorts
  Callers,    \* calls of the window at a time
  None        \* no row

\* What the constants must satisfy; the MC module assumes it.
DefaultsAssumption == Defaults \subseteq Ports /\ None \notin Ports

VARIABLES
  rows,       \* favorite_ports: rows[p], who wrote the columns
  seeded,     \* app_settings["favorite_ports_seeded"]
  logs,       \* activity_logs: the entries about ports
  call,       \* call[c]: what caller c is at
  choice,     \* history: choice[p]: what the user last did to p
  early,      \* history: ports changed before the seeding was over
  unlogged    \* history: ports whose last change found no place in the log

records == <<rows, seeded, logs>>
history == <<choice, early, unlogged>>
vars == <<records, call, history>>

Done == {"saved", "deleted"}
Entry == [port : Ports, what : Done]
Idle == [pc |-> "idle", todo |-> {}, entry |-> None]

TypeOK ==
  /\ rows \in [Ports -> {"default", "user", None}]
  /\ seeded \in BOOLEAN
  /\ logs \subseteq Entry
  /\ call \in [Callers -> [pc : {"idle", "seed", "log"}, todo : SUBSET Defaults,
                           entry : Entry \cup {None}]]
  /\ choice \in [Ports -> Done \cup {"none"}]
  /\ early \subseteq Ports /\ unlogged \subseteq Ports

Init ==
  /\ rows = [p \in Ports |-> None]
  /\ seeded = FALSE
  /\ logs = {}
  /\ call = [c \in Callers |-> Idle]
  /\ choice = [p \in Ports |-> "none"]
  /\ early = {} /\ unlogged = {}

-------------------------------------------------------------------------------
At(c, pc) == call[c].pc = pc
Seeding == \E c \in Callers : At(c, "seed")
Finish(c) == call' = [call EXCEPT ![c] = Idle]

\* Mutant: the flag is not read.
ListSeedsAgain(c) ==
  /\ At(c, "idle")
  /\ call' = [call EXCEPT ![c] = [Idle EXCEPT !.pc = "seed", !.todo = Defaults]]
  /\ UNCHANGED <<records, history>>

\* ListFavoritePorts, for the page, an export or a scan of the favourites; once
\* they are seeded it only reads.
List(c) ==
  /\ At(c, "idle") /\ ~seeded
  /\ call' = [call EXCEPT ![c] = [Idle EXCEPT !.pc = "seed", !.todo = Defaults]]
  /\ UNCHANGED <<records, history>>

\* The upsert of the seeding takes over the row that is there.
SeedOne(c, p) ==
  /\ At(c, "seed") /\ p \in call[c].todo
  /\ rows' = [rows EXCEPT ![p] = "default"]
  /\ call' = [call EXCEPT ![c].todo = @ \ {p}]
  /\ UNCHANGED <<seeded, logs, history>>

SeedDone(c) ==
  /\ At(c, "seed") /\ call[c].todo = {}
  /\ seeded' = TRUE
  /\ Finish(c)
  /\ UNCHANGED <<rows, logs, history>>

\* The user's change of a port: its entry is appended by a later step.
Chosen(c, p, what) ==
  /\ choice' = [choice EXCEPT ![p] = what]
  /\ early' = IF seeded /\ ~Seeding THEN early \ {p} ELSE early \cup {p}
  /\ unlogged' = unlogged \cup {p}
  /\ call' = [call EXCEPT ![c].pc = "log", ![c].entry = [port |-> p, what |-> what]]
  /\ UNCHANGED <<seeded, logs>>

\* SaveFavoritePort; an import is a sequence of them.  p's row, if there is one,
\* is taken over and keeps its ID.  To change the number of a row fails, as the
\* insert finds its ID there, unless the new number has a row.
SaveFavoritePort(c, p) ==
  /\ At(c, "idle")
  /\ rows' = [rows EXCEPT ![p] = "user"]
  /\ Chosen(c, p, "saved")

DeleteFavoritePort(c, p) ==
  /\ At(c, "idle") /\ rows[p] # None
  /\ rows' = [rows EXCEPT ![p] = None]
  /\ Chosen(c, p, "deleted")

-------------------------------------------------------------------------------
\* The same change may be under way in two calls: the entry is of the last one.
Settled(c, p) == \A d \in Callers \ {c} : call[d].entry = None \/ call[d].entry.port # p

\* Mutant: the entry of a deletion is left out.
EntryOfSave(c) == IF call[c].entry.what = "saved" THEN {call[c].entry} ELSE {}

EntryOf(c) == {call[c].entry}

\* appendActivityLog after the change.
AppendEntry(c) ==
  /\ At(c, "log")
  /\ LET p == call[c].entry.port
     IN /\ logs' = logs \cup EntryOf(c)
        /\ unlogged' = IF Settled(c, p) /\ call[c].entry.what = choice[p]
                       THEN unlogged \ {p} ELSE unlogged
  /\ Finish(c)
  /\ UNCHANGED <<rows, seeded, choice, early>>

\* An append that fails is written to the program's log only.
AppendFails(c) ==
  /\ At(c, "log")
  /\ Finish(c)
  /\ UNCHANGED <<records, history>>

ClearActivityLogs(c) ==
  /\ At(c, "idle")
  /\ logs' = {}
  /\ unlogged' = Ports
  /\ UNCHANGED <<rows, seeded, call, choice, early>>

\* The program ends; what is not written is lost.
Restart ==
  /\ call' = [c \in Callers |-> Idle]
  /\ UNCHANGED <<records, history>>

Next ==
  \/ \E c \in Callers :
       \/ List(c) \/ SeedDone(c) \/ AppendEntry(c) \/ AppendFails(c)
       \/ ClearActivityLogs(c)
       \/ \E p \in Ports : SeedOne(c, p) \/ SaveFavoritePort(c, p) \/ DeleteFavoritePort(c, p)
  \/ Restart

Spec == Init /\ [][Next]_vars

-------------------------------------------------------------------------------
\* What the user saved or deleted once the seeding was over is kept: the
\* program's own favourites do not come back, across restarts
\* (ensureDefaultFavoritePorts, SaveFavoritePort, DeleteFavoritePort).
ChoicesKept ==
  \A p \in Ports \ early :
    /\ choice[p] = "saved" => rows[p] = "user"
    /\ choice[p] = "deleted" => rows[p] = None

\* The log has the last change of a port, unless it was cleared since, the
\* entry failed or the program ended before it (appendActivityLog).
ChangesAreLogged ==
  \A p \in Ports \ unlogged :
    choice[p] # "none" => [port |-> p, what |-> choice[p]] \in logs

\* A change made before the program's favourites are seeded, say by an import
\* into a fresh installation, is kept: does not hold, the seeding takes the row
\* over (app.go: ensureDefaultFavoritePorts).
EarlyChoicesKept ==
  ~Seeding => \A p \in Ports : choice[p] = "saved" => rows[p] = "user"
===============================================================================
