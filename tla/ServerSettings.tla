---------------------------- MODULE ServerSettings ----------------------------
(***************************************************************************)
(* The relays and control planes the desktop program can connect to        *)
(* (desktop/app.go, preferences.go, control_server.go, config/store.go):   *)
(* a list of nodes, the node in use, and at top level a copy of that node. *)
(*                                                                         *)
(* Three writers save the whole of it, each from a copy read earlier and   *)
(* none with a lock: the settings form, which saves itself some time after *)
(* a change; ConnectServer and the control API, which read, patch and      *)
(* save; and ImportConfig.  A save is one transaction, a read is not: it   *)
(* takes the nodes and then the node in use.  Of a node only its relay     *)
(* token is kept here; its addresses are handled alike, except that an     *)
(* export does not blank them.                                             *)
(***************************************************************************)
EXTENDS Naturals, Sequences, SequencesExt

CONSTANTS
  Ids,       \* node ids
  Default,   \* the id of the node of a first start
  Tokens,    \* relay tokens a user enters
  Blank      \* no token

\* What the constants must satisfy; the MC module assumes it.
DefaultAssumption == Default \in Ids
BlankAssumption == Blank \notin Tokens

VARIABLES
  disk,      \* app_settings: the nodes, the node in use, its token at top level
  form,      \* the settings form of the user interface
  unsaved,   \* the form waits to be saved
  reader,    \* the call of ConnectServer or of the control API
  export,    \* an exported file, its tokens blanked
  entered,   \* history: entered[n]: tokens entered for node n
  imported   \* history: a file was imported

vars == <<disk, form, unsaved, reader, export, entered, imported>>

Node == [id : Ids, token : Tokens \cup {Blank}]
Settings == [nodes : Seq(Node), active : Ids, token : Tokens \cup {Blank}]
IdsOf(nodes) == {nodes[i].id : i \in DOMAIN nodes}

\* selectActiveServerNode: the node with that id, or else the first.
Selected(nodes, id) ==
  IF id \in IdsOf(nodes) THEN CHOOSE i \in DOMAIN nodes : nodes[i].id = id ELSE 1
\* What GetServerSettings makes of the list and the id it read.
Loaded(nodes, id) ==
  LET n == nodes[Selected(nodes, id)]
  IN [nodes |-> nodes, active |-> n.id, token |-> n.token]
\* Mutant: the top level goes into the first node.
NormalizeFirst(s) ==
  Loaded([s.nodes EXCEPT ![1].token = s.token], s.nodes[Selected(s.nodes, s.active)].id)

\* normalizeServerSettings: the top level goes into the node in use.
Normalize(s) ==
  LET i == Selected(s.nodes, s.active)
  IN Loaded([s.nodes EXCEPT ![i].token = s.token], s.nodes[i].id)
\* redactServerSettingsSensitive
Redacted(s) ==
  [nodes |-> [i \in DOMAIN s.nodes |-> [s.nodes[i] EXCEPT !.token = Blank]],
   active |-> s.active, token |-> Blank]

First == Loaded(<<[id |-> Default, token |-> Blank]>>, Default)
NoCall == [pc |-> "idle", s |-> First]

\* saveSettingsMap, SetSettings: one transaction over every key.
Store(s) == disk' = Normalize(s)

Init ==
  /\ disk = First /\ form = First /\ unsaved = FALSE
  /\ reader = NoCall
  /\ export = Redacted(First)
  /\ entered = [n \in Ids |-> {Blank}]
  /\ imported = FALSE

-------------------------------------------------------------------------------
(* The settings form: it is filled when the view opens.                     *)
OpenForm ==
  /\ ~unsaved /\ form # disk
  /\ form' = disk
  /\ UNCHANGED <<disk, unsaved, reader, export, entered, imported>>

Change(nodes, id) ==
  /\ form' = Loaded(nodes, id)
  /\ unsaved' = TRUE
  /\ UNCHANGED <<disk, reader, export, imported>>

AddNode(id, t) ==
  /\ id \notin IdsOf(form.nodes)
  /\ Change(Append(form.nodes, [id |-> id, token |-> t]), id)
  /\ entered' = [entered EXCEPT ![id] = @ \cup {t}]

EditNode(i, t) ==
  /\ Change([form.nodes EXCEPT ![i].token = t], form.active)
  /\ entered' = [entered EXCEPT ![form.nodes[i].id] = @ \cup {t}]

DeleteNode(i) ==
  /\ Len(form.nodes) > 1
  /\ Change(RemoveAt(form.nodes, i), form.active)
  /\ UNCHANGED entered

UseNode(i) ==
  /\ form.nodes[i].id # form.active
  /\ Change(form.nodes, form.nodes[i].id)
  /\ UNCHANGED entered

SaveForm ==
  /\ unsaved
  /\ Store(form)
  /\ unsaved' = FALSE
  /\ UNCHANGED <<form, reader, export, entered, imported>>

(* GetServerSettings, for a call that will patch and save.                  *)
ReadNodes ==
  /\ reader.pc = "idle"
  /\ reader' = [pc |-> "nodes", s |-> disk]
  /\ UNCHANGED <<disk, form, unsaved, export, entered, imported>>

ReadActive ==
  /\ reader.pc = "nodes"
  /\ reader' = [pc |-> "patch", s |-> Loaded(reader.s.nodes, disk.active)]
  /\ UNCHANGED <<disk, form, unsaved, export, entered, imported>>

(* ConnectServer and POST /api/v1/settings: the new token is for the node   *)
(* the call read as the one in use.                                         *)
PatchAndSave(t) ==
  /\ reader.pc = "patch"
  /\ Store([reader.s EXCEPT !.token = t])
  /\ entered' = [entered EXCEPT ![reader.s.active] = @ \cup {t}]
  /\ reader' = NoCall
  /\ UNCHANGED <<form, unsaved, export, imported>>

-------------------------------------------------------------------------------
(* ExportConfig without sensitive fields, and ImportConfig of that file: a  *)
(* blank token at top level is filled from the node in use now.             *)
Export ==
  /\ export' = Redacted(disk)
  /\ export' # export
  /\ UNCHANGED <<disk, form, unsaved, reader, entered, imported>>

Import ==
  /\ Store([export EXCEPT !.token = disk.token])
  /\ imported' = TRUE
  /\ UNCHANGED <<form, unsaved, reader, export, entered>>

Next ==
  \/ OpenForm \/ SaveForm \/ ReadNodes \/ ReadActive \/ Export \/ Import
  \/ \E t \in Tokens : \/ PatchAndSave(t)
                       \/ \E id \in Ids : AddNode(id, t)
                       \/ \E i \in DOMAIN form.nodes : EditNode(i, t)
  \/ \E i \in DOMAIN form.nodes : DeleteNode(i) \/ UseNode(i)

Spec == Init /\ [][Next]_vars

-------------------------------------------------------------------------------
TypeOK ==
  /\ {disk, form, reader.s, export} \subseteq Settings
  /\ unsaved \in BOOLEAN /\ imported \in BOOLEAN
  /\ reader.pc \in {"idle", "nodes", "patch"}
  /\ entered \in [Ids -> SUBSET (Tokens \cup {Blank})]

(* What is stored is settled: whichever of the writers saved last and from  *)
(* however old a copy, the ids are distinct, the node in use is one of the  *)
(* list, and reading and saving again changes nothing (app.go:1499-1567).   *)
Settled ==
  /\ IsInjective([i \in DOMAIN disk.nodes |-> disk.nodes[i].id])
  /\ disk = Normalize(disk)
  /\ disk = Loaded(disk.nodes, disk.active)

(* Lost updates and torn reads mix up versions, never nodes: until a file   *)
(* is imported, a node's token is one that was entered for that node.       *)
TokensStayWithTheirNode ==
  ~imported => \A i \in DOMAIN disk.nodes : disk.nodes[i].token \in entered[disk.nodes[i].id]

(* ImportConfig "keeps the sensitive fields this machine has, so that       *)
(* connection credentials are not cleared by mistake" (the comment in       *)
(* preferences.go:209): an import of a file whose tokens are blank leaves   *)
(* no node without the token it had.                                        *)
ImportKeepsTokens ==
  [][Import => \A i \in DOMAIN disk.nodes, j \in DOMAIN disk'.nodes :
       disk.nodes[i].id = disk'.nodes[j].id /\ disk.nodes[i].token # Blank
         => disk'.nodes[j].token # Blank]_vars
===============================================================================
