------------------------------ MODULE Rendezvous ------------------------------
(***************************************************************************)
(* What a relay proxy promises about its sessions, without saying how: an  *)
(* external session is opened, may be joined with one work connection that *)
(* was dialled for it, and ends; no work connection serves two sessions.   *)
(* RelaySessions shows that the code of server/internal/relay/proxy.go     *)
(* implements this.                                                        *)
(***************************************************************************)

CONSTANTS
  Sessions,    \* session ids
  WorkConns,   \* work connections dialled by the client
  NoSession,   \* "not dialled yet"
  NoConn       \* "not joined"

VARIABLES
  phase,       \* phase[s]: "new", "open", "joined" or "over"
  partner,     \* partner[s]: the work connection s was joined with
  target       \* target[w]: the session w was dialled for

vars == <<phase, partner, target>>

Init ==
  /\ phase = [s \in Sessions |-> "new"]
  /\ partner = [s \in Sessions |-> NoConn]
  /\ target = [w \in WorkConns |-> NoSession]

Open(s) ==
  /\ phase[s] = "new"
  /\ phase' = [phase EXCEPT ![s] = "open"]
  /\ UNCHANGED <<partner, target>>

Dial(w, s) ==
  /\ target[w] = NoSession
  /\ phase[s] # "new"
  /\ target' = [target EXCEPT ![w] = s]
  /\ UNCHANGED <<phase, partner>>

Join(s, w) ==
  /\ phase[s] = "open"
  /\ target[w] = s
  /\ \A r \in Sessions : partner[r] # w
  /\ phase' = [phase EXCEPT ![s] = "joined"]
  /\ partner' = [partner EXCEPT ![s] = w]
  /\ UNCHANGED target

\* A session ends unjoined (cancelled, timed out) or after its traffic.
End(s) ==
  /\ phase[s] \in {"open", "joined"}
  /\ phase' = [phase EXCEPT ![s] = "over"]
  /\ UNCHANGED <<partner, target>>

Next ==
  \E s \in Sessions :
    \/ Open(s)
    \/ End(s)
    \/ \E w \in WorkConns : Dial(w, s) \/ Join(s, w)

Spec == Init /\ [][Next]_vars

-------------------------------------------------------------------------------

TypeOK ==
  /\ phase \in [Sessions -> {"new", "open", "joined", "over"}]
  /\ partner \in [Sessions -> WorkConns \cup {NoConn}]
  /\ target \in [WorkConns -> Sessions \cup {NoSession}]

\* A joined session carries a work connection dialled for it, hence no work
\* connection is in two sessions.
OwnPartner ==
  \A s \in Sessions :
    /\ phase[s] = "joined" => partner[s] \in WorkConns
    /\ partner[s] \in WorkConns => target[partner[s]] = s
===============================================================================
