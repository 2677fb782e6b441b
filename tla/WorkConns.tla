------------------------------- MODULE WorkConns ------------------------------
(***************************************************************************)
(* One session of a tunnel from end to end: the user's connection to the   *)
(* relay, the work connection, over TCP or as a stream of QUIC, and the    *)
(* connection to the local service (desktop/internal/tunnel: tunnel.go,    *)
(* workconn.go, workconn_quic.go; server/internal/relay: session.go,       *)
(* quic_server.go).  Two bridges of two copies each forward chunks of data *)
(* with bounded buffers; either copy that ends closes both connections of  *)
(* its bridge.  How the relay finds the session is in RelaySessions.       *)
(***************************************************************************)
EXTENDS Naturals

CONSTANTS
  MaxChunks,  \* bound: chunks that the user and the service send
  Cap         \* bound: chunks in the buffers of one direction of a connection

\* What the constants must satisfy; the MC module assumes it.
BoundAssumption == MaxChunks \in Nat /\ Cap \in Nat \ {0}

Links == {"user", "work", "local"}
Dirs == {"up", "down"}                  \* to the service, to the user
Sides == {"relay", "client"}
Near(side) == IF side = "relay" THEN "user" ELSE "work"
Far(side) == IF side = "relay" THEN "work" ELSE "local"
From(side, d) == IF d = "up" THEN Near(side) ELSE Far(side)
Into(side, d) == IF d = "up" THEN Far(side) ELSE Near(side)

VARIABLES
  quic,       \* the work connection is a stream of QUIC
  chan,       \* chan[l][d]: chunks on their way, and how the direction ends
  shut,       \* shut[l][d]: the connection is closed by who receives there
  copy,       \* copy[s][d]: a copy of the bridge of s
  relay,      \* the session: "waiting" for a work connection, "bridging", "over"
  client,     \* openWorkConn: "idle", "opened", "bridging", "over"
  sent,       \* sent[d]: history: chunks written by the user and the service
  got,        \* got[d]: history: chunks read by them
  broken      \* history: a connection broke

vars == <<quic, chan, shut, copy, relay, client, sent, got, broken>>

TypeOK ==
  /\ quic \in BOOLEAN /\ broken \in BOOLEAN
  /\ chan \in [Links -> [Dirs -> [n : 0 .. Cap, end : {"open", "fin", "rst"}]]]
  /\ shut \in [Links -> [Dirs -> BOOLEAN]]
  /\ copy \in [Sides -> [Dirs -> {"none", "runs", "done"}]]
  /\ relay \in {"waiting", "bridging", "over"}
  /\ client \in {"idle", "opened", "bridging", "over"}
  /\ sent \in [Dirs -> 0 .. MaxChunks] /\ got \in [Dirs -> 0 .. MaxChunks]

\* A connection that is not there is one that both of its ends have closed.
Closed == [n |-> 0, end |-> "fin"]
Init ==
  /\ quic \in BOOLEAN
  /\ chan = [l \in Links |-> [d \in Dirs |->
               IF l = "user" THEN [n |-> 0, end |-> "open"] ELSE Closed]]
  /\ shut = [l \in Links |-> [d \in Dirs |-> l # "user"]]
  /\ copy = [s \in Sides |-> [d \in Dirs |-> "none"]]
  /\ relay = "waiting" /\ client = "idle"
  /\ sent = [d \in Dirs |-> 0] /\ got = [d \in Dirs |-> 0]
  /\ broken = FALSE

-------------------------------------------------------------------------------
(* Connections.  d is the direction in which the closing end receives.     *)

Other(d) == IF d = "up" THEN "down" ELSE "up"

\* Close by the end that receives d: what it has not read resets a connection
\* of TCP, which may take what is under way with it; QUIC asks the sender to
\* stop and finishes its own direction in order.
CloseEnds(l, d, c) ==
  LET out == c[Other(d)]
      resets == c[d].n > 0 /\ ~(l = "work" /\ quic)
  IN {[e \in Dirs |-> IF e = d THEN [n |-> 0, end |-> c[d].end]
                      ELSE [n |-> k, end |-> IF out.end # "open" THEN out.end
                                             ELSE IF resets THEN "rst" ELSE "fin"]] :
        k \in IF resets THEN {0, out.n} ELSE {out.n}}

\* closeBoth of a bridge: each connection is closed once.
CloseBoth(s) ==
  /\ \E near \in CloseEnds(Near(s), "up", chan[Near(s)]),
        far \in CloseEnds(Far(s), "down", chan[Far(s)]) :
       chan' = [chan EXCEPT ![Near(s)] = IF shut[Near(s)]["up"] THEN @ ELSE near,
                            ![Far(s)] = IF shut[Far(s)]["down"] THEN @ ELSE far]
  /\ shut' = [shut EXCEPT ![Near(s)]["up"] = TRUE, ![Far(s)]["down"] = TRUE]

\* Mutant: a copy closes the connection it read from.
CloseOne(s) ==
  /\ \E near \in CloseEnds(Near(s), "up", chan[Near(s)]) :
       chan' = [chan EXCEPT ![Near(s)] = IF shut[Near(s)]["up"] THEN @ ELSE near]
  /\ shut' = [shut EXCEPT ![Near(s)]["up"] = TRUE]

\* The two goroutines of Bridge and bridgeConnections are alike.
CloseBridge(s) == CloseBoth(s)

CanRead(l, d) == chan[l][d].n > 0 /\ ~shut[l][d]
CanWrite(l, d) == chan[l][d].end = "open" /\ ~shut[l][d]

\* A chunk more in a buffer, or one less.
More(c) == [n |-> c.n + 1, end |-> c.end]
Less(c) == [n |-> c.n - 1, end |-> c.end]

MayCopy(s, d) ==
  LET from == From(s, d)  into == Into(s, d)
  IN /\ copy[s][d] = "runs"
     /\ CanRead(from, d) /\ CanWrite(into, d) /\ chan[into][d].n < Cap

Copies(s, d) ==
  /\ MayCopy(s, d)
  /\ chan' = [chan EXCEPT ![From(s, d)][d] = Less(@), ![Into(s, d)][d] = More(@)]
  /\ UNCHANGED <<quic, shut, copy, relay, client, sent, got, broken>>

\* The copy reads the end of the data or an error, or its write fails.
MayEnd(s, d) ==
  LET from == From(s, d)  into == Into(s, d)
  IN /\ copy[s][d] = "runs"
     /\ \/ shut[from][d]
        \/ chan[from][d].n = 0 /\ chan[from][d].end # "open"
        \/ chan[from][d].n > 0 /\ ~CanWrite(into, d)

CopyEnds(s, d) ==
  /\ MayEnd(s, d)
  /\ CloseBridge(s)
  /\ copy' = [copy EXCEPT ![s][d] = "done"]
  /\ relay' = IF s = "relay" THEN "over" ELSE relay
  /\ client' = IF s = "client" THEN "over" ELSE client
  /\ UNCHANGED <<quic, sent, got, broken>>

-------------------------------------------------------------------------------
(* The work connection.                                                    *)

\* openWorkConn: dial the relay or open a stream, and send the handshake.
OpenWorkConn ==
  /\ client = "idle"
  /\ client' = "opened"
  /\ chan' = [chan EXCEPT !["work"] = [d \in Dirs |-> [n |-> 0, end |-> "open"]]]
  /\ shut' = [shut EXCEPT !["work"] = [d \in Dirs |-> FALSE]]
  /\ UNCHANGED <<quic, copy, relay, sent, got, broken>>

OpenFails ==
  /\ client = "idle"
  /\ client' = "over"
  /\ UNCHANGED <<quic, chan, shut, copy, relay, sent, got, broken>>

\* handleWorkConnStream hands it to the session, and Bridge starts.
MayAttach == relay = "waiting" /\ client # "idle" /\ ~shut["work"]["down"]
Attach ==
  /\ MayAttach
  /\ relay' = "bridging"
  /\ copy' = [copy EXCEPT !["relay"] = [d \in Dirs |-> "runs"]]
  /\ UNCHANGED <<quic, chan, shut, client, sent, got, broken>>

\* The session ends without it: the proxy is stopped, the client is gone.
GiveUp ==
  /\ relay = "waiting"
  /\ relay' = "over"
  /\ \E c \in CloseEnds("user", "up", chan["user"]) : chan' = [chan EXCEPT !["user"] = c]
  /\ shut' = [shut EXCEPT !["user"]["up"] = TRUE]
  /\ UNCHANGED <<quic, copy, client, sent, got, broken>>

\* A handshake that names no waiting session closes the work connection.
MayRefuse ==
  relay = "over" /\ copy["relay"]["up"] = "none" /\ ~shut["work"]["down"]
Refuse ==
  /\ MayRefuse
  /\ \E c \in CloseEnds("work", "down", chan["work"]) : chan' = [chan EXCEPT !["work"] = c]
  /\ shut' = [shut EXCEPT !["work"]["down"] = TRUE]
  /\ UNCHANGED <<quic, copy, relay, client, sent, got, broken>>

\* The relay's end may have been closed already, and data be on its way.
DialService ==
  /\ client = "opened"
  /\ client' = "bridging"
  /\ chan' = [chan EXCEPT !["local"] = [d \in Dirs |-> [n |-> 0, end |-> "open"]]]
  /\ shut' = [shut EXCEPT !["local"] = [d \in Dirs |-> FALSE]]
  /\ copy' = [copy EXCEPT !["client"] = [d \in Dirs |-> "runs"]]
  /\ UNCHANGED <<quic, relay, sent, got, broken>>

DialFails ==
  /\ client = "opened"
  /\ client' = "over"
  /\ \E c \in CloseEnds("work", "up", chan["work"]) : chan' = [chan EXCEPT !["work"] = c]
  /\ shut' = [shut EXCEPT !["work"]["up"] = TRUE]
  /\ UNCHANGED <<quic, copy, relay, sent, got, broken>>

-------------------------------------------------------------------------------
(* The user, who sends up on "user", and the service, down on "local".     *)

Own(d) == IF d = "up" THEN "user" ELSE "local"

Send(d) ==
  /\ CanWrite(Own(d), d) /\ ~shut[Own(d)][Other(d)]
  /\ sent[d] < MaxChunks /\ chan[Own(d)][d].n < Cap
  /\ chan' = [chan EXCEPT ![Own(d)][d] = More(@)]
  /\ sent' = [sent EXCEPT ![d] = @ + 1]
  /\ UNCHANGED <<quic, shut, copy, relay, client, got, broken>>

\* Who sends up receives down, on the same connection.
Receive(d) ==
  /\ CanRead(Own(Other(d)), d)
  /\ chan' = [chan EXCEPT ![Own(Other(d))][d] = Less(@)]
  /\ got' = [got EXCEPT ![d] = @ + 1]
  /\ UNCHANGED <<quic, shut, copy, relay, client, sent, broken>>

Finish(d) ==
  /\ ~shut[Own(d)][Other(d)] /\ chan[Own(d)][d].end = "open"
  /\ chan' = [chan EXCEPT ![Own(d)][d] = [n |-> @.n, end |-> "fin"]]
  /\ UNCHANGED <<quic, shut, copy, relay, client, sent, got, broken>>

Close(d) ==
  /\ ~shut[Own(d)][Other(d)]
  /\ \E c \in CloseEnds(Own(d), Other(d), chan[Own(d)]) : chan' = [chan EXCEPT ![Own(d)] = c]
  /\ shut' = [shut EXCEPT ![Own(d)][Other(d)] = TRUE]
  /\ UNCHANGED <<quic, copy, relay, client, sent, got, broken>>

Break(l) ==
  /\ \E d \in Dirs : chan[l][d].end = "open"
  /\ chan' = [chan EXCEPT ![l] = [d \in Dirs |-> [n |-> 0, end |-> "rst"]]]
  /\ broken' = TRUE
  /\ UNCHANGED <<quic, shut, copy, relay, client, sent, got>>

\* What the relay and the client do by themselves.
Forward ==
  \/ \E s \in Sides, d \in Dirs : Copies(s, d) \/ CopyEnds(s, d)
  \/ Attach \/ Refuse \/ DialService \/ DialFails

\* They can do nothing more: the guards of Forward, none of which holds.
Idle ==
  /\ \A s \in Sides, d \in Dirs : ~MayCopy(s, d) /\ ~MayEnd(s, d)
  /\ ~MayAttach /\ ~MayRefuse /\ client # "opened"

Next ==
  \/ Forward
  \/ OpenWorkConn \/ OpenFails \/ GiveUp
  \/ \E d \in Dirs : Send(d) \/ Receive(d) \/ Finish(d) \/ Close(d)
  \/ \E l \in Links : Break(l)

Spec == Init /\ [][Next]_vars

-------------------------------------------------------------------------------
\* An answer is not cut short: when the user reads the end of the data, all the
\* service wrote has arrived, if the service has read all the user wrote, the
\* user's own direction is open, the session got its work connection and no
\* connection broke (Bridge, bridgeConnections: closeBoth after a copy).
AnswerIsWhole ==
  chan["user"]["down"].n = 0 /\ chan["user"]["down"].end = "fin" /\ ~shut["user"]["down"]
    /\ chan["user"]["up"].end = "open" /\ sent["up"] = got["up"]
    /\ copy["relay"]["down"] # "none" /\ ~broken
      => got["down"] = sent["down"]

\* The end of either connection reaches the other: once nothing is left to
\* forward, the relay and the client keep neither open, unless a full buffer
\* holds a copy up.
Over(l) == \E d \in Dirs : chan[l][d].end # "open"
Full == \E l \in Links, d \in Dirs : chan[l][d].n = Cap
EndsSpread ==
  relay # "waiting" /\ client # "idle" /\ (\E l \in Links : Over(l)) /\ ~Full /\ Idle
    => \A s \in Sides : shut[Near(s)]["up"] /\ shut[Far(s)]["down"]

\* A user who finishes sending still gets the answer: does not hold, the copy
\* that has read the end closes both connections (session.go: Bridge).
HalfCloseKeepsAnswer ==
  chan["user"]["down"].n = 0 /\ chan["user"]["down"].end = "fin" /\ ~shut["user"]["down"]
    /\ sent["up"] = got["up"] /\ copy["relay"]["down"] # "none" /\ ~broken
      => got["down"] = sent["down"]
===============================================================================
