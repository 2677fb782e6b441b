-------------------------- MODULE TunnelClientProofs --------------------------
(***************************************************************************)
(* Proofs about TunnelClient, for any tunnels, callers and queue bound:    *)
(* the Manager never dials while it still has a control connection, client *)
(* and relay agree on the tunnels, and answers are matched.                *)
(***************************************************************************)
EXTENDS TunnelClient, TLAPS

\* The heartbeat loop exists exactly while connectAndRun serves or joins it.
HeartbeatInv == hb = "none" <=> run \notin {"serve", "join"}

\* The next step of caller c is about the tunnel it names.
ArgInv == \A c \in Callers : pc[c] \notin {"idle", "close", "mark"} => arg[c] \in Tunnels

InCall(c) == pc[c] \in {"checkAdd", "sendAdd", "checkRemove", "sendRemove"}

\* A call that has changed m.tunnels is alone in that, unless its tunnel is in
\* raced, and m.tunnels is still as it left it.
CallInv ==
  \A c \in Callers : InCall(c) /\ arg[c] \notin raced =>
    /\ arg[c] \in tunnels <=> pc[c] \in {"checkAdd", "sendAdd"}
    /\ \A d \in Callers : InCall(d) /\ arg[d] = arg[c] => d = c

\* What the relay has of tunnel t once it has read s, if it has the tunnels a.
Served(s, a, t) ==
  \/ t \in a /\ \A j \in 1 .. Len(s) : s[j].tunnel # t
  \/ \E i \in 1 .. Len(s) : /\ s[i] = NewProxy(t)
                            /\ \A j \in 1 .. Len(s) : j > i => s[j].tunnel # t

\* What the relay will have when it has read the outbox.
AgreeInv ==
  link = "up" /\ connected =>
    \A t \in Tunnels : ~Underway(t) /\ t \notin raced =>
      /\ run \in {"register", "send", "await", "serve"} /\ t \notin tunnels =>
           ~Served(outbox, asked, t)
      /\ \/ run \in {"send", "await"} /\ t \notin todo
         \/ run = "serve"
         => (t \in tunnels => Served(outbox, asked, t))

TodoInv == run \in {"send", "await"} => todo \subseteq tunnels

\* At most one message of type x is in s, and it is about the tunnel at hand.
Single(s, x) ==
  \A i \in 1 .. Len(s) : s[i].type = x =>
    /\ run = "await" /\ s[i].tunnel = current
    /\ \A j \in 1 .. Len(s) : s[j].type = x => j = i
Without(s, x) == \A i \in 1 .. Len(s) : s[i].type # x

AnswerInv ==
  run \in {"register", "send", "await"} /\ ~mixed =>
    /\ Single(outbox, "NewProxy") /\ Single(inbox, "NewProxyResp")
    /\ Without(outbox, "NewProxy") \/ Without(inbox, "NewProxyResp")

ConnInv == OneControlConn /\ HeartbeatInv
CallsInv == ArgInv /\ CallInv /\ TodoInv
IInv == TypeOK /\ ConnInv /\ CallsInv /\ AgreeInv /\ AnswerInv

-------------------------------------------------------------------------------
(* What the messages under way come to.                                      *)

\* The last message about a tunnel decides.
LEMMA ServedAppend ==
  ASSUME NEW s \in Seq(Requests), NEW a, NEW m \in Requests, NEW t \in Tunnels
  PROVE  Served(Append(s, m), a, t) <=> IF m.tunnel = t THEN m = NewProxy(t) ELSE Served(s, a, t)
<1>1. /\ Len(s) \in Nat /\ Len(Append(s, m)) = Len(s) + 1
      /\ \A i \in 1 .. Len(s) : Append(s, m)[i] = s[i]
      /\ Append(s, m)[Len(s) + 1] = m
  OBVIOUS
<1>2. NewProxy(t).tunnel = t
  BY DEF NewProxy
<1>3. CASE m.tunnel = t
  BY <1>1, <1>2, <1>3 DEF Served
<1>4. CASE m.tunnel # t
  <2>1. m # NewProxy(t) BY <1>2, <1>4
  <2> QED BY <1>1, <1>4, <2>1 DEF Served
<1> QED BY <1>3, <1>4

\* Reading a message changes nothing about what the relay will have.
LEMMA ServedTail ==
  ASSUME NEW s \in Seq(Requests), s # << >>, NEW a, NEW u \in Tunnels, NEW t \in Tunnels
  PROVE  /\ Head(s) = NewProxy(u) => (Served(Tail(s), a \cup {u}, t) <=> Served(s, a, t))
         /\ Head(s) = CloseProxy(u) => (Served(Tail(s), a \ {u}, t) <=> Served(s, a, t))
<1> DEFINE r == Tail(s)
<1>1. /\ Len(s) \in Nat \ {0} /\ Len(r) = Len(s) - 1 /\ Head(s) = s[1]
      /\ \A i \in 1 .. Len(r) : r[i] = s[i + 1]
  OBVIOUS
<1>2. \A j \in 1 .. Len(s) : j = 1 \/ (j - 1 \in 1 .. Len(r) /\ r[j - 1] = s[j])
  BY <1>1
<1>3. NewProxy(t).tunnel = t /\ NewProxy(u).tunnel = u /\ CloseProxy(u).tunnel = u
      /\ CloseProxy(u) # NewProxy(t) /\ (u # t => NewProxy(u) # NewProxy(t))
  BY DEF NewProxy, CloseProxy
<1>4. (\A j \in 1 .. Len(s) : s[j].tunnel # t) <=> 
      s[1].tunnel # t /\ \A j \in 1 .. Len(r) : r[j].tunnel # t
  BY SMTT(30), <1>1, <1>2
<1> DEFINE Last(q, i) == q[i] = NewProxy(t) /\ \A j \in 1 .. Len(q) : j > i => q[j].tunnel # t
<1>5. \A i \in 1 .. Len(r) : Last(r, i) <=> Last(s, i + 1)
  BY <1>1, <1>2
<1>6. Last(s, 1) <=> s[1] = NewProxy(t) /\ \A j \in 1 .. Len(r) : r[j].tunnel # t
  BY <1>1, <1>2
<1>7. (\E i \in 1 .. Len(s) : Last(s, i)) <=> Last(s, 1) \/ \E i \in 1 .. Len(r) : Last(r, i)
  <2> HIDE DEF Last
  <2>1. ASSUME NEW i \in 1 .. Len(s), Last(s, i), ~Last(s, 1)
        PROVE  \E k \in 1 .. Len(r) : Last(r, k)
    <3>1. i - 1 \in 1 .. Len(r) BY <1>1, <2>1
    <3>2. Last(r, i - 1) <=> Last(s, (i - 1) + 1) BY <1>5, <3>1
    <3>3. (i - 1) + 1 = i BY <2>1
    <3> QED BY <2>1, <3>1, <3>2, <3>3
  <2>2. ASSUME NEW i \in 1 .. Len(r), Last(r, i) PROVE \E k \in 1 .. Len(s) : Last(s, k)
    <3>1. i + 1 \in 1 .. Len(s) BY <1>1, <2>2
    <3> QED BY <1>5, <2>2, <3>1
  <2>3. 1 \in 1 .. Len(s) BY <1>1
  <2> QED BY <2>1, <2>2, <2>3
<1> HIDE DEF Last
<1>8. \A b : Served(s, b, t) <=> \/ t \in b /\ \A j \in 1 .. Len(s) : s[j].tunnel # t
                                 \/ \E i \in 1 .. Len(s) : Last(s, i)
  BY DEF Served, Last
<1>9. \A b : Served(r, b, t) <=> \/ t \in b /\ \A j \in 1 .. Len(r) : r[j].tunnel # t
                                 \/ \E i \in 1 .. Len(r) : Last(r, i)
  BY DEF Served, Last
<1> HIDE DEF r
<1>10. ASSUME s[1] = NewProxy(u) PROVE Served(r, a \cup {u}, t) <=> Served(s, a, t)
  BY <1>3, <1>4, <1>6, <1>7, <1>8, <1>9, <1>10
<1>11. ASSUME s[1] = CloseProxy(u) PROVE Served(r, a \ {u}, t) <=> Served(s, a, t)
  BY <1>3, <1>4, <1>6, <1>7, <1>8, <1>9, <1>11
<1> QED BY <1>1, <1>10, <1>11 DEF r
LEMMA ServedNone == \A t : ~Served(<< >>, {}, t)
BY DEF Served

LEMMA PrefixKeeps ==
  ASSUME inbox \in Seq(Answers), NEW k \in 0 .. Len(inbox), inbox' = SubSeq(inbox, 1, k),
         UNCHANGED <<run, current>>, NEW x
  PROVE  /\ Single(inbox, x) => Single(inbox, x)'
         /\ Without(inbox, x) => Without(inbox, x)'
<1>1. /\ Len(inbox) \in Nat /\ Len(inbox') = k
      /\ \A i \in 1 .. k : i \in 1 .. Len(inbox) /\ inbox'[i] = inbox[i]
  OBVIOUS
<1> QED BY <1>1 DEF Single, Without

LEMMA Types ==
  /\ << >> \in Seq(Answers) /\ << >> \in Seq(Requests)
  /\ \A s \in Seq(Requests), m \in Requests : Append(s, m) \in Seq(Requests)
  /\ \A s \in Seq(Answers) : \A k \in 0 .. Len(s) :
       /\ SubSeq(s, 1, k) \in Seq(Answers) /\ Len(SubSeq(s, 1, k)) = k
       /\ \A i \in 1 .. k : SubSeq(s, 1, k)[i] = s[i]
  /\ \A t \in Tunnels : NewProxy(t) \in Requests /\ CloseProxy(t) \in Requests
<1>1. << >> \in Seq(Answers) /\ << >> \in Seq(Requests)
  OBVIOUS
<1>2. \A s \in Seq(Requests), m \in Requests : Append(s, m) \in Seq(Requests)
  OBVIOUS
<1>3. ASSUME NEW s \in Seq(Answers), NEW k \in 0 .. Len(s)
      PROVE  /\ SubSeq(s, 1, k) \in Seq(Answers) /\ Len(SubSeq(s, 1, k)) = k
             /\ \A i \in 1 .. k : SubSeq(s, 1, k)[i] = s[i]
  OBVIOUS
<1>4. \A t \in Tunnels : NewProxy(t) \in Requests /\ CloseProxy(t) \in Requests
  BY DEF Requests
<1> QED BY <1>1, <1>2, <1>3, <1>4

-------------------------------------------------------------------------------
LEMMA InitInv == Init => IInv
<1> SUFFICES ASSUME Init PROVE IInv
  OBVIOUS
<1>1. TypeOK BY Types DEF Init, TypeOK
<1>2. ConnInv BY DEF Init, ConnInv, OneControlConn, HeartbeatInv
<1>3. CallsInv BY DEF Init, CallsInv, ArgInv, CallInv, TodoInv, InCall
<1>4. AgreeInv /\ AnswerInv BY DEF Init, AgreeInv, AnswerInv
<1> QED BY <1>1, <1>2, <1>3, <1>4 DEF IInv

\* The goroutine of Start: it registers under the read lock, one answer at a time.
LEMMA RunKeeps == ASSUME IInv, Run PROVE IInv'
<1> USE NoTunnelAssumption DEF IInv, TypeOK, ConnInv, OneControlConn, HeartbeatInv,
        CallsInv, ArgInv, CallInv, TodoInv, AgreeInv, AnswerInv, Single, Without,
        Step, Send, SendFails, Reply, Registering, Underway, InCall, Quiet,
        clientVars, callVars, relayVars, runVars, Requests, Answers, NewProxy,
        CloseProxy, NewProxyResp, StartWorkConn
<1>1. ASSUME Dial PROVE IInv'
  BY <1>1 DEF Dial
<1>2. ASSUME LogIn PROVE IInv'
  <2>1. TypeOK'
    <3>1. inbox' \in Seq(Answers) /\ outbox' \in Seq(Requests)
      BY <1>2, Types DEF LogIn
    <3> QED BY <1>2, <3>1 DEF LogIn
  <2>2. ConnInv' /\ CallsInv' /\ AnswerInv' BY <1>2 DEF LogIn
  <2>3. AgreeInv' BY <1>2, ServedNone DEF LogIn
  <2> QED BY <2>1, <2>2, <2>3
<1>3. ASSUME LogInFails PROVE IInv'
  BY <1>3 DEF LogInFails
<1>4. ASSUME RegisterAll PROVE IInv'
  BY <1>4 DEF RegisterAll
<1>5. ASSUME Registered PROVE IInv'
  BY <1>5 DEF Registered
<1>6. ASSUME RegisterLost PROVE IInv'
  BY <1>6 DEF RegisterLost
<1>7. ASSUME Serve PROVE IInv'
  BY <1>7 DEF Serve
<1>8. ASSUME HandleMessage PROVE IInv'
  BY <1>8 DEF HandleMessage
<1>9. ASSUME ServeEnds PROVE IInv'
  BY <1>9 DEF ServeEnds
<1>10. ASSUME HeartbeatJoined PROVE IInv'
  BY <1>10 DEF HeartbeatJoined
<1>11. ASSUME Close PROVE IInv'
  BY <1>11 DEF Close
<1>12. ASSUME Retry PROVE IInv'
  BY <1>12 DEF Retry
<1>13. ASSUME NEW t \in Tunnels, RegisterNext(t) PROVE IInv'
  <2>1. CASE Send(NewProxy(t)) /\ run' = "await" /\ current' = t
    <3>1. TypeOK'
      <4>1. outbox' \in Seq(Requests) BY <2>1, Types
      <4> QED BY <1>13, <2>1, <4>1 DEF RegisterNext
    <3>2. ConnInv' /\ CallsInv' /\ AnswerInv' BY <1>13, <2>1 DEF RegisterNext
    <3>3. AgreeInv'
      <4>1. \A u \in Tunnels : Served(outbox', asked, u) <=>
              IF u = t THEN link = "up" \/ Served(outbox, asked, u)
              ELSE Served(outbox, asked, u)
        BY <2>1, ServedAppend, Types
      <4> QED BY <1>13, <2>1, <4>1 DEF RegisterNext
    <3> QED BY <3>1, <3>2, <3>3
  <2>2. CASE run' = "close" /\ UNCHANGED <<current, outbox>>
    BY <1>13, <2>2 DEF RegisterNext
  <2> QED BY <1>13, <2>1, <2>2 DEF RegisterNext
<1> HIDE DEF IInv
<1> QED BY <1>1, <1>2, <1>3, <1>4, <1>5, <1>6, <1>7, <1>8, <1>9, <1>10, <1>11, <1>12, <1>13 DEF Run

\* The read loop, the heartbeat loop and the relay.
LEMMA LoopsKeep == ASSUME IInv, 
         \/ ReaderEnds \/ Heartbeat \/ Relay \/ Lose
         \/ \E t \in Tunnels : RelayStartWorkConn(t)
  PROVE IInv'
<1> USE NoTunnelAssumption DEF IInv, TypeOK, ConnInv, OneControlConn, HeartbeatInv,
        CallsInv, ArgInv, CallInv, TodoInv, AgreeInv, AnswerInv, Single, Without,
        Step, Send, SendFails, Reply, Registering, Underway, InCall, Quiet,
        clientVars, callVars, relayVars, runVars, Requests, Answers, NewProxy,
        CloseProxy, NewProxyResp, StartWorkConn
<1>1. ASSUME ReaderEnds PROVE IInv'
  <2>1. PICK k \in 0 .. Len(inbox) : inbox' = SubSeq(inbox, 1, k)
    BY <1>1 DEF ReaderEnds
  <2>2. /\ inbox' \in Seq(Answers) /\ Len(inbox') = k /\ k <= Len(inbox)
        /\ \A i \in 1 .. k : inbox'[i] = inbox[i]
    BY <2>1, Types
  <2>3. TypeOK' BY <1>1, <2>2 DEF ReaderEnds
  <2>4. ConnInv' /\ CallsInv' /\ AgreeInv' BY <1>1 DEF ReaderEnds
  <2>5. AnswerInv'
    <3>1. UNCHANGED <<run, current, mixed, outbox>>
      BY <1>1 DEF ReaderEnds
    <3>2. /\ Single(inbox, "NewProxyResp") => Single(inbox, "NewProxyResp")'
          /\ Without(inbox, "NewProxyResp") => Without(inbox, "NewProxyResp")'
      <4>1. inbox \in Seq(Answers) BY DEF TypeOK
      <4> HIDE DEF IInv, Single, Without
      <4> QED BY <2>1, <3>1, <4>1, PrefixKeeps
    <3>3. /\ Single(outbox, "NewProxy") => Single(outbox, "NewProxy")'
          /\ Without(outbox, "NewProxy") => Without(outbox, "NewProxy")'
      BY <3>1
    <3> HIDE DEF Single, Without
    <3> QED BY <3>1, <3>2, <3>3
  <2> QED BY <2>3, <2>4, <2>5
<1>2. ASSUME HeartbeatTick PROVE IInv'
  BY <1>2 DEF HeartbeatTick
<1>3. ASSUME HeartbeatSent PROVE IInv'
  BY <1>3 DEF HeartbeatSent
<1>4. ASSUME HeartbeatStops PROVE IInv'
  BY <1>4 DEF HeartbeatStops
<1>5. ASSUME Lose PROVE IInv'
  BY <1>5 DEF Lose
<1>6. ASSUME NEW t \in Tunnels, RelayNewProxy(t) PROVE IInv'
  <2>1. TypeOK' /\ ConnInv' /\ CallsInv' BY <1>6 DEF RelayNewProxy
  <2>2. AgreeInv'
    <3>1. \A u \in Tunnels : Served(outbox', asked', u) <=> Served(outbox, asked, u)
      BY <1>6, ServedTail DEF RelayNewProxy
    <3> QED BY <1>6, <3>1 DEF RelayNewProxy
  <2>3. AnswerInv' BY SMTT(30), <1>6 DEF RelayNewProxy
  <2> QED BY <2>1, <2>2, <2>3
<1>7. ASSUME NEW t \in Tunnels, RelayCloseProxy(t) PROVE IInv'
  <2>1. TypeOK' /\ ConnInv' /\ CallsInv' BY <1>7 DEF RelayCloseProxy
  <2>2. AgreeInv'
    <3>1. \A u \in Tunnels : Served(outbox', asked', u) <=> Served(outbox, asked, u)
      BY <1>7, ServedTail DEF RelayCloseProxy
    <3> QED BY <1>7, <3>1 DEF RelayCloseProxy
  <2>3. AnswerInv' BY <1>7 DEF RelayCloseProxy
  <2> QED BY <2>1, <2>2, <2>3
<1>8. ASSUME NEW t \in Tunnels, RelayStartWorkConn(t) PROVE IInv'
  BY <1>8 DEF RelayStartWorkConn
<1> HIDE DEF IInv
<1> QED BY <1>1, <1>2, <1>3, <1>4, <1>5, <1>6, <1>7, <1>8 DEF Heartbeat, Relay

\* A call changes m.tunnels under the lock and tells the relay later.
LEMMA CallsKeep == ASSUME IInv, NEW c \in Callers,
         \/ Continue(c) \/ Stop(c)
         \/ \E t \in Tunnels : AddTunnel(c, t) \/ RemoveTunnel(c, t)
  PROVE IInv'
<1> USE NoTunnelAssumption DEF IInv, TypeOK, ConnInv, OneControlConn, HeartbeatInv,
        CallsInv, ArgInv, CallInv, TodoInv, AgreeInv, AnswerInv, Single, Without,
        Step, Send, SendFails, Reply, Registering, Underway, InCall, Quiet,
        clientVars, callVars, relayVars, runVars, Requests, Answers, NewProxy,
        CloseProxy, NewProxyResp, StartWorkConn
<1>1. ASSUME InsertTunnel(c) PROVE IInv'
  BY <1>1 DEF InsertTunnel
<1>2. ASSUME DeleteTunnel(c) PROVE IInv'
  BY <1>2 DEF DeleteTunnel
<1>3. ASSUME Rejected(c) PROVE IInv'
  BY <1>3 DEF Rejected
<1>4. ASSUME CheckConnected(c) PROVE IInv'
  BY <1>4 DEF CheckConnected
<1>5. ASSUME SendAdd(c) PROVE IInv'
  <2>1. CASE Send(NewProxy(arg[c]))
    <3>1. arg[c] \in Tunnels BY <1>5 DEF SendAdd
    <3>2. TypeOK'
      <4>1. outbox' \in Seq(Requests) BY <2>1, <3>1, Types
      <4> QED BY <1>5, <4>1 DEF SendAdd
    <3>3. ConnInv' /\ CallsInv' BY <1>5 DEF SendAdd
    <3>4. AgreeInv'
      <4>1. link = "up" => \A u \in Tunnels : Served(outbox', asked, u) <=>
              IF u = arg[c] THEN TRUE ELSE Served(outbox, asked, u)
        BY <2>1, <3>1, ServedAppend, Types
      <4> QED BY <1>5, <3>1, <4>1 DEF SendAdd
    <3>5. AnswerInv'
      <4>1. link = "up" => /\ Len(outbox') = Len(outbox) + 1
                           /\ outbox'[Len(outbox) + 1] = NewProxy(arg[c])
                           /\ \A i \in 1 .. Len(outbox) : outbox'[i] = outbox[i]
        BY <2>1
      <4> QED BY <1>5, <2>1, <4>1 DEF SendAdd
    <3> QED BY <3>2, <3>3, <3>4, <3>5
  <2>2. CASE SendFails /\ UNCHANGED <<outbox, mixed>>
    BY SMTT(30), <1>5, <2>2 DEF SendAdd
  <2> QED BY <1>5, <2>1, <2>2 DEF SendAdd
<1>6. ASSUME SendRemove(c) PROVE IInv'
  <2>1. CASE Send(CloseProxy(arg[c]))
    <3>1. arg[c] \in Tunnels BY <1>6 DEF SendRemove
    <3>2. TypeOK'
      <4>1. outbox' \in Seq(Requests) BY <2>1, <3>1, Types
      <4> QED BY <1>6, <4>1 DEF SendRemove
    <3>3. ConnInv' /\ CallsInv' BY <1>6 DEF SendRemove
    <3>4. AgreeInv'
      <4>1. link = "up" => \A u \in Tunnels : Served(outbox', asked, u) <=>
              IF u = arg[c] THEN FALSE ELSE Served(outbox, asked, u)
        BY <2>1, <3>1, ServedAppend, Types
      <4> QED BY <1>6, <3>1, <4>1 DEF SendRemove
    <3>5. AnswerInv'
      <4>1. link = "up" => /\ Len(outbox') = Len(outbox) + 1
                           /\ outbox'[Len(outbox) + 1] = CloseProxy(arg[c])
                           /\ \A i \in 1 .. Len(outbox) : outbox'[i] = outbox[i]
        BY <2>1
      <4> QED BY <1>6, <2>1, <4>1 DEF SendRemove
    <3> QED BY <3>2, <3>3, <3>4, <3>5
  <2>2. CASE SendFails /\ UNCHANGED <<outbox, mixed>>
    BY <1>6, <2>2 DEF SendRemove
  <2> QED BY <1>6, <2>1, <2>2 DEF SendRemove
<1>7. ASSUME Stop(c) PROVE IInv'
  BY <1>7 DEF Stop
<1>8. ASSUME StopCloses(c) PROVE IInv'
  BY <1>8 DEF StopCloses
<1>9. ASSUME StopMarks(c) PROVE IInv'
  BY <1>9 DEF StopMarks
<1>10. ASSUME NEW t \in Tunnels, AddTunnel(c, t) PROVE IInv'
  BY <1>10 DEF AddTunnel
<1>11. ASSUME NEW t \in Tunnels, RemoveTunnel(c, t) PROVE IInv'
  BY <1>11 DEF RemoveTunnel
<1> HIDE DEF IInv
<1> QED BY <1>1, <1>2, <1>3, <1>4, <1>5, <1>6, <1>7, <1>8, <1>9, <1>10, <1>11 DEF Continue

LEMMA Inductive == IInv /\ [Next]_vars => IInv'
<1> SUFFICES ASSUME IInv, [Next]_vars PROVE IInv'
  OBVIOUS
<1>1. CASE UNCHANGED vars
  BY <1>1 DEF vars, clientVars, callVars, relayVars, runVars, IInv, TypeOK, ConnInv,
              OneControlConn, HeartbeatInv, CallsInv, ArgInv, CallInv, TodoInv, AgreeInv,
              AnswerInv, Single, Without, Underway, InCall
<1> QED BY <1>1, RunKeeps, LoopsKeep, CallsKeep DEF Next

LEMMA Invariant == Spec => []IInv
BY InitInv, Inductive, PTL DEF Spec

-------------------------------------------------------------------------------
\* connectAndRun returns only with its connection closed and its heartbeat loop
\* joined, whatever Stop, readLoop and the relay do.
THEOREM OneConnection == Spec => []OneControlConn
<1>1. IInv => OneControlConn
  BY DEF IInv, ConnInv
<1> QED BY <1>1, Invariant, PTL

\* Once nothing is under way, the relay was asked for exactly the tunnels of
\* m.tunnels, however calls of AddTunnel and RemoveTunnel, logins and lost
\* connections interleave; and every variable holds what its type says.
THEOREM InSyncOnceQuiet == Spec => []ClientInSync
<1>1. IInv => ClientInSync
  <2> SUFFICES ASSUME IInv PROVE InSync
    BY DEF IInv, ClientInSync
  <2>1. outbox = << >> => \A t : Served(outbox, asked, t) <=> t \in asked
    BY DEF Served
  <2> QED BY <2>1 DEF IInv, InSync, AgreeInv
<1> QED BY <1>1, Invariant, PTL

\* registerAllTunnels takes only its own answer for its own, although it looks at
\* nothing but the type, unless AddTunnel sent a request of its own meanwhile.
THEOREM AnswersAreOwn == Spec => []AnswerIsOwn
<1>1. IInv => AnswerIsOwn
  <2> SUFFICES ASSUME IInv, run = "await", inbox # << >>, ~mixed,
                      Head(inbox).type = "NewProxyResp"
               PROVE  Head(inbox).tunnel = current
    BY DEF AnswerIsOwn
  <2>1. 1 \in 1 .. Len(inbox) /\ Head(inbox) = inbox[1]
    BY DEF IInv, TypeOK
  <2> QED BY <2>1 DEF IInv, AnswerInv, Single
<1> QED BY <1>1, Invariant, PTL
===============================================================================
