------------------------- MODULE RelaySessionsProofs -------------------------
(***************************************************************************)
(* Proofs about RelaySessions for any sets of sessions and work            *)
(* connections.  SessionInv is shown inductive action by action; the       *)
(* properties of the relay proxy and the refinement of Rendezvous follow   *)
(* from it.  CountInv needs cardinalities and is treated on its own.       *)
(***************************************************************************)
EXTENDS RelaySessions, FiniteSetTheorems, TLAPS

USE SessionAssumption
USE DEF Sessions, InLoop, Over, Phases, Directions, Stoppers, proxyVars,
        chanVars, workVars, bridgeVars, Goto, CloseExternal

\* A proxy whose listener just started satisfies the invariant.
LEMMA InitInv == Init => IInv
<1> SUFFICES ASSUME Init PROVE IInv
  OBVIOUS
<1>1. TypeOK
  BY DEF Init, TypeOK
<1>2. PendingInv /\ FreshInv /\ DeliveryInv /\ OneDelivery /\ ConnInv
  BY DEF Init, PendingInv, FreshInv, DeliveryInv, OneDelivery, ConnInv
<1>3. ExternalInv /\ NoStalePending /\ StrandedOnlyAfterGiveUp
  BY DEF Init, ExternalInv, NoStalePending, StrandedOnlyAfterGiveUp
<1>4. CountInv
  <2>1. {t \in TcpSessions : pc[t] = "completed"} = {}
    BY DEF Init
  <2> QED BY <2>1, FS_EmptySet DEF Init, CountInv
<1> QED BY <1>1, <1>2, <1>3, <1>4 DEF IInv, SessionInv

\* Steps that only touch the proxy itself (its contexts, listener, loop and the
\* callers of Stop) leave every session where it is.
LEMMA ProxyOnly ==
  ASSUME SessionInv, TypeOK', ctxDone => ctxDone',
         UNCHANGED <<chanVars, workVars, bridgeVars, pc, ext>>
  PROVE  SessionInv'
<1>1. PendingInv' /\ FreshInv' /\ DeliveryInv'
  BY DEF SessionInv, TypeOK, PendingInv, FreshInv, DeliveryInv
<1>2. OneDelivery' /\ ConnInv' /\ ExternalInv'
  BY DEF SessionInv, TypeOK, OneDelivery, ConnInv, ExternalInv
<1>3. NoStalePending' /\ StrandedOnlyAfterGiveUp'
  BY DEF SessionInv, TypeOK, NoStalePending, StrandedOnlyAfterGiveUp
<1> QED BY <1>1, <1>2, <1>3 DEF SessionInv

\* Every step of every goroutine preserves SessionInv.
LEMMA SessionStep == SessionInv /\ [Next]_vars => SessionInv'
<1> SUFFICES ASSUME SessionInv, [Next]_vars PROVE SessionInv'
  OBVIOUS
<1>1. ASSUME NEW s \in Sessions, Register(s) PROVE SessionInv'
  <2>1. TypeOK' BY <1>1 DEF SessionInv, TypeOK, Register
  <2>2. PendingInv' BY <1>1 DEF SessionInv, TypeOK, PendingInv, FreshInv, Register
  <2>3. ConnInv' BY <1>1 DEF SessionInv, TypeOK, ConnInv, FreshInv, Register
  <2>4. FreshInv' /\ DeliveryInv' /\ OneDelivery'
    BY <1>1 DEF SessionInv, TypeOK, FreshInv, DeliveryInv, OneDelivery, Register
  <2>5. ExternalInv' /\ NoStalePending' /\ StrandedOnlyAfterGiveUp'
    BY <1>1 DEF SessionInv, TypeOK, ExternalInv, NoStalePending,
      StrandedOnlyAfterGiveUp, Register
  <2> QED BY <2>1, <2>2, <2>3, <2>4, <2>5 DEF SessionInv
<1>2. ASSUME NEW s \in Sessions, SendStartWorkConn(s) PROVE SessionInv'
  <2>1. TypeOK' BY <1>2 DEF SessionInv, TypeOK, SendStartWorkConn
  <2>2. PendingInv' /\ FreshInv' /\ DeliveryInv'
    BY <1>2 DEF SessionInv, TypeOK, PendingInv, FreshInv, DeliveryInv,
      SendStartWorkConn
  <2>3. OneDelivery' /\ ConnInv' /\ ExternalInv'
    BY <1>2 DEF SessionInv, TypeOK, OneDelivery, ConnInv, ExternalInv,
      SendStartWorkConn
  <2>4. NoStalePending' /\ StrandedOnlyAfterGiveUp'
    BY <1>2 DEF SessionInv, TypeOK, NoStalePending, StrandedOnlyAfterGiveUp,
      SendStartWorkConn
  <2> QED BY <2>1, <2>2, <2>3, <2>4 DEF SessionInv
<1>3. ASSUME NEW s \in Sessions, SendFails(s) PROVE SessionInv'
  <2>1. TypeOK' BY <1>3 DEF SessionInv, TypeOK, SendFails
  <2>2. PendingInv' /\ FreshInv' /\ DeliveryInv'
    BY <1>3 DEF SessionInv, TypeOK, PendingInv, FreshInv, DeliveryInv, SendFails
  <2>3. OneDelivery' /\ ConnInv' /\ ExternalInv'
    BY <1>3 DEF SessionInv, TypeOK, OneDelivery, ConnInv, ExternalInv, SendFails
  <2>4. NoStalePending' /\ StrandedOnlyAfterGiveUp'
    BY <1>3 DEF SessionInv, TypeOK, NoStalePending, StrandedOnlyAfterGiveUp,
      SendFails
  <2> QED BY <2>1, <2>2, <2>3, <2>4 DEF SessionInv
<1>4. ASSUME NEW s \in Sessions, RemovePending(s) PROVE SessionInv'
  <2>1. TypeOK' BY <1>4 DEF SessionInv, TypeOK, RemovePending
  <2>2. StrandedOnlyAfterGiveUp' BY <1>4 DEF SessionInv, TypeOK,
      StrandedOnlyAfterGiveUp, FreshInv, RemovePending
  <2>3. PendingInv' /\ FreshInv' /\ DeliveryInv'
    BY <1>4 DEF SessionInv, TypeOK, PendingInv, FreshInv, DeliveryInv, RemovePending
  <2>4. OneDelivery' /\ ConnInv' /\ ExternalInv'
    BY <1>4 DEF SessionInv, TypeOK, OneDelivery, ConnInv, ExternalInv, RemovePending
  <2>5. NoStalePending'
    BY <1>4 DEF SessionInv, TypeOK, NoStalePending, RemovePending
  <2> QED BY <2>1, <2>2, <2>3, <2>4, <2>5 DEF SessionInv
<1>5. ASSUME NEW s \in Sessions, ReceiveWorkConn(s) PROVE SessionInv'
  <2>1. TypeOK' BY <1>5 DEF SessionInv, TypeOK, ReceiveWorkConn
  <2>2. PendingInv' BY <1>5 DEF SessionInv, TypeOK, PendingInv, DeliveryInv,
      ReceiveWorkConn
  <2>3. FreshInv' BY <1>5 DEF SessionInv, TypeOK, FreshInv, DeliveryInv,
      ReceiveWorkConn
  <2>4. OneDelivery' BY <1>5 DEF SessionInv, TypeOK, OneDelivery, DeliveryInv,
      ReceiveWorkConn
  <2>5. ConnInv' BY <1>5 DEF SessionInv, TypeOK, ConnInv, DeliveryInv, PendingInv,
      ReceiveWorkConn
  <2>6. ExternalInv' BY <1>5 DEF SessionInv, TypeOK, ExternalInv, DeliveryInv,
      ReceiveWorkConn
  <2>7. DeliveryInv' /\ NoStalePending' /\ StrandedOnlyAfterGiveUp'
    BY <1>5 DEF SessionInv, TypeOK, DeliveryInv, NoStalePending,
      StrandedOnlyAfterGiveUp, ReceiveWorkConn
  <2> QED BY <2>1, <2>2, <2>3, <2>4, <2>5, <2>6, <2>7 DEF SessionInv
<1>6. ASSUME NEW s \in Sessions, ReceiveClosed(s) PROVE SessionInv'
  <2>1. TypeOK' BY <1>6 DEF SessionInv, TypeOK, ReceiveClosed
  <2>2. NoStalePending' BY <1>6 DEF SessionInv, TypeOK, NoStalePending, PendingInv,
      ReceiveClosed
  <2>3. StrandedOnlyAfterGiveUp' BY <1>6 DEF SessionInv, TypeOK,
      StrandedOnlyAfterGiveUp, DeliveryInv, ReceiveClosed
  <2>4. PendingInv' /\ FreshInv' /\ DeliveryInv'
    BY <1>6 DEF SessionInv, TypeOK, PendingInv, FreshInv, DeliveryInv, ReceiveClosed
  <2>5. OneDelivery' /\ ConnInv' /\ ExternalInv'
    BY <1>6 DEF SessionInv, TypeOK, OneDelivery, ConnInv, ExternalInv, ReceiveClosed
  <2> QED BY <2>1, <2>2, <2>3, <2>4, <2>5 DEF SessionInv
<1>7. ASSUME NEW t \in TcpSessions, WaitCancelled(t) PROVE SessionInv'
  <2>1. TypeOK' BY <1>7 DEF SessionInv, TypeOK, WaitCancelled
  <2>2. PendingInv' /\ FreshInv' /\ DeliveryInv'
    BY <1>7 DEF SessionInv, TypeOK, PendingInv, FreshInv, DeliveryInv, WaitCancelled
  <2>3. OneDelivery' /\ ConnInv' /\ ExternalInv'
    BY <1>7 DEF SessionInv, TypeOK, OneDelivery, ConnInv, ExternalInv, WaitCancelled
  <2>4. NoStalePending' /\ StrandedOnlyAfterGiveUp'
    BY <1>7 DEF SessionInv, TypeOK, NoStalePending, StrandedOnlyAfterGiveUp,
      WaitCancelled
  <2> QED BY <2>1, <2>2, <2>3, <2>4 DEF SessionInv
<1>8. ASSUME NEW h \in HttpSessions, WaitTimedOut(h) PROVE SessionInv'
  <2>1. TypeOK' BY <1>8 DEF SessionInv, TypeOK, WaitTimedOut
  <2>2. PendingInv' /\ FreshInv' /\ DeliveryInv'
    BY <1>8 DEF SessionInv, TypeOK, PendingInv, FreshInv, DeliveryInv, WaitTimedOut
  <2>3. OneDelivery' /\ ConnInv' /\ ExternalInv'
    BY <1>8 DEF SessionInv, TypeOK, OneDelivery, ConnInv, ExternalInv, WaitTimedOut
  <2>4. NoStalePending' /\ StrandedOnlyAfterGiveUp'
    BY <1>8 DEF SessionInv, TypeOK, NoStalePending, StrandedOnlyAfterGiveUp,
      WaitTimedOut
  <2> QED BY <2>1, <2>2, <2>3, <2>4 DEF SessionInv
<1>9. ASSUME NEW t \in TcpSessions, Accept(t) PROVE SessionInv'
  <2>1. TypeOK' BY <1>9 DEF SessionInv, TypeOK, Accept
  <2>2. PendingInv' /\ FreshInv' /\ DeliveryInv'
    BY <1>9 DEF SessionInv, TypeOK, PendingInv, FreshInv, DeliveryInv, Accept
  <2>3. OneDelivery' /\ ConnInv' /\ ExternalInv'
    BY <1>9 DEF SessionInv, TypeOK, OneDelivery, ConnInv, ExternalInv, Accept
  <2>4. NoStalePending' /\ StrandedOnlyAfterGiveUp'
    BY <1>9 DEF SessionInv, TypeOK, NoStalePending, StrandedOnlyAfterGiveUp, Accept
  <2> QED BY <2>1, <2>2, <2>3, <2>4 DEF SessionInv
<1>10. ASSUME NEW t \in TcpSessions, BridgeCompletes(t) PROVE SessionInv'
  <2>1. TypeOK' BY <1>10 DEF SessionInv, TypeOK, BridgeCompletes
  <2>2. ConnInv' BY <1>10 DEF SessionInv, TypeOK, ConnInv, ExternalInv,
      BridgeCompletes
  <2>3. NoStalePending' BY <1>10 DEF SessionInv, TypeOK, NoStalePending, ConnInv,
      BridgeCompletes
  <2>4. StrandedOnlyAfterGiveUp' BY <1>10 DEF SessionInv, TypeOK,
      StrandedOnlyAfterGiveUp, ConnInv, DeliveryInv, BridgeCompletes
  <2>5. PendingInv' /\ FreshInv' /\ DeliveryInv'
    BY <1>10 DEF SessionInv, TypeOK, PendingInv, FreshInv, DeliveryInv,
      BridgeCompletes
  <2>6. OneDelivery' /\ ExternalInv'
    BY <1>10 DEF SessionInv, TypeOK, OneDelivery, ExternalInv, BridgeCompletes
  <2> QED BY <2>1, <2>2, <2>3, <2>4, <2>5, <2>6 DEF SessionInv
<1>11. ASSUME NEW t \in TcpSessions, NEW d \in Directions, CopyEnds(t, d) PROVE SessionInv'
  <2>1. TypeOK' BY <1>11 DEF SessionInv, TypeOK, ConnInv, CopyEnds
  <2>2. FreshInv' BY <1>11 DEF SessionInv, TypeOK, FreshInv, ConnInv, CopyEnds
  <2>3. DeliveryInv' BY <1>11 DEF SessionInv, TypeOK, DeliveryInv, ConnInv, CopyEnds
  <2>4. ExternalInv' BY <1>11 DEF SessionInv, TypeOK, ExternalInv, ConnInv, CopyEnds
  <2>5. PendingInv' /\ OneDelivery' /\ ConnInv'
    BY <1>11 DEF SessionInv, TypeOK, PendingInv, OneDelivery, ConnInv, CopyEnds
  <2>6. NoStalePending' /\ StrandedOnlyAfterGiveUp'
    BY <1>11 DEF SessionInv, TypeOK, NoStalePending, StrandedOnlyAfterGiveUp,
      CopyEnds
  <2> QED BY <2>1, <2>2, <2>3, <2>4, <2>5, <2>6 DEF SessionInv
<1>12. ASSUME NEW h \in HttpSessions, OpenWorkConn(h) PROVE SessionInv'
  <2>1. TypeOK' BY <1>12 DEF SessionInv, TypeOK, OpenWorkConn
  <2>2. PendingInv' /\ FreshInv' /\ DeliveryInv'
    BY <1>12 DEF SessionInv, TypeOK, PendingInv, FreshInv, DeliveryInv, OpenWorkConn
  <2>3. OneDelivery' /\ ConnInv' /\ ExternalInv'
    BY <1>12 DEF SessionInv, TypeOK, OneDelivery, ConnInv, ExternalInv, OpenWorkConn
  <2>4. NoStalePending' /\ StrandedOnlyAfterGiveUp'
    BY <1>12 DEF SessionInv, TypeOK, NoStalePending, StrandedOnlyAfterGiveUp,
      OpenWorkConn
  <2> QED BY <2>1, <2>2, <2>3, <2>4 DEF SessionInv
<1>13. ASSUME NEW h \in HttpSessions, RequestCancelled(h) PROVE SessionInv'
  <2>1. TypeOK' BY <1>13 DEF SessionInv, TypeOK, RequestCancelled
  <2>2. PendingInv' /\ FreshInv' /\ DeliveryInv'
    BY <1>13 DEF SessionInv, TypeOK, PendingInv, FreshInv, DeliveryInv,
      RequestCancelled
  <2>3. OneDelivery' /\ ConnInv' /\ ExternalInv'
    BY <1>13 DEF SessionInv, TypeOK, OneDelivery, ConnInv, ExternalInv,
      RequestCancelled
  <2>4. NoStalePending' /\ StrandedOnlyAfterGiveUp'
    BY <1>13 DEF SessionInv, TypeOK, NoStalePending, StrandedOnlyAfterGiveUp,
      RequestCancelled
  <2> QED BY <2>1, <2>2, <2>3, <2>4 DEF SessionInv
<1>14. ASSUME NEW h \in HttpSessions, GatewayDone(h) PROVE SessionInv'
  <2>1. TypeOK' BY <1>14 DEF SessionInv, TypeOK, ConnInv, GatewayDone
  <2>2. FreshInv' BY <1>14 DEF SessionInv, TypeOK, FreshInv, ConnInv, GatewayDone
  <2>3. DeliveryInv' BY <1>14 DEF SessionInv, TypeOK, DeliveryInv, ConnInv,
      GatewayDone
  <2>4. NoStalePending' BY <1>14 DEF SessionInv, TypeOK, NoStalePending, ConnInv,
      GatewayDone
  <2>5. PendingInv' /\ OneDelivery' /\ ConnInv'
    BY <1>14 DEF SessionInv, TypeOK, PendingInv, OneDelivery, ConnInv, GatewayDone
  <2>6. ExternalInv' /\ StrandedOnlyAfterGiveUp'
    BY <1>14 DEF SessionInv, TypeOK, ExternalInv, StrandedOnlyAfterGiveUp,
      GatewayDone
  <2> QED BY <2>1, <2>2, <2>3, <2>4, <2>5, <2>6 DEF SessionInv
<1>15. ASSUME NEW w \in WorkConns, TakePending(w) PROVE SessionInv'
  <2>1. TypeOK' BY <1>15 DEF SessionInv, TypeOK, TakePending
  <2>2. DeliveryInv' BY <1>15 DEF SessionInv, TypeOK, DeliveryInv, PendingInv,
      TakePending
  <2>3. OneDelivery' BY <1>15 DEF SessionInv, TypeOK, OneDelivery, PendingInv,
      TakePending
  <2>4. StrandedOnlyAfterGiveUp' BY <1>15 DEF SessionInv, TypeOK,
      StrandedOnlyAfterGiveUp, ExternalInv, NoStalePending, TakePending
  <2>5. PendingInv' /\ FreshInv' /\ ConnInv'
    BY <1>15 DEF SessionInv, TypeOK, PendingInv, FreshInv, ConnInv, TakePending
  <2>6. ExternalInv' /\ NoStalePending'
    BY <1>15 DEF SessionInv, TypeOK, ExternalInv, NoStalePending, TakePending
  <2> QED BY <2>1, <2>2, <2>3, <2>4, <2>5, <2>6 DEF SessionInv
<1>16. ASSUME NEW w \in WorkConns, SendOnChannel(w) PROVE SessionInv'
  <2>1. TypeOK' BY <1>16 DEF SessionInv, TypeOK, SendOnChannel
  <2>2. DeliveryInv' BY <1>16 DEF SessionInv, TypeOK, DeliveryInv, FreshInv,
      OneDelivery, SendOnChannel
  <2>3. ExternalInv' BY <1>16 DEF SessionInv, TypeOK, ExternalInv, ConnInv,
      SendOnChannel
  <2>4. PendingInv' /\ FreshInv' /\ OneDelivery'
    BY <1>16 DEF SessionInv, TypeOK, PendingInv, FreshInv, OneDelivery,
      SendOnChannel
  <2>5. ConnInv' /\ NoStalePending' /\ StrandedOnlyAfterGiveUp'
    BY <1>16 DEF SessionInv, TypeOK, ConnInv, NoStalePending,
      StrandedOnlyAfterGiveUp, SendOnChannel
  <2> QED BY <2>1, <2>2, <2>3, <2>4, <2>5 DEF SessionInv
<1>17. ASSUME NEW w \in WorkConns, NEW s \in Sessions, WorkConnArrives(w, s) PROVE SessionInv'
  <2>1. TypeOK' BY <1>17 DEF SessionInv, TypeOK, WorkConnArrives
  <2>2. PendingInv' /\ FreshInv' /\ DeliveryInv'
    BY <1>17 DEF SessionInv, TypeOK, PendingInv, FreshInv, DeliveryInv,
      WorkConnArrives
  <2>3. OneDelivery' /\ ConnInv' /\ ExternalInv'
    BY <1>17 DEF SessionInv, TypeOK, OneDelivery, ConnInv, ExternalInv,
      WorkConnArrives
  <2>4. NoStalePending' /\ StrandedOnlyAfterGiveUp'
    BY <1>17 DEF SessionInv, TypeOK, NoStalePending, StrandedOnlyAfterGiveUp,
      WorkConnArrives
  <2> QED BY <2>1, <2>2, <2>3, <2>4 DEF SessionInv
<1>18. ASSUME NEW k \in Stoppers, StopCancels(k) PROVE SessionInv'
  BY <1>18, ProxyOnly DEF SessionInv, TypeOK, StopCancels
<1>19. ASSUME NEW k \in Stoppers, StopClosesListener(k) PROVE SessionInv'
  BY <1>19, ProxyOnly DEF SessionInv, TypeOK, StopClosesListener
<1>20. ASSUME NEW k \in Stoppers, StopDrains(k) PROVE SessionInv'
  <2>1. TypeOK' BY <1>20 DEF SessionInv, TypeOK, StopDrains
  <2>2. DeliveryInv' BY <1>20 DEF SessionInv, TypeOK, DeliveryInv, FreshInv,
      PendingInv, StopDrains
  <2>3. PendingInv' /\ FreshInv' /\ OneDelivery'
    BY <1>20 DEF SessionInv, TypeOK, PendingInv, FreshInv, OneDelivery, StopDrains
  <2>4. ConnInv' /\ ExternalInv' /\ NoStalePending'
    BY <1>20 DEF SessionInv, TypeOK, ConnInv, ExternalInv, NoStalePending,
      StopDrains
  <2>5. StrandedOnlyAfterGiveUp'
    BY <1>20 DEF SessionInv, TypeOK, StrandedOnlyAfterGiveUp, StopDrains
  <2> QED BY <2>1, <2>2, <2>3, <2>4, <2>5 DEF SessionInv
<1>21. ASSUME LoopExits PROVE SessionInv'
  BY <1>21, ProxyOnly DEF SessionInv, TypeOK, LoopExits
<1>22. ASSUME CancelClient PROVE SessionInv'
  BY <1>22, ProxyOnly DEF SessionInv, TypeOK, CancelClient
<1>23. ASSUME LoseControl PROVE SessionInv'
  BY <1>23, ProxyOnly DEF SessionInv, TypeOK, LoseControl
<1>24. ASSUME RemoveProxy PROVE SessionInv'
  BY <1>24, ProxyOnly DEF SessionInv, TypeOK, RemoveProxy
<1>25. ASSUME ShutdownStops PROVE SessionInv'
  BY <1>25, ProxyOnly DEF SessionInv, TypeOK, ShutdownStops
<1>26. CASE UNCHANGED vars
  BY <1>26, ProxyOnly DEF vars, SessionInv, TypeOK
<1> QED
  BY <1>1, <1>2, <1>3, <1>4, <1>5, <1>6, <1>7, <1>8, <1>9, <1>10, <1>11, <1>12,
    <1>13, <1>14, <1>15, <1>16, <1>17, <1>18, <1>19, <1>20, <1>21, <1>22,
    <1>23, <1>24, <1>25, <1>26
    DEF Next, Opener, Waiter, Deliverer, Stopping

\* Only BridgeCompletes makes a session "completed", and it counts it.
LEMMA CountStep == IInv /\ [Next]_vars => CountInv'
<1> DEFINE Completed == {t \in TcpSessions : pc[t] = "completed"}
<1> SUFFICES ASSUME IInv, [Next]_vars PROVE CountInv'
  OBVIOUS
<1>1. TypeOK /\ IsFiniteSet(Completed) /\ sessionCnt = Cardinality(Completed)
  BY DEF IInv, SessionInv, CountInv
<1>2. ASSUME NEW t \in TcpSessions, BridgeCompletes(t) PROVE CountInv'
  <2>1. Completed' = Completed \cup {t} /\ t \notin Completed
    BY <1>1, <1>2 DEF TypeOK, BridgeCompletes
  <2>2. IsFiniteSet(Completed') /\ Cardinality(Completed') = Cardinality(Completed) + 1
    BY SMTT(30), <1>1, <2>1, FS_AddElement
  <2>3. sessionCnt' = sessionCnt + 1
    BY <1>2 DEF BridgeCompletes
  <2> QED BY <1>1, <2>2, <2>3 DEF CountInv
<1>3. ASSUME Completed' = Completed, sessionCnt' = sessionCnt PROVE CountInv'
  BY <1>1, <1>3 DEF CountInv
<1>4. ASSUME Next, ~\E t \in TcpSessions : BridgeCompletes(t)
      PROVE Completed' = Completed /\ sessionCnt' = sessionCnt
  BY <1>1, <1>4 DEF TypeOK, Next, Opener, Waiter, Deliverer, Stopping, Register,
    SendStartWorkConn, SendFails, RemovePending, ReceiveWorkConn,
    ReceiveClosed, WaitCancelled, WaitTimedOut, Accept, CopyEnds, OpenWorkConn,
    RequestCancelled, GatewayDone, TakePending, SendOnChannel,
    WorkConnArrives, StopCancels, StopClosesListener, StopDrains, LoopExits,
    CancelClient, LoseControl, RemoveProxy, ShutdownStops
<1>5. ASSUME UNCHANGED vars PROVE Completed' = Completed /\ sessionCnt' = sessionCnt
  BY <1>5 DEF vars
<1> QED BY <1>2, <1>3, <1>4, <1>5

\* The inductive invariant holds in every reachable state.
THEOREM Inductive == Spec => []IInv
<1>1. IInv /\ [Next]_vars => IInv'
  BY SessionStep, CountStep DEF IInv
<1> QED BY InitInv, <1>1, PTL DEF Spec

\* Every variable of the proxy keeps its type.
THEOREM TypeCorrect == Spec => []TypeOK
<1>1. IInv => TypeOK
  BY DEF IInv, SessionInv
<1> QED BY Inductive, <1>1, PTL

\* For any number of sessions, deliveries and concurrent Stops: no send on a
\* closed channel, no second close, and DeliverWorkConn never finds ch full.
THEOREM ChannelsAreSafe == Spec => []ChannelSafe
<1>1. IInv => ChannelSafe
  BY DEF IInv, SessionInv, TypeOK, PendingInv, FreshInv, DeliveryInv, ChannelSafe
<1> QED BY Inductive, <1>1, PTL

\* However often the client dials for a session, one delivery at most gets
\* through.
THEOREM DeliveredOnce == Spec => []OneDelivery
<1>1. IInv => OneDelivery
  BY DEF IInv, SessionInv
<1> QED BY Inductive, <1>1, PTL

\* pendingSessions does not leak while the proxy runs.
THEOREM PendingIsLive == Spec => []NoStalePending
<1>1. IInv => NoStalePending
  BY DEF IInv, SessionInv
<1> QED BY Inductive, <1>1, PTL

\* A running proxy strands no work connection of a TCP session.
THEOREM NoStrandedTcp == Spec => []StrandedOnlyAfterGiveUp
<1>1. IInv => StrandedOnlyAfterGiveUp
  BY DEF IInv, SessionInv
<1> QED BY Inductive, <1>1, PTL

\* Both connections of a finished session are closed, and sessionCnt counts
\* exactly the completed bridges.
THEOREM FinishedIsReleased == Spec => []SessionsReleased
<1>1. IInv => SessionsReleased
  BY DEF IInv, SessionInv, FreshInv, ConnInv, ExternalInv, CountInv,
    SessionsReleased
<1> QED BY Inductive, <1>1, PTL

\* Only ReceiveWorkConn makes a session "joined".
LEMMA JoinStep ==
  ASSUME TypeOK, [Next]_vars, NEW s \in Sessions, pc[s] # "joined",
         pc'[s] = "joined"
  PROVE  ReceiveWorkConn(s)
BY DEF TypeOK, vars, Next, Opener, Waiter, Deliverer, Stopping, Register,
  SendStartWorkConn, SendFails, RemovePending, ReceiveWorkConn, ReceiveClosed,
  WaitCancelled, WaitTimedOut, Accept, BridgeCompletes, CopyEnds, OpenWorkConn,
  RequestCancelled, GatewayDone, TakePending, SendOnChannel, WorkConnArrives,
  StopCancels, StopClosesListener, StopDrains, LoopExits, CancelClient,
  LoseControl, RemoveProxy, ShutdownStops

\* When a session starts its traffic, neither of its connections was closed
\* before.
THEOREM BridgesStartOpen == Spec => BridgeStartsOpen
<1>1. ASSUME IInv, [Next]_vars, NEW s \in Sessions,
             pc[s] # "joined" /\ pc'[s] = "joined"
      PROVE  work[conn'[s]] = "buffered" /\ (s \in TcpSessions => ext[s] = "open")
  <2>1. TypeOK /\ ReceiveWorkConn(s)
    BY <1>1, JoinStep DEF IInv, SessionInv
  <2>2. work[conn'[s]] = "buffered"
    BY <1>1, <2>1 DEF IInv, SessionInv, TypeOK, DeliveryInv, ReceiveWorkConn
  <2>3. s \in TcpSessions => ext[s] = "open"
    BY <1>1, <2>1 DEF IInv, SessionInv, ExternalInv, ReceiveWorkConn
  <2> QED BY <2>2, <2>3
<1>2. IInv /\ [Next]_vars =>
        [\A s \in Sessions :
           pc[s] # "joined" /\ pc'[s] = "joined" =>
             /\ work[conn'[s]] = "buffered"
             /\ s \in TcpSessions => ext[s] = "open"]_vars
  BY <1>1
<1> QED BY Inductive, <1>2, PTL DEF Spec, BridgeStartsOpen

-------------------------------------------------------------------------------
(* RelaySessions implements Rendezvous.                                     *)

\* A step that keeps every session in the phase it maps to, its connection
\* and all targets is a stutter of Rendezvous.
LEMMA Stutter ==
  ASSUME UNCHANGED <<conn, target>>, sessionPhase' = sessionPhase
  PROVE  UNCHANGED R!vars
BY DEF R!vars

\* The phase of one session moves as its goroutine does.
LEMMA PhaseMoves ==
  ASSUME TypeOK, NEW s \in Sessions, NEW p \in Phases,
         pc' = [pc EXCEPT ![s] = p]
  PROVE  /\ p = "idle" => sessionPhase' = [sessionPhase EXCEPT ![s] = "new"]
         /\ p = "joined" => sessionPhase' = [sessionPhase EXCEPT ![s] = "joined"]
         /\ p \in Over => sessionPhase' = [sessionPhase EXCEPT ![s] = "over"]
         /\ p \notin Over \cup {"idle", "joined"} =>
              sessionPhase' = [sessionPhase EXCEPT ![s] = "open"]
BY DEF TypeOK, sessionPhase

\* Every step of the proxy is a step of Rendezvous or a stutter.
LEMMA StepRefines == IInv /\ [Next]_vars => [R!Next]_(R!vars)
<1> SUFFICES ASSUME IInv, [Next]_vars PROVE [R!Next]_(R!vars)
  OBVIOUS
<1> USE DEF R!vars
<1>0. TypeOK
  BY DEF IInv, SessionInv
<1>1. ASSUME NEW t \in TcpSessions, Accept(t) PROVE R!Open(t)
  BY <1>0, <1>1, PhaseMoves DEF TypeOK, Accept, R!Open, sessionPhase
<1>2. ASSUME NEW h \in HttpSessions, OpenWorkConn(h) PROVE R!Open(h)
  BY <1>0, <1>2, PhaseMoves DEF TypeOK, OpenWorkConn, R!Open, sessionPhase
<1>3. ASSUME NEW s \in Sessions, RemovePending(s) PROVE R!End(s)
  BY <1>0, <1>3, PhaseMoves DEF TypeOK, RemovePending, R!End, sessionPhase
<1>4. ASSUME NEW s \in Sessions, ReceiveClosed(s) PROVE R!End(s)
  BY <1>0, <1>4, PhaseMoves DEF TypeOK, ReceiveClosed, R!End, sessionPhase
<1>5. ASSUME NEW t \in TcpSessions, WaitCancelled(t) PROVE R!End(t)
  BY <1>0, <1>5, PhaseMoves DEF TypeOK, WaitCancelled, R!End, sessionPhase
<1>6. ASSUME NEW t \in TcpSessions, BridgeCompletes(t) PROVE R!End(t)
  BY <1>0, <1>6, PhaseMoves DEF TypeOK, BridgeCompletes, R!End, sessionPhase
<1>7. ASSUME NEW h \in HttpSessions, GatewayDone(h) PROVE R!End(h)
  BY <1>0, <1>7, PhaseMoves DEF TypeOK, GatewayDone, R!End, sessionPhase
<1>8. ASSUME NEW s \in Sessions, ReceiveWorkConn(s)
      PROVE  \E w \in WorkConns : R!Join(s, w)
  <2>1. buffer[s] \in WorkConns /\ target[buffer[s]] = s /\ work[buffer[s]] = "buffered"
    BY <1>0, <1>8 DEF IInv, SessionInv, TypeOK, DeliveryInv, ReceiveWorkConn
  <2>2. \A r \in Sessions : conn[r] # buffer[s]
    BY <2>1 DEF IInv, SessionInv, TypeOK, ConnInv
  <2>3. sessionPhase[s] = "open" /\ sessionPhase' = [sessionPhase EXCEPT ![s] = "joined"]
    BY <1>0, <1>8, PhaseMoves DEF TypeOK, ReceiveWorkConn, sessionPhase
  <2> QED BY <1>8, <2>1, <2>2, <2>3 DEF ReceiveWorkConn, R!Join
<1>9. ASSUME NEW w \in WorkConns, NEW s \in Sessions, WorkConnArrives(w, s)
      PROVE  R!Dial(w, s)
  <2>1. target[w] = NoSession /\ pc[s] # "idle"
    BY <1>0, <1>9 DEF IInv, SessionInv, TypeOK, FreshInv, WorkConnArrives
  <2>2. sessionPhase[s] # "new" /\ sessionPhase' = sessionPhase
    BY <1>0, <1>9, <2>1 DEF TypeOK, WorkConnArrives, sessionPhase
  <2> QED BY <1>9, <2>1, <2>2 DEF WorkConnArrives, R!Dial
<1>10. ASSUME NEW s \in Sessions,
              Register(s) \/ SendStartWorkConn(s) \/ SendFails(s)
       PROVE  sessionPhase' = sessionPhase /\ UNCHANGED <<conn, target>>
  BY <1>0, <1>10 DEF TypeOK, Register, SendStartWorkConn, SendFails, sessionPhase
<1>11. ASSUME NEW h \in HttpSessions, RequestCancelled(h) \/ WaitTimedOut(h)
       PROVE  sessionPhase' = sessionPhase /\ UNCHANGED <<conn, target>>
  BY <1>0, <1>11 DEF TypeOK, RequestCancelled, WaitTimedOut, sessionPhase
<1>12. ASSUME NEW t \in TcpSessions, NEW d \in Directions, CopyEnds(t, d)
       PROVE  UNCHANGED <<pc, conn, target>>
  BY <1>12 DEF CopyEnds
<1>13. ASSUME NEW w \in WorkConns, Deliverer(w)
       PROVE  UNCHANGED <<pc, conn, target>>
  BY <1>13 DEF Deliverer, TakePending, SendOnChannel
<1>14. ASSUME NEW k \in Stoppers, Stopping(k)
       PROVE  UNCHANGED <<pc, conn, target>>
  BY <1>14 DEF Stopping, StopCancels, StopClosesListener, StopDrains
<1>15. ASSUME \/ LoopExits \/ CancelClient \/ LoseControl \/ RemoveProxy
              \/ ShutdownStops \/ UNCHANGED vars
       PROVE  UNCHANGED <<pc, conn, target>>
  BY <1>15 DEF vars, LoopExits, CancelClient, LoseControl, RemoveProxy, ShutdownStops
<1>16. ASSUME UNCHANGED <<pc, conn, target>> PROVE UNCHANGED R!vars
  BY <1>16, Stutter DEF sessionPhase
<1>17. ASSUME NEW s \in Sessions, Opener(s) \/ Waiter(s)
       PROVE  R!Next \/ UNCHANGED R!vars
  BY <1>3, <1>4, <1>5, <1>8, <1>10, <1>11, <1>17, Stutter DEF Opener, Waiter, R!Next
<1>18. ASSUME NEW t \in TcpSessions,
              \/ Accept(t) \/ BridgeCompletes(t)
              \/ \E d \in Directions : CopyEnds(t, d)
       PROVE  R!Next \/ UNCHANGED R!vars
  BY <1>1, <1>6, <1>12, <1>16, <1>18 DEF R!Next
<1>19. ASSUME NEW h \in HttpSessions,
              OpenWorkConn(h) \/ RequestCancelled(h) \/ GatewayDone(h)
       PROVE  R!Next \/ UNCHANGED R!vars
  BY <1>2, <1>7, <1>11, <1>19, Stutter DEF R!Next
<1>20. ASSUME NEW w \in WorkConns,
              Deliverer(w) \/ \E s \in Sessions : WorkConnArrives(w, s)
       PROVE  R!Next \/ UNCHANGED R!vars
  BY <1>9, <1>13, <1>16, <1>20 DEF R!Next
<1> QED BY <1>14, <1>15, <1>16, <1>17, <1>18, <1>19, <1>20 DEF Next

\* The relay proxy implements Rendezvous: a session is joined at most once,
\* with a work connection of its own.
THEOREM Refinement == Spec => ImplementsRendezvous
<1>1. Init => R!Init
  BY DEF Init, R!Init, sessionPhase
<1> QED BY <1>1, StepRefines, Inductive, PTL DEF Spec, ImplementsRendezvous, R!Spec
===============================================================================
