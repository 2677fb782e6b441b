\* One TCP session and one gateway request against two work connections: the
\* client may dial twice for one session, once for each, or not at all.  Safety
\* for sets of any size is proved in RelaySessionsProofs.  Symmetry is not sound
\* for the liveness properties.
CONSTANTS
  TcpSessions = {t1}
  HttpSessions = {h1}
  WorkConns = {w1, w2}
  NoSession = NoSession
  NoConn = NoConn
SPECIFICATION FairSpec
INVARIANTS
  ChannelSafe
  NoStalePending
  StrandedOnlyAfterGiveUp
  SessionsReleased
PROPERTIES
  ImplementsRendezvous
  
  ControlLossSettles
\* A proxy may be stopped with every peer gone.
CHECK_DEADLOCK FALSE
