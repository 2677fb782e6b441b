\* Two callers, so that calls about one tunnel overlap.
CONSTANTS
  Tunnels = {t1, t2}
  Callers = {c1, c2}
  NoTunnel = NoTunnel
  MaxQueue = 1
SPECIFICATION Spec
SYMMETRY Symmetry
INVARIANTS
  ClientInSync
  OneControlConn
  AnswerIsOwn
