CONSTANTS
  Tunnels = {t1}
  Callers = {c1, c2}
  NoTunnel = NoTunnel
  MaxQueue = 1
SPECIFICATION FairSpec
PROPERTIES
  StopEnds
  CallsReturn
