CONSTANTS
  Tunnels = {t1}
  Callers = {c1}
  NoTunnel = NoTunnel
  MaxQueue = 1
SPECIFICATION FairSpec
PROPERTIES
  Reconnects
