\* Two pairs of candidates of one session; two scheduled paths; two
\* interfaces with two addresses and room for one event; two routers; two
\* chunks each way through buffers of one; one retry of a STUN request; two
\* relays of two latencies; four probes in windows of two intervals;
\* two writers of three messages.
CONSTANTS
  Paths = {i1, i2}
  Ids = {i1, i2}
  Callers = {c1}
  Loop = Loop
  None = None
  Ifaces = {i1, i2}
  Addrs = {a1, a2}
  Cap = 1
  Nodes = {i1, i2}
  Limit = 1
  MaxUp = 2
  MaxDown = 2
  MaxJoins = 1
  MaxChunks = 2
  Retries = 1
  Slowest = 2
  MaxProbes = 4
  Window = 2
  WireCap = 2
  MaxMsgs = 3
  MaxRaw = 2
SPECIFICATION Spec
SYMMETRY Symmetry
INVARIANTS
  SessionIsSound
  ActiveIsRegistered
  ViewFollowsEvents
  EveryoneIsTold
  ForwardingIsSound
\* A session ends, and every bound may be used up.
CHECK_DEADLOCK FALSE
