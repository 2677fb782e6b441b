\* Two nodes, no bound on what may happen to them.
CONSTANTS
  Nodes = {n1, n2}
  Requests = {r1, r2}
  Size = 4
  Gateway = 0
  Pruner = Pruner
  Absent = Absent
SPECIFICATION Spec
INVARIANT NoSharedAddress
CHECK_DEADLOCK FALSE
