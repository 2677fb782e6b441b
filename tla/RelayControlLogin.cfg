\* Two connections that log in under the same ID.
CONSTANTS
  Conns = {k1, k2}
  Ids = {c1, c2}
  Names = {n1}
  Domains = {d1}
  Proxies = {p1, p2}
  MaxProxies = 2
  None = None
SPECIFICATION Spec
INVARIANT OneConnPerId
CHECK_DEADLOCK FALSE
