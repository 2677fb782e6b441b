\* Two connections that may share an ID, a proxy name and a domain.
CONSTANTS
  Conns = {k1, k2}
  Ids = {c1, c2}
  Names = {n1}
  Domains = {d1}
  Proxies = {p1, p2}
  MaxProxies = 2
  None = None
SPECIFICATION Spec
SYMMETRY Symmetry
INVARIANTS
  GoneLeavesNothing
  RoutesLeadToRunning
  ServedIsFindable
  TablesAgree
PROPERTIES
  RefusedOnlyIfGone
CHECK_DEADLOCK FALSE
