\* The smallest subnet NewIPAM accepts, a /30; the gateway is its network
\* address, so that two addresses can be assigned.
CONSTANTS
  Nodes = {n1, n2}
  Requests = {r1, r2}
  Size = 4
  Gateway = 0
  Pruner = Pruner
  Absent = Absent
SPECIFICATION Spec
SYMMETRY Symmetry
CONSTRAINT Interesting
INVARIANTS
  AddressesUnique
  RegisteredAgrees
  LiveAddressesDistinct
  GoneIsReleased
PROPERTIES
  AddressSticky
\* After a crash the server may refuse to start.
CHECK_DEADLOCK FALSE
