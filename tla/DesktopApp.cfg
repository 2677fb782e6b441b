\* Two rows that may swap names, two calls at a time, one replaced manager;
\* two nodes of the settings; two routes on three platforms; two favourite
\* ports, one of them the program's own; three starts of the program at two
\* ports of the control API; two callbacks of a login
\* and two requests for tokens; a tunnel started twice with two ports.
CONSTANTS
  Ids = {i1, i2}
  Names = {d1, d2}
  Specs = {s1, s2}
  Callers = {c1, c2}
  None = None
  MaxLeft = 1
  Faults = TRUE
  Nodes = {n1, n2}
  Default = n1
  Tokens = {t1}
  Blank = Blank
  Platforms = {"windows", "linux", "darwin"}
  Ifaces = {i1, i2}
  Dests = {d1, d2}
  Apps = {a1, a2, a3}
  Cut = Cut
  RelayPorts = {1, 2}
  MaxStarts = 2
  QueueCap = 2
SPECIFICATION Spec
SYMMETRY Symmetry
INVARIANTS
  ServedAsStored
  SettingsAreSound
  TableIsAsShown
  RecordsAreKept
  ControlIsFound
PROPERTIES
  DeletedStaysDeleted
\* The bounds on rows and managers may be used up.
CHECK_DEADLOCK FALSE
