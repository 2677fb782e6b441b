\* Small instances of each part; two goroutines wherever calls may overlap; two
\* ports and room for one of them in the kernel's table.
CONSTANTS
  Members = {i1, i2}
  Names = {n1, n2}
  Callers = {c1, c2}
  None = None
  Every = Every
  MaxConcurrent = 1
  RateLimit = 2
  Retention = 1
  MaxStates = 2
  Levels = {0}
  Priorities = {0, 1}
  MaxVersion = 1
  Admin = n1
  SeedId = s1
  MaxEvents = 3
  Checker = Checker
  MaxObjects = 2
  Unhealthy = 2
  UpAfter = 2
  Ports = {p1}
  MaxRules = 2
  MaxKernel = 1
  Flows = {f1}
  Rates = {1, 2}
  Classes = {0}
  QueueSize = 1
  Pids = {q1, q2}
  Other = Other
  Cut = Cut
  Prefixes = {x1, x2}
SPECIFICATION Spec
SYMMETRY Symmetry
VIEW View
CONSTRAINT Interesting
INVARIANTS
  LimitsHold
  RulesSurvive
  DashboardIsSound
  EdgeFollows
  TrafficIsAsSet
  
  
\* The bounds may be used up.
CHECK_DEADLOCK FALSE
