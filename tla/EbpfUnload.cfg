\* One rule and one caller: the program is unloaded while the loop of the
\* statistics runs.
CONSTANTS
  Ports = {x1}
  Any = Any
  Priorities = {1}
  Callers = {y1}
  MaxRules = 1
  MaxKernel = 1
  None = None
SPECIFICATION FairSpec
PROPERTIES
  UnloadReturns
\* The bounds may be used up.
CHECK_DEADLOCK FALSE
