\* Two clients, three windows of time, one restart.
SPECIFICATION Spec
CONSTANTS
  Client = {c1, c2}
  Count = 2
  Window = 3
  Second = 1
  MaxNow = 6
  MaxRestarts = 1
INVARIANTS
  WindowInv
  AtMostCountPerWindow
PROPERTIES
  RefusedOnlyWhenFull
\* The clock stops at MaxNow.
CHECK_DEADLOCK FALSE
