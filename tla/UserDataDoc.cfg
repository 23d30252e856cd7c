\* A command of a commercial stack's UserData that fails.
SPECIFICATION Spec
CONSTANTS
  Plans = {"commercial"}
  Stragglers = {{}}
  MaxFaults = 1
INVARIANTS
  NoHalfDeployedInstance
CHECK_DEADLOCK FALSE
