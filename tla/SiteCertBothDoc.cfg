\* One reboot, which may come in the middle of an installation.
SPECIFICATION Spec
CONSTANTS
  MaxVersion = 1
  MaxRenewals = 0
  MaxFaults = 0
  MaxReboots = 1
INVARIANTS
  BothGetTheSame
CHECK_DEADLOCK FALSE
