\* Two boxes and one run of dns_cli; one call may raise.
SPECIFICATION Spec
CONSTANTS
  Box = {b1, b2}
  Operator = {cli}
  Other = {platform}
  None = None
  MaxFaults = 1
  MaxRestarts = 0
PROPERTIES
  EveryUpsertKeepsTheRest
CHECK_DEADLOCK FALSE
