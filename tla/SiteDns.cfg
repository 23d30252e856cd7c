\* Two boxes and one run of dns_cli; two calls may raise, platform-api may restart.
SPECIFICATION FairSpec
CONSTANTS
  Box = {b1, b2}
  Operator = {cli}
  Other = {platform}
  None = None
  MaxFaults = 2
  MaxRestarts = 1
INVARIANTS
  DnsInv
  AcknowledgedNameStands
  RefusedWritesNothing
PROPERTIES
  KeepsTheRest
  BoxGetsItsName
\* Every box has its name, or waits for one that is gone.
CHECK_DEADLOCK FALSE
