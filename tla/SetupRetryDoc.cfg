\* A password typed differently, a failed probe and a crash, all on one page.
SPECIFICATION Spec
CONSTANTS
  Tab = {t1}
  Password = {pw1, pw2}
  Key = {k1}
  MaxMishaps = 1
  MaxCrashes = 1
  MaxChanges = 1
  MaxTrouble = 3
INVARIANT Neo4jRetryIsSafe
CHECK_DEADLOCK FALSE
