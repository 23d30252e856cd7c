\* One tab, and one death of the process.
SPECIFICATION Spec
CONSTANTS
  Tab = {t1}
  Password = {pw1}
  Key = {k1}
  MaxMishaps = 0
  MaxCrashes = 1
  MaxChanges = 0
  MaxTrouble = 1
INVARIANT OtherLinesAreKept
CHECK_DEADLOCK FALSE
