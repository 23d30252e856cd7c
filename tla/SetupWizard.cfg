\* Two tabs send pages; at most two of a mishap, a crash and a password
\* typed differently.  The wizard ends after its last page.
SPECIFICATION Spec
CONSTANTS
  Tab = {t1, t2}
  Password = {pw1, pw2}
  Key = {k1, k2}
  MaxMishaps = 1
  MaxCrashes = 1
  MaxChanges = 1
  MaxTrouble = 2
SYMMETRY TabSymmetry
INVARIANTS
  WizardInv
  SavedPasswordOpens
  NamesStay
  NoLockout
  
  HttpsPair
PROPERTIES
  ImplementsPages
CHECK_DEADLOCK FALSE
