---------------------------- MODULE MCSetupWizard ----------------------------
(* SetupWizard for TLC: neither two tabs nor two keys differ but by name.  *)
EXTENDS SetupWizard, TLC

TabSymmetry == Permutations(Tab) \cup Permutations(Key)

=============================================================================
