\* Two certificates, two weekly renewals, one failing command, one reboot.
SPECIFICATION FairSpec
CONSTANTS
  MaxVersion = 2
  MaxRenewals = 2
  MaxFaults = 1
  MaxReboots = 1
INVARIANTS
  CertInv
  OneCertificate
PROPERTIES
  IssueInstalls
  IngressComesBack
\* Every job is done and nothing comes due any more, or the stack was rolled back.
CHECK_DEADLOCK FALSE
