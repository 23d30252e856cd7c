\* One order: orders share nothing, and it can meet no more than two calls that
\* raise, one database error and one crash.
SPECIFICATION FairSpec
CONSTANTS
  Order = {o1}
  Artifact <- MCArtifact
  ReleaseFilesReachable = TRUE
  MaxPolls = 3
  MaxCallFaults = 2
  MaxDbFaults = 1
  MaxCrashes = 1
INVARIANTS
  PipelineInv
  StrandedOnlyByDbOrCrash
  ReadyMailHasFiles
  CompleteMeansDelivered
  BothMailsNeedALostAnswer
PROPERTIES
  ImplementsLifecycle
  ScheduledOrderFinishes
  ContactIsTold
\* An order's task ends, and then nothing is left to do.
CHECK_DEADLOCK FALSE
