SPECIFICATION FairSpec
CONSTANTS
  Cap = 3
  MaxBytes = 4
  MaxLine = 3
  MaxInode = 2
  MaxRewrite = 1
  RewriteStages = {"idle", "statted", "opened"}
INVARIANTS
  RotationCountedOnceOrNoticed
PROPERTIES
  WholeRecords
  CatchesUp
CHECK_DEADLOCK FALSE
