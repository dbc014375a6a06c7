CHECK_DEADLOCK FALSE
SPECIFICATION FairSpec
CONSTANTS
  Scripts <- MCScripts
  PipeCap = 2
  Chunk = 2
  MaxBytes = 2
  Children = {"none", "obeys", "ignores"}
  MayKill = TRUE
  MaxReads = 3
INVARIANTS
  TypeOK
  FinishedIsComplete
  FinalReadIsWhole
PROPERTIES
  KilledJobFinishes
