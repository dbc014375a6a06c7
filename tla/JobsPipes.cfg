CHECK_DEADLOCK FALSE
SPECIFICATION EndingSpec
CONSTANTS
  Scripts <- MCScripts
  PipeCap = 2
  Chunk = 2
  MaxBytes = 2
  Children = {"none"}
  MayKill = FALSE
  MaxReads = 0
PROPERTIES
  JobFinishes
