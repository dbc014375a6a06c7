SPECIFICATION FairSpec
CONSTANTS
  Sessions = {s1, s2}
  Files <- MCFiles
  Requests <- MCRequests
  MayRestart = TRUE
  SlowStart = TRUE
INVARIANTS
  TypeOK
  AnsweredIsFound
  RouteIsServed
PROPERTIES
  StopTakesEffect
CHECK_DEADLOCK FALSE
