SPECIFICATION FairSpec
CONSTANTS
  NumEvents = 4
  Heartbeats = {2}
  LineEnds = {"lf", "crlf"}
INVARIANTS
  TypeOK
  LogIsTrue
PROPERTIES
  LogCloses
