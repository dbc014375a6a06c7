SPECIFICATION Spec
CONSTANTS
  NumEvents = 2
  Heartbeats = {}
  LineEnds = {"crlf"}
INVARIANTS
  EventsShown
