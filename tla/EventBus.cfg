SPECIFICATION FairSpec
CONSTANTS
  Clients = {c1, c2}
  NoClient = NoClient
  NumEvents = 3
  MaxQueue = 2
  MaySubscribe = {0, 2}
  Disconnects = TRUE
INVARIANTS
  TypeOK
  SubscriberGetsCopy
PROPERTIES
  StreamsClose
CHECK_DEADLOCK FALSE
