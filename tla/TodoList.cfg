SPECIFICATION TodoSpec
CONSTANTS
  Ids = {"t1", "t2"}
  Statuses = {"pending", "in_progress"}
  MaxItems = 2
INVARIANTS
  TodoTypeOK
  OneInProgress
  RowsOfOneList
PROPERTIES
  ReminderIsKnown
