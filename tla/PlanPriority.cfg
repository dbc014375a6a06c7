SPECIFICATION Spec
CONSTANTS
  Ids = {1, 2, 3}
  Unknown = {0}
  Priorities = {1, 2}
INVARIANTS
  PriorityFirst
