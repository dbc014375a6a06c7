SPECIFICATION Spec
CONSTANTS
  f1 = f1
  f2 = f2
  Files = {f1, f2}
  Ignored = {f2}
  NumVersions = 2
  NumGoals = 2
  ToolSets = {{}, {"apply_patch", "git_busy"}, {"revert_to_snapshot", "spawn_agent"}, {"run_shell", "run_tests"}}
INVARIANTS
  TypeOK
PROPERTIES
  OverwriteIsCurrent
  RollbackIsExact
  TagHoldsWrites
