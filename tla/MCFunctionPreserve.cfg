SPECIFICATION Spec
CONSTANTS
  run1 = run1
  run2 = run2
  a = a
  b = b
  c = c
  RunIds = {run1}
  Jobs = {a, b}
  Definitions <- FewDefinitions
  Retries = 0
  MaxFaults = 0
  MaxUpdates = 1
  MaxCrashes = 0
INVARIANTS SucceededMeansExecuted
CHECK_DEADLOCK FALSE
