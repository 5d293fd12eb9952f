SPECIFICATION Spec
CONSTANTS
  run1 = run1
  run2 = run2
  a = a
  b = b
  c = c
  RunIds = {run1, run2}
  Jobs = {a, b, c}
  Definitions <- Shapes
  Retries = 1
  MaxFaults = 1
  MaxUpdates = 1
  MaxCrashes = 1
CONSTRAINT OneRunOrFew
INVARIANTS DependencyOrder  AlwaysProgress SucceededUnlessReplaced
PROPERTIES FailureStopsWaves  ExecutorsReturn
CHECK_DEADLOCK FALSE
