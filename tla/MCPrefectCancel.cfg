SPECIFICATION Spec
CONSTANTS
  run1 = run1
  run2 = run2
  RunIds = {run1}
  FlowSteps <- MCFlowSteps
  MaxFaults = 0
INVARIANTS CancelPropagates
CHECK_DEADLOCK FALSE
