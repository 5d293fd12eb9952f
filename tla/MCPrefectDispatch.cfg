SPECIFICATION Spec
CONSTANTS
  run1 = run1
  run2 = run2
  RunIds = {run1, run2}
  FlowSteps <- MCFlowSteps
  MaxFaults = 1
INVARIANTS  FailClosed LinkedWhenDispatched
PROPERTIES TemplateRunsFinish
CHECK_DEADLOCK FALSE
