CONSTANTS
  Handlers = {h1, h2}
  Ids = {1, 2, 3}
  Names = {"n"}
  Sessions = {"s"}
  Versions = {"v1", "v2"}
  Stages = {"staging", "production", "none"}
  Weights = {10, 101}
  Entities = {e1, e2}
  Fields = {f1, f2}
  MaxTurns = 2
  MaxFaults = 1
  Absent = Absent
SPECIFICATION Spec
CONSTRAINT OneKind
INVARIANTS GateHolds    SessionsCountTraces 
PROPERTIES MaterializationKept DeploymentSettles
CHECK_DEADLOCK FALSE
