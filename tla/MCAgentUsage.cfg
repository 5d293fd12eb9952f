CONSTANTS
  Handlers = {h1}
  Ids = {1}
  Names = {"n"}
  Sessions = {"s"}
  Versions = {"v1"}
  Stages = {}
  Weights = {}
  Entities = {}
  Fields = {}
  MaxTurns = 2
  MaxFaults = 0
  Absent = Absent
SPECIFICATION Spec
CONSTRAINT OneKind
INVARIANT ExactUsage
CHECK_DEADLOCK FALSE
