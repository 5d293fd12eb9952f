CONSTANTS
  Handlers = {h1, h2}
  Subjects = {"alice"}
  Projects = {0, 1, 2, 3}
  Demo = 0
  Runs = {1, 2, 3}
  Names = {n1, n2, n3}
  RequestIds = {1, 2, 3}
  GrantRequests <- MCGrantRequests
  MaxFaults = 1
  Absent = Absent
SPECIFICATION Spec
SYMMETRY Symmetry
CONSTRAINT OneKind
INVARIANTS    RegisteredIsLive 
CHECK_DEADLOCK FALSE
