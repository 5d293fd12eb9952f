SPECIFICATION SearchSpec
CONSTANTS
  a = a
  b = b
  c = c
  d = d
  Jobs = {a, b, c, d}
INVARIANTS AcceptedIsAcyclic RejectedIsCyclic
PROPERTIES Decides
CHECK_DEADLOCK FALSE
