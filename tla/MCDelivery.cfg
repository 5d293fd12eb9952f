CONSTANTS
  g1 = g1
  Relays = {g1, g2}
  Partitions = {p1, p2}
  Mutations <- MCMutations
  Versions = {"v1", "v2"}
  Absent = Absent
  MaxRows = 2
  MaxFaults = 1
SPECIFICATION Spec
CONSTRAINT OneKind
INVARIANTS  MarkedIsAnnounced
PROPERTIES DiskNeverShrinks WorkspaceFollowsGrant AtLeastOnce
CHECK_DEADLOCK FALSE
