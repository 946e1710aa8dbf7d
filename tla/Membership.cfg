CONSTANTS
  s = s  n1 = n1  n2 = n2  c = c  d = d  None = None
  Nodes = {s, n}
  Seed = s
  Admins = {a, b}
  Fallible = {s, n, a, b}
  MaxSecrets = 2
  MaxMachines = 3
  Replicas = 2
SPECIFICATION PartSpec
SYMMETRY Symmetry
INVARIANTS TypeOK RowsAreMembers NodesLeaveNothing
PROPERTIES  CephReplicasKept
CHECK_DEADLOCK FALSE
