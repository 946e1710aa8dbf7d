CONSTANTS
  s = s  n1 = n1  n2 = n2  None = None
  Nodes = {s, n1, n2}
  Seed = s
  RolesOf <- Control
  Apps = {"k8s", "cinder-volume"}
  Admins = {a}
  Forceful = {a}
  Fallible = {s, n1, n2, a}
  MaxMachines = 3
  Replicas = 2
  Exclusion = "all"
  LateReport = TRUE
SPECIFICATION Spec
SYMMETRY Symmetry
INVARIANTS EndpointAlive
CHECK_DEADLOCK FALSE
