CONSTANTS
  s = s  n1 = n1  n2 = n2  None = None
  Nodes = {s, n1, n2}
  Seed = s
  RolesOf <- Compute
  Apps = {"openstack-hypervisor"}
  Admins = {}
  Forceful = {}
  Fallible = {}
  MaxMachines = 3
  Replicas = 2
  Exclusion = "node"
  LateReport = FALSE
SPECIFICATION Spec
INVARIANTS JoinedHasUnits
CHECK_DEADLOCK FALSE
