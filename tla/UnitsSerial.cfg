CONSTANTS
  s = s  n1 = n1  n2 = n2  None = None
  Nodes = {s, n1, n2}
  Seed = s
  RolesOf <- Mixed
  Apps = {"microovn", "openstack-hypervisor"}
  Admins = {a}
  Forceful = {a}
  Fallible = {s, n1, a}
  MaxMachines = 3
  Replicas = 2
  Exclusion = "all"
  LateReport = FALSE
SPECIFICATION Spec
INVARIANTS TypeOK JoinedHasUnits
CHECK_DEADLOCK FALSE
