SPECIFICATION PartSpec
CONSTANTS
  t1 = t1  k1 = k1  o1 = o1
  Terraform = {t1}
  Cilium = {k1}
  Operators = {}
  Breakable = {"lock", "get"}
  Fallible = {"put", "unlock"}
  Crashable = {t1, k1}
  MaxReqs = 5
  NoLock = NoLock
INVARIANTS TypeOK MutualExclusion
PROPERTIES ImplementsPlanLock 
CHECK_DEADLOCK FALSE
