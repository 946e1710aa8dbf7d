CONSTANTS
  Nodes = {s, n, m}
  Seed = s
  Gates = {g}
  Inputs = {"true", "false"}
  Writers = {s}
  Deletable = {g}
  Triggers = {FALSE}
  Fallible = {}
  MaxOps = 3
SPECIFICATION FairSpec
INVARIANTS TypeOK Agreement
PROPERTIES Converges
CHECK_DEADLOCK FALSE
