\* one load of the data file, and deletes, two runs in all; nothing fails
CONSTANTS
  l1 = l1
  Loads = {l1}
  MaxRuns = 2
  MaxFaults = 0
SPECIFICATION Spec
INVARIANT ClearedTables
CHECK_DEADLOCK FALSE
