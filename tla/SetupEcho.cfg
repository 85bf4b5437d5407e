\* exec_psql.sh alone, one failure it does not cause itself
CONSTANTS
  Starts = {1}
  MaxFaults = 1
  MaxUses = 0
SPECIFICATION Spec
INVARIANT CompletedMeansComplete
