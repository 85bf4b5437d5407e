\* runs cut or failing at any two points, one use of the database between runs
CONSTANTS
  Starts = {1, 2}
  MaxFaults = 2
  MaxUses = 1
SPECIFICATION Spec
INVARIANT TypeOK
INVARIANT CleanRunCompletes
PROPERTY LoadedTogether
