\* load_schools_daycares, INSERTs of up to two JSON documents
CONSTANTS
  s1 = s1  s2 = s2
  a = a  b = b  bad = bad
  NoTable = NoTable
  Sessions = {s1, s2}
  Batches = {a, b, bad}
  Malformed = {bad}
  Seed = {a}
  MaxRows = 2
  Indexed = TRUE
SPECIFICATION Spec
INVARIANT LoadKeepsRows
