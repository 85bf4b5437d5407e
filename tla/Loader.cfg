\* load_schools_daycares in three sessions, one JSON document per INSERT; or load_lots
\* in two, one or two documents
CONSTANTS
  s1 = s1  s2 = s2  s3 = s3
  a = a  b = b  bad = bad
  NoTable = NoTable
  Sessions = {s1, s2, s3}
  LotsSessions = {s1, s2}
  Batches = {a, b, bad}
  Malformed = {bad}
  Seed = {a}
  MaxRows = 1
  LotsMaxRows = 2
  Indexed = TRUE
SPECIFICATION FairSpec_p
INVARIANT TypeOK
INVARIANT LoaderExclusive
INVARIANT IndexFollowsTable
PROPERTY AtomicSpec
PROPERTY LoadsTerminate
