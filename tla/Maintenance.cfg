\* two loads of the data file, deletes and dumps, three runs in all, one failure;
\* or two loading sessions, one row per load, and one purge
CONSTANTS
  l1 = l1  l2 = l2
  Loads = {l1, l2}
  MaxRuns = 3
  MaxFaults = 1
  s1 = s1  s2 = s2
  a = a  b = b  bad = bad
  NoTable = NoTable
  Sessions = {s1, s2}
  Batches = {a, b, bad}
  Malformed = {bad}
  Seed = {a, b}
  MaxRows = 1
  Indexed = TRUE
  MaxPurges = 1
SPECIFICATION FairSpec_p
INVARIANT TypesOK
INVARIANT ReferencesHold
INVARIANT DumpClosed
INVARIANT WholeOrNothing
PROPERTY LoadedTogether
PROPERTY DataLoadedOnce
PROPERTY LoadEnds
PROPERTY LoadRefreshesView
PROPERTY BackupCoversReplaced
PROPERTY AllEnd
CHECK_DEADLOCK FALSE
