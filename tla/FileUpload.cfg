\* two sessions, two submissions, an id for each file the two sessions can add
CONSTANTS
  s1 = s1  s2 = s2
  i1 = i1  i2 = i2  i3 = i3  i4 = i4
  t1 = t1  t2 = t2
  NoRow = NoRow
  Sessions = {s1, s2}
  Ids = {i1, i2, i3, i4}
  Tids = {t1, t2}
SYMMETRY Symmetric
SPECIFICATION Spec
INVARIANT TypeOK
INVARIANT SerialLimit
INVARIANT SessionLimit
