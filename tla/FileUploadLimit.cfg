\* two sessions, two submissions, the limit the trigger announces
CONSTANTS
  s1 = s1  s2 = s2
  i1 = i1  i2 = i2  i3 = i3
  t1 = t1  t2 = t2
  NoRow = NoRow
  Sessions = {s1, s2}
  Ids = {i1, i2, i3}
  Tids = {t1, t2}
SPECIFICATION Spec
INVARIANT AtMostTwoFiles
