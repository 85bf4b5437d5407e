\* what the loser of the race is told
CONSTANTS
  w1 = w1  w2 = w2
  Nobody = Nobody
  Workers = {w1, w2}
  Interval = 2
  InitialAge = 3
  MaxDay = 5
  MaxCrashes = 2
SPECIFICATION Spec
INVARIANT TooRecentFails
