\* three workers under fairness, runs every two days, over four midnights
CONSTANTS
  w1 = w1  w2 = w2  w3 = w3
  Nobody = Nobody
  Workers = {w1, w2, w3}
  Interval = 2
  InitialAge = 3
  MaxDay = 4
  MaxCrashes = 1
SPECIFICATION FairSpec
INVARIANT TypeOK
INVARIANT OneDueWorker
PROPERTY Spaced
PROPERTY DueRuns
