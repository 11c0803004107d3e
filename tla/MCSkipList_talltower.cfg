CONSTANTS
  t1 = t1
  t2 = t2
  v1 = v1
  v2 = v2
  NoVal = NoVal
  Threads <- MCThreads
  Vals <- MCVals
  Keys <- MCKeys
  MaxHeight = 3
  MaxPuts = 1
  Readers = {}
  r1 = r1
  MaxGets = 0
SPECIFICATION Spec
INVARIANT TallTowerNoPanic
