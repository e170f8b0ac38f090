\* Four buckets of one slot, four entries, five keys whose bucket pairs
\* form the chain 0-1, 0-2, 1-2, 2-3, 3-2 (see MCCuckooMap.HasherFour).
CONSTANTS
  k1 = k1  k2 = k2  k3 = k3  k4 = k4  k5 = k5
  Keys = {k1, k2, k3, k4, k5}
  Vals = {v1}
  ZeroKey = ZeroKey
  ZeroVal = ZeroVal
  Hasher <- HasherFour
  NumBuckets = 4
  NumEntries = 4
  EntriesPerBucket = 1
  MaxCuckooPath = 3
  MaxAgainRounds = 4
SPECIFICATION Spec
VIEW MCView
PROPERTIES InsertFailsOnlyWithoutCuckooPath
