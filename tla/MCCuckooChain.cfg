\* Four buckets of one slot, four entries, four keys whose bucket pairs
\* are 0-1, 0-2, 1-2 and 2-3: the table fills and MakeSpace relocates.
CONSTANTS
  k1 = k1  k2 = k2  k3 = k3  k4 = k4  k5 = k5
  Keys = {k1, k2, k3, k4}
  Vals = {v1}
  ZeroKey = ZeroKey
  ZeroVal = ZeroVal
  Hasher <- HasherFour
  NumBuckets = 4
  NumEntries = 4
  EntriesPerBucket = 1
  MaxCuckooPath = 3
  MaxAgainRounds = 4
SPECIFICATION Spec
VIEW MCView
INVARIANTS TypeOK EntryAccounting TwoBucketReachability
 
