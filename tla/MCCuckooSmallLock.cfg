\* The bucket-lock build: one lock word per bucket.
CONSTANTS
  k1 = k1  k2 = k2  k3 = k3
  Keys = {k1, k2, k3}
  Vals = {v1}
  ZeroKey = ZeroKey
  ZeroVal = ZeroVal
  Hasher <- HasherLocked
  NumBuckets = 2
  NumEntries = 4
  EntriesPerBucket = 2
  MaxCuckooPath = 3
  MaxAgainRounds = 4
  Controller = Controller
  Switch = Switch
  BigLock = FALSE
SPECIFICATION LockedSpec
INVARIANTS CriticalSectionHoldsLocks
