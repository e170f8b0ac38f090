\* The TASVIR build's controller loop on four buckets of one slot and four
\* entries (openflow's sizing: MAX_ENTRIES = 4 * MAX_BUCKETS, one entry per
\* slot) and four flows, so that MakeSpace relocates along chains of two
\* moves; the switch's replica is synced after any iteration.
CONSTANTS
  k1 = k1  k2 = k2  k3 = k3  k4 = k4  k5 = k5
  Keys = {k1, k2, k3, k4}
  Vals = {v1}
  ZeroKey = ZeroKey
  ZeroVal = ZeroVal
  Hasher <- HasherReplicaFour
  NumBuckets = 4
  NumEntries = 4
  EntriesPerBucket = 1
  MaxCuckooPath = 3
  MaxAgainRounds = 4
SPECIFICATION ReplSpec
INVARIANTS ReplicaEntriesStackMatch ReplicaBucketsMatch
