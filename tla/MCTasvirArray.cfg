\* Two instances, two Barrier() calls each (Allocate's and one more).
\* Every instance may return from Allocate, so the system may stop.
CONSTANTS
  NrWorkers = 2
  MaxBarriers = 2
SPECIFICATION Spec
INVARIANT BarrierWaitsForAll
CHECK_DEADLOCK FALSE
