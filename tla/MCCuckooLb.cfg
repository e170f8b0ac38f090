\* cuckoo-lb: generate_lut over three partitions on a three-slot lut_lb,
\* then two processes serving for two seconds, with three flows
\* replaced after the first (Cap 4 holds them all); the processes stop when
\* test() returns at RUN_SECS.
CONSTANTS
  Lbs = 2
  Parts = 3
  Gens <- MCGens
  LutLen = 3
  BreakCounter = 1
  Cap = 4
  Batch = 2
  RunSecs = 2
  MaxQueue = 1
SPECIFICATION Spec
VIEW MCView
CHECK_DEADLOCK FALSE
INVARIANTS LutFilled NoOrphanEntries
