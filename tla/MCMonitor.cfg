\* Two monitors, one source and two destination addresses, batches of
\* three packets (the code's 32, scaled down: with four packets a monitor
\* services twice), four packets per monitor, three rounds of aggregation.  The bounds stop the model, which the code's loops never
\* do: deadlock is not a property of this run.
CONSTANTS
  Mon = {1, 2}
  SrcIPs = {s1}
  DstIPs = {d1, d2}
  Batch = 3
  MaxPkts = 4
  MaxRounds = 3
SPECIFICATION Spec
CHECK_DEADLOCK FALSE
INVARIANTS MonitorTypeOK GlobalPacketsBounded
