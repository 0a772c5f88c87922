\* A controller that maintains the listener, the stop command and a daemon started by
\* hand; three faults of any kind.
SPECIFICATION FairSpec
CONSTANTS
  Daemon = {d1, d2, d3, d4}
  Old = d1
  Starter = {host}
  LongLived = {host}
  Stopper = {stop}
  Foreign = {other}
  CrashUnrecorded = TRUE
  Reaps = TRUE
  MaxFaults = 3
  None = None
INVARIANTS OneDaemon
PROPERTIES  SuccessorSafe RecordHolds RestoredIfRecorded
