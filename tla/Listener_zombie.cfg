\* One fault outside that window; the controller never waits for a dead child.
SPECIFICATION FairSpec
CONSTANTS
  Daemon = {d1, d2, d3, d4}
  Old = None
  Starter = {host}
  LongLived = {host}
  Stopper = {stop}
  Foreign = {other}
  CrashUnrecorded = FALSE
  Reaps = FALSE
  MaxFaults = 1
  None = None
PROPERTIES Restored
