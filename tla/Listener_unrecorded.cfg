\* One fault, which may hit that window.
SPECIFICATION FairSpec
CONSTANTS
  Daemon = {d1, d2, d3, d4}
  Old = None
  Starter = {host}
  LongLived = {host}
  Stopper = {stop}
  Foreign = {other}
  CrashUnrecorded = TRUE
  Reaps = TRUE
  MaxFaults = 1
  None = None
PROPERTIES Restored
