\* Two launchers that are given the same socket path, two signals.
SPECIFICATION FairSpec
CONSTANTS
  Launcher = {l1, l2}
  MaxSignals = 2
  Nobody = Nobody
CHECK_DEADLOCK FALSE
INVARIANTS ClosesUnlessStruck StaysReachable
PROPERTIES EndsWithTui
