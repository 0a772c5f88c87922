\* Two servers in turn, under one pid or two, an app in an app, two sessions.
SPECIFICATION FairSpec
CONSTANTS
  App = {a, b}
  Outer = a
  Inside = {b}
  Session = {s1, s2}
  None = None
  Pid = {p1, p2}
  MaxMoves = 1
  MaxServers = 2
  MaxRunning = 1
INVARIANTS FollowsOnceQuiet KeptWhileRunning
PROPERTIES NoneOverlooked LeftoverCleared ReadyAsBound
