\* Two controllers whose ticks overlap, a peer that repeats itself,
\* and a mailbox that takes no message.
SPECIFICATION LegSpec
CONSTANTS
  x = x
  y = y
  Participant = {x, y}
  Claude = {x}
  Leg = x
  Controller = {c1, c2}
  Exclusive = FALSE
  Turn = {}
  PeerStatus = {"sent", "unknown"}
  Receipt = {}
  PageSize = 2
  MaxSeq = 4
  MaxFaults = 0
  MaxRetries = 0
  None = None
  Thread = {own}
  Own = own
  Accepted = {own}
  InId = {i1, i2}
  NoId = NoId
  MaxOut = 0
  MaxIn = 2
  MaxExits = 0
  LegPage = 1
INVARIANTS AnswersOnce RepeatedOnce AtMostOnce
SYMMETRY Symmetry
CHECK_DEADLOCK FALSE
