\* A Claude leg and a Codex session, one controller that may break once.
SPECIFICATION LegFairSpec
CONSTANTS
  x = x
  y = y
  Participant = {x, y}
  Claude = {x}
  Leg = x
  Controller = {c1}
  Exclusive = TRUE
  Turn = {}
  PeerStatus = {"sent", "unknown", "delivered"}
  Receipt = {"delivered"}
  PageSize = 2
  MaxSeq = 3
  MaxFaults = 1
  MaxRetries = 0
  None = None
  Thread = {own}
  Own = own
  Accepted = {own}
  InId = {NoId}
  NoId = NoId
  MaxOut = 1
  MaxIn = 1
  MaxExits = 0
  LegPage = 1
INVARIANTS EndToEndOnce StatusNotStale NoAnswerLost
PROPERTIES ImplementsPairQueue OutcomeCarried AnswersArrive
CHECK_DEADLOCK FALSE
