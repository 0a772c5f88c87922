\* A controller that may break between queue_message and the record of its id.
SPECIFICATION LegSpec
CONSTANTS
  x = x
  y = y
  Participant = {x, y}
  Claude = {x}
  Leg = x
  Controller = {c1}
  Exclusive = TRUE
  Turn = {t1}
  PeerStatus = {"sent", "unknown", "delivered"}
  Receipt = {"delivered"}
  PageSize = 2
  MaxSeq = 3
  MaxFaults = 1
  MaxRetries = 0
  None = None
  Thread = {own, foreign}
  Own = own
  Accepted = {own}
  InId = {NoId}
  NoId = NoId
  MaxOut = 1
  MaxIn = 1
  MaxExits = 0
  LegPage = 1
INVARIANTS UnforwardedSurfaces
CHECK_DEADLOCK FALSE
