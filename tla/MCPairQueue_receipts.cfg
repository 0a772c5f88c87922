\* Two Codex sessions, one receipt per page: the cursor must reach every row.
SPECIFICATION FairSpec
CONSTANTS
  x = x
  y = y
  Participant = {x, y}
  Claude = {}
  Controller = {c1}
  Exclusive = TRUE
  Turn = {t1}
  PeerStatus = {}
  PageSize = 1
  MaxSeq = 2
  MaxFaults = 1
  MaxRetries = 1
  None = None
PROPERTIES NoRowStuck ReceiptsNotStarved
