\* One Claude and one Codex session, one controller that is restarted.
SPECIFICATION Spec
CONSTANTS
  x = x
  y = y
  Participant = {x, y}
  Claude = {x}
  Controller = {c1}
  Exclusive = TRUE
  Turn = {t1}
  PeerStatus = {"unknown", "delivered"}
  PageSize = 2
  MaxSeq = 3
  MaxFaults = 1
  MaxRetries = 1
  None = None
INVARIANTS RetrySafe AtMostOnce QuietAfterDisconnect ReplyRouting Reconcilable
PROPERTIES NoOvertake DeliversOnce
