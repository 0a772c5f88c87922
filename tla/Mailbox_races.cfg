\* Two messages, receipts in either order, two exits of the daemon.
SPECIFICATION FairSpec
CONSTANTS
  Caller = {a, b}
  Thread = {own}
  Own = own
  MaxOut = 2
  Receipt = {"held", "delivered"}
  InId = {i1, NoId}
  NoId = NoId
  MaxIn = 1
  MaxExits = 2
INVARIANTS WireAtMostOnce ReceiptWins
PROPERTIES QueueOrder DeliversOnce OutcomeReached
\* Once nothing is queued and the peer is done the daemon polls for ever.
CHECK_DEADLOCK FALSE
