\* Two messages and a history longer than what observed looks at.
SPECIFICATION Spec
CONSTANTS
  Message = {m1, m2}
  Nobody = Nobody
  PageItems = 1
  MaxPages = 2
  MaxRuntimes = 2
  MaxTurns = 2
  MaxItems = 4
  MaxAttempts = 3
CHECK_DEADLOCK FALSE
INVARIANTS DefiniteNotSubmitted ReceiptTrue RecentFound
PROPERTIES DeliversOnce
