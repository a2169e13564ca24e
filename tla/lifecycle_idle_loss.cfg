CONSTANTS
  w1 = w1
  w2 = w2
  c1 = c1
  c2 = c2
  None = None
  Connection = {w1}
  Conversation = {c1}
  MaxTurn = 2
  MaxStart = 2
  MaxLock = 0
  MaxRow = 2
  HasPassword = FALSE
  Allowed = {"idle", "raise"}
SPECIFICATION Spec
INVARIANT NothingLost
CHECK_DEADLOCK FALSE
