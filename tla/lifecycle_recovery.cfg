CONSTANTS
  w1 = w1
  w2 = w2
  c1 = c1
  c2 = c2
  None = None
  Connection = {w1}
  Conversation = {c1, c2}
  MaxTurn = 2
  MaxStart = 3
  MaxLock = 0
  MaxRow = 5
  HasPassword = TRUE
  Allowed = {"raise", "defer", "fail", "kill", "stop", "delete"}
SPECIFICATION FairSpec
INVARIANTS TypeOK NothingLost
PROPERTIES UnobservedIsRecovered WaitingIsTakenUp
CHECK_DEADLOCK FALSE
