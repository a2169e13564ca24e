CONSTANTS
  w1 = w1
  w2 = w2
  c1 = c1
  c2 = c2
  None = None
  Connection = {w1, w2}
  Conversation = {c1}
  MaxTurn = 2
  MaxStart = 2
  MaxLock = 1
  MaxRow = 2
  HasPassword = FALSE
  Allowed = {"resume", "idle", "raise", "early", "lock", "kill", "fault"}
SPECIFICATION Spec
SYMMETRY Alike
INVARIANT EvidenceIsOwn
PROPERTY QueueKeepsItsPromise
CHECK_DEADLOCK FALSE
