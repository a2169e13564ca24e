CONSTANTS
  Socket = {"s"}
  Question = {"q"}
  Cacheable = {"q"}
  Searched = {"q"}
  Order <- LocalFirst
  MaxTokens = 2
  Silent = TRUE
  MaxAsk = 2
  MaxStop = 1
  MaxChange = 2
  MaxFail = 1
SPECIFICATION FairSpec
INVARIANTS TypeOK HistoryIsStored UsesWhatIsAgreed StopIsHeeded CacheIsWhole
PROPERTIES ReplyIsWhatWasShown TurnsEnd TurnsAreObserved
CHECK_DEADLOCK FALSE
