SPECIFICATION Spec
CONSTANTS
  e1 = e1  e2 = e2  p1 = p1  w1 = w1  w2 = w2  None = None
  Event = {e1, e2}
  Fact <- TwoEvents
  Worker = {w1, w2}
  Attempts = 2
  Lease = 1
  Cap = 1
  Prompt = TRUE
  MaxDelivery = 1
  MaxRetry = 2
  MaxThrow = 2
  MaxCrash = 1
  MaxReaperCrash = 1
SYMMETRY Workers
INVARIANTS TypeOK SingleFlight BridgedOnce ProcessedMeansDone
PROPERTIES ProcessedIsFinal
CHECK_DEADLOCK FALSE
