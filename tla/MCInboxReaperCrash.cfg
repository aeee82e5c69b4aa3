SPECIFICATION ReaperFairSpec
CONSTANTS
  e1 = e1  e2 = e2  p1 = p1  w1 = w1  w2 = w2  None = None
  Event = {e1}
  Fact <- OneRenewal
  Worker = {w1, w2}
  Attempts = 4
  Lease = 3
  Cap = 3
  Prompt = TRUE
  MaxDelivery = 1
  MaxRetry = 4
  MaxThrow = 0
  MaxCrash = 2
  MaxReaperCrash = 1
PROPERTIES ClaimedIsProcessed
CHECK_DEADLOCK FALSE
