SPECIFICATION Spec
CONSTANTS
  p1 = p1  p2 = p2  o1 = o1
  Rows = 2
  Replica = {p1, p2}
  Operator = {}
  Batch = 2
  Lease = 3
  RowTicks = 2
  MAX_ATTEMPTS = 1
  BACKOFF_SCHEDULE <- OneRetry
  MaxFault = 0
  MaxOps = 0
SYMMETRY Replicas
INVARIANTS DuplicatesArePaid
