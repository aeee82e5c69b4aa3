SPECIFICATION Spec
CONSTANTS
    Worker = {w1, w2}
    Period = 1
    Grace = 1
    MaxTxn = 1
    MaxEvents = 2
    MaxTime = 1
    MaxBacklog = 2
INVARIANTS
    GraceIsServed
CHECK_DEADLOCK FALSE
