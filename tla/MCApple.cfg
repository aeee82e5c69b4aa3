SPECIFICATION Spec
CONSTANTS
    Worker = {w1, w2}
    Period = 1
    Grace = 1
    MaxTxn = 3
    MaxEvents = 4
    MaxTime = 1
    MaxBacklog = 2
SYMMETRY WorkerSymmetry
INVARIANTS
    TypeOK
    ChargeOnce
    ServedFollowsRows
    ServedFollowsStore
    RevenueFollowsStore
PROPERTIES
    TerminalLeftByReversal
CHECK_DEADLOCK FALSE
