SPECIFICATION Spec
CONSTANTS
    Worker = {w1, w2}
    Period = 1
    MaxHold = 0
    StaleAfter = 0
    MaxTime = 1
    MaxChanges = 2
    MaxLost = 1
    MaxFail = 1
SYMMETRY WorkerSymmetry
INVARIANTS
    TypeOK
    HoldIsStamped
    ServedFollowsRow
    ServedFollowsStore
    ChurnToldOnce
PROPERTIES
    TerminalIsAbsorbing
    EventOrder
CHECK_DEADLOCK FALSE
