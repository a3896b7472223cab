SPECIFICATION RampFairSpec
CONSTANTS
    Keys = {a, b}
    Tasks = {t1, t2}
    Up = up
    Down = down
    Nil = nil
    Step = 2
    DimMin = 1
    DimMax = 4
INVARIANTS RampTypeOK LiveIsRegistered
PROPERTIES HoldKept EveryRampEnds
CHECK_DEADLOCK FALSE
