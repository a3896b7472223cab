SPECIFICATION Spec
CONSTANTS
    Outputs = {a, b}
    Room = room
    Members = {a, b}
    Levels = {1}
    Writes = {w1, w2}
    None = None
    Troubles = {"foreign", "loss", "drop"}
    MaxTroubles = 1
INVARIANTS TypeOK WaitersWait StateIsReal
SYMMETRY Interchangeable
CHECK_DEADLOCK FALSE
