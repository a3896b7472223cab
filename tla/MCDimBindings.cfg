SPECIFICATION Spec
CONSTANTS
    plejd = plejd
    other = other
    legacy = legacy
    Bindings = {plejd, other, legacy}
    Native = {plejd}
    Stopless = {legacy}
    None = None
    MaxLoads = 2
    MaxSaves = 3
    MaxTroubles = 1
CHECK_DEADLOCK FALSE
INVARIANTS TypeOK QuietAfterTeardown SavedIsLive CanBeStopped
