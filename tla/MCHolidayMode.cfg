SPECIFICATION FairSpec
CONSTANTS
    Lights = {l1, l2}
    MaxLoads = 2
    MaxTroubles = 2
    MaxClicks = 3
INVARIANTS TypeOK NoHiddenTimer OursAreTracked
PROPERTIES LightsGoOut
CHECK_DEADLOCK FALSE
