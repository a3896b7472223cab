SPECIFICATION LightSpec
CONSTANTS
    Pcts = {low, full}
    Full = full
    Nil = nil
    MaxVisits = 2
    MaxActs = 4
    MaxLightTroubles = 1
INVARIANTS LightTypeOK DragLands OverridesSettle
CHECK_DEADLOCK FALSE
