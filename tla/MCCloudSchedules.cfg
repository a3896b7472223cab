SPECIFICATION Spec
CONSTANTS
    Ops = {o1, o2}
    Titles = {hall, yard}
    Triggers = {sunset, sunrise}
    None = none
    MaxScenes = 4
    MaxCalls = 3
    MaxTroubles = 2
SYMMETRY AnyOp
INVARIANTS TypeOK NothingOrphaned EntryTellsCloud
CHECK_DEADLOCK FALSE
