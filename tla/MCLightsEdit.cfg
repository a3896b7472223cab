SPECIFICATION Spec
CONSTANTS
    Lamps = {l1, l2}
    Names = {n}
    Values = {bulb, spot}
    Default = bulb
    None = none
    Waiting = waiting
    Other = other
    MaxEdits = 3
    MaxReads = 1
    MaxTroubles = 2
SYMMETRY AnyLamp
INVARIANTS TypeOK StylesSettle
PROPERTIES NoTypeUndone DraftIsSaved
CHECK_DEADLOCK FALSE
