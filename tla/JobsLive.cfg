SPECIFICATION JobsLiveSpec
CONSTANTS
    MaxRows = 2
    MaxPanel = 1
    Worlds <- MCLiveWorlds
INVARIANTS
    OneRowPerPrint
PROPERTIES
    RunEnds
    OrphanEnds
