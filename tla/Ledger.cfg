SPECIFICATION LedgerSpec
CONSTANTS
    Attempts = {print}
    Spools = {1, 2}
    MaxUse <- MCMaxUse
    Capacity <- MCCapacity
    Cases <- MCCases
    EditSizes <- MCEdits
    ResolveStates = {"shadow", "review"}
    PlaceStates = {"review"}
    MoveStates = {"review", "delivered"}
CHECK_DEADLOCK FALSE
INVARIANT LedgerSound
PROPERTIES ChargeOnceSpec ClosedIsLeftAlone MoveNeverLoses PendingCloses
