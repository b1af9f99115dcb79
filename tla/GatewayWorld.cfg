\* Raw and adopted prints of one row under everything the printer and the network do.
CONSTANTS
    Ids = {u1}
    Names = {n1}
    Peers = {p1}
    Options = {o1}
    Capacity = 1
    None = None
    Callers = {"raw", "adopt", "printer", "restart"}
    Evidence <- MCEvidence
    World = {"reconnect", "panel", "ignore", "power", "archive", "slow"}
    Keep = 1
    MaxReports = 2
SPECIFICATION GatewaySpec
INVARIANT RunningPrintIsOwned
CHECK_DEADLOCK FALSE
