\* Replays, jobs, owner decisions, retention and crashes around one row.
CONSTANTS
    Ids = {u1}
    Names = {n1}
    Peers = {p1}
    Options = {o1}
    Capacity = 1
    None = None
    Callers = {"orca", "managed", "replay", "owner", "prune", "restart", "printer"}
    Evidence <- MCEvidence
    World = {}
    Keep = 0
    MaxReports = 2
SPECIFICATION GatewaySpec
INVARIANTS GatewayTypeOK PendingHasTask
CHECK_DEADLOCK FALSE
