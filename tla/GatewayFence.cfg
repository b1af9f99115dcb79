\* Two receipts whose starts compete: managed jobs, raw commands and the printer's reports.
CONSTANTS
    Ids = {u1, u2}
    Names = {n1}
    Peers = {p1}
    Options = {o1}
    Capacity = 2
    None = None
    Callers = {"raw", "managed", "printer"}
    Evidence <- MCEvidence
    World = {}
    Keep = 1
    MaxReports = 2
SPECIFICATION GatewaySpec
SYMMETRY Symmetry
INVARIANT OneStartInFlight
CHECK_DEADLOCK FALSE
