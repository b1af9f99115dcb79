\* One receipt, fair scheduling: queued starts end, lost starts are released.
CONSTANTS
    Ids = {u1}
    Names = {n1}
    Peers = {p1}
    Options = {o1}
    Capacity = 1
    None = None
    Callers = {"orca", "inventory", "printer"}
    Evidence <- MCEvidence
    World = {"ignore", "reconnect"}
    Keep = 1
    MaxReports = 2
SPECIFICATION FairGateway
PROPERTIES QueuedStartEnds LostStartIsReleased
CHECK_DEADLOCK FALSE
