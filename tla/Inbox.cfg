\* Two receipts compete for the printer, without owner decisions and replays; and one
\* receipt under every caller.
CONSTANTS
    Ids = {u1, u2}
    Single = u0
    Names = {n1}
    Peers = {p1}
    Options = {o1}
    Capacity = 2
    None = None
    Callers = {"orca", "managed", "raw", "adopt", "printer", "restart", "prune"}
    Evidence <- MCEvidence
SPECIFICATION PartSpec
SYMMETRY Symmetry
INVARIANTS TypeOK ClaimOnce OwnersAreLive StartsWereReal OneOwner QueuedCanBeClaimed ReceiptSound
PROPERTY SettledStaysSettled
CHECK_DEADLOCK FALSE
