SPECIFICATION FairSpec
CONSTANTS
    u1 = u1
    u2 = u2
    bought = bought
    moved = moved
    w1 = w1
    w2 = w2
    None = None
    Users <- MCUsers
    Events <- MCTransfer
    Affected <- MCTransferAffected
    Workers <- MCWorkers
    SignIns <- MCSignIns
    Leavers <- MCLeavers
    Tokens = {1, 2, 3}
    MaxFaults = 2
INVARIANTS TypeOK AcknowledgedIsApplied LiveClaimStands
PROPERTIES ImplementsLedger EventuallyAcknowledged
CHECK_DEADLOCK FALSE
