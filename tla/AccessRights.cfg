SPECIFICATION Spec
SYMMETRY MCSymmetry
CONSTANTS
    alice = alice
    bob = bob
    web = web
    apple = apple
    op1 = op1
    op2 = op2
    look1 = look1
    look2 = look2
    None = None
    Holders <- MCHolders
    Purchases <- MCPurchases
    AppleRights <- MCAppleRights
    Operations <- MCOperations
    Lookups <- MCLookups
    MaxRevision = 1
INVARIANTS TypeOK OutdatedProofsAreRevoked KnownRefundStands OrphansStayInactive
PROPERTIES ImplementsLedger AppleRefundIsFinal
CHECK_DEADLOCK FALSE
