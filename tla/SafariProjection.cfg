SPECIFICATION FairSpec
CONSTANTS
    Pages = {popup}
    None = None
    Left2x <- OffIn2x
    MaxInstalls = 2
    MaxOrder = 2
    MaxGeneration = 1
    MaxFaults = 1
INVARIANTS TypeOK
PROPERTIES RetainedChoiceStands CopyFollowsApp
CHECK_DEADLOCK FALSE
CONSTRAINT EarlyEndsIt
