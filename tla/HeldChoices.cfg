SPECIFICATION Spec
CONSTANTS
    None = None
    youtube = youtube
    shorts = shorts
    alice = alice
    bob = bob
    dev1 = dev1
    dev2 = dev2
    Devices = {dev1}
    Lineages <- TwoAccounts
    Fields <- OneField
    LegacyFields <- ServiceOnly
    Parent <- NoParent
    Fresh <- AllOn
    Ids <- EditIds
    OpSets <- SingleOps
    StartRecords <- Pristine
    StartRows <- NoRow
    MaxEdits = 2
    MaxLogins = 2
    MaxFaults = 0
    MaxLegacyWrites = 0
    MaxPending = 2
    MaxWrites = 3
    MaxStep = 2
    MaxRevision = 4
INVARIANTS HeldChoicesStayHome
CHECK_DEADLOCK FALSE
