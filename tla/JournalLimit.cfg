SPECIFICATION Spec
CONSTANTS
    None = None
    youtube = youtube
    shorts = shorts
    alice = alice
    bob = bob
    dev1 = dev1
    dev2 = dev2
    Devices = {dev1}
    Lineages <- OneAccount
    Fields <- TwoFields
    LegacyFields <- ServiceOnly
    Parent <- SiteCopies
    Fresh <- AllOn
    Ids <- EditIds
    OpSets <- SingleOps
    StartRecords <- Pristine
    StartRows <- NoRowOrLegacy
    MaxEdits = 4
    MaxLogins = 1
    MaxFaults = 1
    MaxLegacyWrites = 0
    MaxPending = 3
    MaxWrites = 4
    MaxStep = 2
    MaxRevision = 6
INVARIANTS TypeOK PristineChoicesSurvive
CHECK_DEADLOCK FALSE
