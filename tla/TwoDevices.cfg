SPECIFICATION Spec
CONSTANTS
    None = None
    youtube = youtube
    shorts = shorts
    alice = alice
    bob = bob
    dev1 = dev1
    dev2 = dev2
    Devices = {dev1, dev2}
    Lineages <- OneAccount
    Fields <- OneField
    LegacyFields <- ServiceOnly
    Parent <- NoParent
    Fresh <- AllOn
    Ids <- EditIds
    OpSets <- SingleOps
    StartRecords <- Pristine
    StartRows <- NoRow
    MaxEdits = 2
    MaxLogins = 2
    MaxFaults = 1
    MaxLegacyWrites = 1
    MaxPending = 2
    MaxWrites = 2
    MaxStep = 2
    MaxRevision = 5
SYMMETRY Alike
INVARIANTS RecordIsAccountPlusPending ReplySettlesItsWrite
PROPERTIES LocalRankHolds
CHECK_DEADLOCK FALSE
