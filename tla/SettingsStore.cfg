SPECIFICATION Spec
CONSTANTS
    youtube = youtube
    shorts = shorts
    acct = acct
    other = other
    w1 = w1
    w2 = w2
    Fields <- MCFields
    LegacyFields <- MCLegacyFields
    Parent <- MCParent
    Fresh <- MCFresh
    Lineages <- MCLineages
    Ids <- MCIds
    OpSets <- MCOpSets
    Account = acct
    MaxStep = 1
    MaxRevision = 3
    MaxWrites = 1
    StartVersions = {0, 1}
    MaxAccepted = 2
INVARIANTS TypeOK StampsWithinRevision ReceiptsStayValid RetriesChangeNothing BookkeepingAgrees
PROPERTIES RankNeverRegresses RevisionNamesDocument ImplementsRegister
CHECK_DEADLOCK FALSE
