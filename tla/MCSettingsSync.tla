--------------------------- MODULE MCSettingsSync ---------------------------
(* Small instances of SettingsSync.                                          *)
EXTENDS SettingsSync, TLC

CONSTANTS youtube, shorts, alice, bob, dev1, dev2

\* A service switch and the free-tier site switch a schema-1 document copies it to.
TwoFields == {youtube, shorts}
OneField == {youtube}
ServiceOnly == {youtube}
SiteCopies == [f \in {shorts} |-> youtube]
NoParent == [f \in {} |-> youtube]
AllOn == [f \in Fields |-> TRUE]

OneAccount == {alice}
TwoAccounts == {alice, bob}

EditIds == Devices \X (1..MaxEdits)
SingleOps == UNION {[{f} -> [value : BOOLEAN, base : 0..MaxRevision, step : 1..MaxStep]]
                      : f \in Fields}

\* Devices are interchangeable in every property but the temporal ones.
Alike == Permutations(Devices)

Pristine == {FreshRecord}
PristineOrUpgraded == {FreshRecord, UpgradedRecord([f \in LegacyFields |-> FALSE])}

NoRow == {[a \in Accounts |-> EmptyRow]}
OldRow == LegacyRow([f \in LegacyFields |-> FALSE], 1)
\* Up to an exchange of the accounts' names, which nothing else tells apart.
NoRowOrLegacy ==
    {rows \in [Accounts -> {EmptyRow, OldRow}] :
        bob \in Accounts /\ rows[bob] = OldRow => rows[alice] = OldRow}
=============================================================================
