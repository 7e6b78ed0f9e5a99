\* Two accounts on one browser, two operations of the session at a time, three sign-ins.
SPECIFICATION Spec
CONSTANTS
    Accounts = {alice, bob}
    Tasks = {t1, t2}
    None = None
    MaxSignIns = 3
    MaxPurchases = 2
SYMMETRY MCSymmetry
INVARIANTS TypeOK PurchasesStayHome
PROPERTIES OperationsAreKept
CHECK_DEADLOCK FALSE
