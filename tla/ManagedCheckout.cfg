\* One account, two purchase operations, one of them paid, two requests in flight.
CONSTANTS
    alice = alice
    o1 = o1
    o2 = o2
    r1 = r1
    r2 = r2
    None = None
    Holders = {alice}
    Operations = {o1, o2}
    Sessions <- MCSessions
    Requests = {r1, r2}
    MaxPayments = 1
SPECIFICATION Spec
SYMMETRY MCSymmetry
INVARIANTS TypeOK OnePayableSession PaymentsAreTraceable LedgerFollowsStripe AnsweredRefundIsFinal
CHECK_DEADLOCK FALSE
