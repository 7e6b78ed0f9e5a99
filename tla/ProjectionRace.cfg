SPECIFICATION Spec
CONSTANTS
    u1 = u1
    u2 = u2
    bought = bought
    moved = moved
    w1 = w1
    w2 = w2
    None = None
    Users <- MCUsers
    Events <- MCEvents
    Affected <- MCAffected
    Workers <- MCWorkers
    SignIns <- MCUsers
    Leavers = {}
    Tokens = {1, 2, 3, 4, 5}
    MaxFaults = 0
INVARIANTS RacesCollapse
CHECK_DEADLOCK FALSE
