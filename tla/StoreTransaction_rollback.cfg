CONSTANTS
    k1 = k1
    k2 = k2
    k3 = k3
    c1 = c1
    c2 = c2
    Call = {k1, k2, k3}
    Conn = {c1, c2}
    Home <- HomeValue
    None = None
    Faults = {"commit"}
    Faulty = {c1}
    HasTrigram = TRUE
    MaxDeaths = 0
CHECK_DEADLOCK FALSE
SPECIFICATION DatabaseSpec
INVARIANT FailedLeavesNothing
