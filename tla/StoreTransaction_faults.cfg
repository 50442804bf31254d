CONSTANTS
    k1 = k1
    k2 = k2
    k3 = k3
    c1 = c1
    c2 = c2
    Call = {k1, k2, k3}
    Conn = {c1, c2}
    Home <- HomeValue
    None = None
    Faults = {"commit", "interrupt"}
    Faulty = {c1}
    HasTrigram = TRUE
    MaxDeaths = 2
CHECK_DEADLOCK FALSE
SPECIFICATION DatabaseSpec
INVARIANTS
    DatabaseTypeOK
    StartedIsUsable
    WholeCallsDurable
    HealthyIsAtomic
    ErrorIsNotDurable
PROPERTIES
    EveryCallEnds
    WriteLockReleased
