CONSTANTS
    TaskId = {t1, t2}
    SessionId = {s1}
    Slot = {k1, k2}
    Goal = {g1}
    Transitions = {"blocked", "completed"}
    None = None
    StaleStamps = TRUE
    MaxTime = 2
    MaxSegments = 3
    MaxCheckpoints = 1
    MaxUpdates = 0
    MaxNotes = 0
SYMMETRY Symmetry
VIEW WithoutEvents
CHECK_DEADLOCK FALSE
SPECIFICATION CallSpec
INVARIANT RecoverySkipsNothing
