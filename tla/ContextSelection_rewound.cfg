CONSTANTS
    TaskId = {t1, t2}
    SessionId = {s1}
    None = None
    StaleStamps = FALSE
    Refusals = TRUE
    Rewinds = TRUE
    MaxTime = 1
    MaxSegments = 3
    MaxCheckpoints = 1
    MaxUpdates = 0
    MaxNotes = 0
    MaxMessages = 5
SYMMETRY Symmetry
VIEW Relevant
CHECK_DEADLOCK FALSE
SPECIFICATION SelectionSpec
INVARIANTS
    SelectionTypeOK
    IsolatedWhileInPlace
    HandoffCutsHistory
