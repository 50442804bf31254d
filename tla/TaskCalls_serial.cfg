CONSTANTS
    TaskId = {t1, t2}
    SessionId = {s1, s2}
    Slot = {k1, k2}
    Goal = {g1, g2}
    Transitions = {"blocked"}
    None = None
    StaleStamps = TRUE
    MaxTime = 2
    MaxSegments = 3
    MaxCheckpoints = 1
    MaxUpdates = 1
    MaxNotes = 0
SYMMETRY Symmetry
VIEW WithoutEvents
CHECK_DEADLOCK FALSE
SPECIFICATION CallSpec
INVARIANTS
    LinearHistory
    TaskTimeline
    GoalHistory
PROPERTY SerialLifecycle
