CONSTANTS
    TaskId = {t1}
    SessionId = {s1}
    Engine = {e1}
    Message = {m1, m2}
    None = None
    StaleStamps = FALSE
    Faults = {"corruption", "interrupt", "crash"}
    Faulty = {e1}
    MaxTime = 1
    MaxSegments = 3
    MaxCheckpoints = 1
    MaxUpdates = 0
    MaxNotes = 0
    MaxMessages = 1
    MaxArchives = 1
SYMMETRY Symmetry
VIEW WithoutEvents
CHECK_DEADLOCK FALSE
SPECIFICATION ReadsSpec
INVARIANT ServedIsVerified
PROPERTIES
    CompletedIsRestored
    NoFalseAlarm
    RequestIsOneCut
