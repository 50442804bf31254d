CONSTANTS
    TaskId = {t1}
    SessionId = {s1}
    Engine = {e1, e2}
    Message = {m1, m2}
    None = None
    StaleStamps = FALSE
    Faults = {"storage", "corruption", "interrupt", "crash"}
    Faulty = {e1}
    MaxTime = 1
    MaxSegments = 1
    MaxCheckpoints = 0
    MaxUpdates = 0
    MaxNotes = 0
    MaxMessages = 1
    MaxArchives = 2
CHECK_DEADLOCK FALSE
SPECIFICATION EmergencySpec
INVARIANTS
    EmergencyTypeOK
    OneAttemptPerSegment
    LogFollowsArchives
    NeverResummarised
PROPERTIES
    ArchiveIsImmutable
    FinishedOnlySettles
    AttemptsSettle
