CONSTANTS
    TaskId = {t1, t2}
    SessionId = {s1, s2}
    None = None
    StaleStamps = FALSE
    MaxTime = 1
    MaxSegments = 3
    MaxCheckpoints = 2
    MaxUpdates = 1
    MaxNotes = 2
SYMMETRY Symmetry
CHECK_DEADLOCK FALSE
SPECIFICATION SearchSpec
INVARIANTS
    TypeOK
    Ownership
    Lineage
    StatusExplained
    Traceable
    ResumesWherePaused
    IndexFresh
PROPERTIES
    ToolsLeaveFinished
    ClosedIsFinal
    LeaseProtocol
