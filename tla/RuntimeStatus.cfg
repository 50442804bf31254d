CONSTANTS
    m1 = m1
    m2 = m2
    p1 = p1
    q1 = q1
    r1 = r1
    v1 = v1
    v2 = v2
    None = None
    Key = {m1, m2, p1, q1, r1}
    Length <- LengthValue
    Within <- WithinValue
    Provider = {v1, v2}
    Config <- ConfigValue
    SessionId = {s1, s2}
    Metadata <- MetadataValue
    Usages <- UsagesValue
    Histories <- HistoriesValue
    MaxRequests <- MaxRequestsValue
SYMMETRY Symmetry
CHECK_DEADLOCK FALSE
SPECIFICATION StatusSpec
INVARIANTS
    RuntimeTypeOK
    ThresholdsInOrder
    MostSpecificPolicy
    EstimateIsOwn
PROPERTY UsageIsOfLastRequest
