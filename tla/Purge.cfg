SPECIFICATION Spec
CONSTANTS
    MsgId = {m1, m2, m3}
    ObjKey = {k1}
    NoMsg = NoMsg
    NoKey = NoKey
    Retention = 1
    GcsInit = {TRUE}
    MaxTime = 4
    EditWindow = 0
    RequestTimeout = 1
    ScheduleTimes = {}
    MaxRequests = 1
    LastArrival = 3
    BatchSize = 2
    MaxFaults = 1
VIEW RetentionView
SYMMETRY Interchangeable
INVARIANTS
    FlatThreads
    RepliesFindTheirRoot
    ObjectsLeaveAged
    OrphansWereReplies
PROPERTIES
    RowsLeaveAged
