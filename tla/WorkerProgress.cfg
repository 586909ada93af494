SPECIFICATION FairSpec
CONSTANTS
    MsgId = {m1, m2}
    ObjKey = {k1}
    NoMsg = NoMsg
    NoKey = NoKey
    Retention = 1
    GcsInit = {TRUE, FALSE}
    MaxTime = 3
    EditWindow = 0
    RequestTimeout = 1
    ScheduleTimes = {2}
    MaxRequests = 1
    LastArrival = 1
    BatchSize = 3
    MaxFaults = 1
VIEW RetentionView
PROPERTIES
    DueIsSent
    WorkerReturns
    AgedIsPurgedOrBare
    ObjectLeavesFirst
