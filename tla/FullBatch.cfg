SPECIFICATION FairSpec
CONSTANTS
    MsgId = {m1}
    ObjKey = {k1}
    NoMsg = NoMsg
    NoKey = NoKey
    Retention = 1
    GcsInit = {TRUE}
    MaxTime = 3
    EditWindow = 0
    RequestTimeout = 1
    ScheduleTimes = {2}
    MaxRequests = 1
    LastArrival = 1
    BatchSize = 1
    MaxFaults = 1
PROPERTY WorkerReturns
