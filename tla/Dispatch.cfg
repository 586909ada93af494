SPECIFICATION Spec
CONSTANTS
    MsgId = {m1, m2}
    ObjKey = {k1}
    NoMsg = NoMsg
    NoKey = NoKey
    Retention = 1
    GcsInit = {TRUE}
    MaxTime = 3
    EditWindow = 1
    RequestTimeout = 1
    ScheduleTimes = {2}
    MaxRequests = 1
    LastArrival = 2
    BatchSize = 1
    MaxFaults = 1
SYMMETRY Interchangeable
INVARIANTS
    TypeOK
    AnnouncedAtMostOnce
    NeverEarly
PROPERTIES
    ImplementsLifecycle
    WithdrawnIsFinal
