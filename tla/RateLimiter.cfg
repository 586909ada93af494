SPECIFICATION Spec
CONSTANTS
    User = {u1}
    Limiter = {l1, l2, l3}
    NoLimiter = NoLimiter
    Call = {c1, c2}
    Burst = 2
    Ttl = 3
    Pause = 1
    MaxTime = 12
CHECK_DEADLOCK FALSE
SYMMETRY Interchangeable
VIEW LimiterView
INVARIANTS
    TypeOK
    WindowBound
    IdleEntriesLeave
PROPERTY ImplementsTokenBuckets
