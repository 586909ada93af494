SPECIFICATION Spec
CONSTANTS
    User = {u1, u2}
    Conv = {c1, c2}
    MsgId = {m1}
    Call = {r1, r2}
    MaxTime = 2
CHECK_DEADLOCK FALSE
SYMMETRY Interchangeable
INVARIANTS
    TypeOK
    AnswersAreDirect
PROPERTIES
    SoleRequestFinds
    UnreadUntilRead
