SPECIFICATION Spec
CONSTANTS
    Member = {u1, u2}
    Emoji = {e}
    Req = {q1, q2}
    MaxFaults = 1
CHECK_DEADLOCK FALSE
INVARIANTS
    TypeOK
    AnswersShowTheChange
    EventsSuffice
PROPERTY AllAreTold
