SPECIFICATION FairSpec
CONSTANTS
    User = {u1}
    Option = {a, b, c}
    Req = {r1, r2}
INVARIANTS
    TypeOK
    TallyCatchesUp
PROPERTIES
    SoleVoteCounts
    VotersStay
    RequestsEnd
