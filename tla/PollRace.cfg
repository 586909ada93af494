SPECIFICATION Spec
CONSTANTS
    User = {u1}
    Option = {a, b}
    Req = {r1, r2}
INVARIANT OneVotePerUser
