SPECIFICATION Spec
CONSTANTS
    Msg = {1}
    Once = {1}
    Thread = {}
    Pager = {p}
    Opener = {}
    PageSize = 1
    MaxTime = 1
INVARIANT OneReveal
