SPECIFICATION Spec
CONSTANTS
    Msg = {1, 2, 3}
    Once = {2}
    Thread = {2}
    Pager = {p}
    Opener = {o}
    PageSize = 1
    MaxTime = 3
VIEW HistoryView
INVARIANTS
    TypeOK
    ListedOnce
    PagesDoNotRepeat
    WalksAreComplete
