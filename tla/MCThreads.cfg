SPECIFICATION MCSpec
CONSTANTS
    i1 = i1
    i2 = i2
    r1 = r1
    r2 = r2
    Inserters <- MCInserters
    Removers <- MCRemovers
    Programs <- MCPrograms
    Items = {a, b}
    MAX = 2
    NoItem = NoItem
    Calls = 3
    Rounds = 3
    Appends = 2
    m_max_requests = 2
    loops = 3
INVARIANT CallOrder
INVARIANT NoDanglingCond
INVARIANT NobodyStranded
INVARIANT NobodyAhead
INVARIANT CountsRight
PROPERTY ImplementsBoundedQueue
PROPERTY CVIsQueue
PROPERTY ThreadsReturn
CHECK_DEADLOCK FALSE
