SPECIFICATION QueueSpec
CONSTANTS
    i1 = i1
    i2 = i2
    r1 = r1
    r2 = r2
    Inserters <- MCInserters
    Removers <- MCRemovers
    Programs <- QuietPrograms
    Items = {a, b}
    MAX = 2
    NoItem = NoItem
    Calls = 3
    Rounds = 3
    Appends = 2
    m_max_requests = 2
    loops = 3
PROPERTY AllCallsReturn
CHECK_DEADLOCK FALSE
