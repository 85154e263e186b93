SPECIFICATION MCSpec
CONSTANTS
    m_process_number = 2
    Worlds <- MCWorlds
    TIMESLOT = 1
    TimedFds = {5, 6}
    USER_LIMIT = 2
    ChatFds = {5, 6}
    MaxBacklog = 1
INVARIANT DeathNoticed
INVARIANT PoolExact
INVARIANT TablesTrue
PROPERTY PoolStops
PROPERTY AllServed
PROPERTY UsersServed
CHECK_DEADLOCK FALSE
