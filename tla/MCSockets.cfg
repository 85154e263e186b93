SPECIFICATION MCSpec
CONSTANTS
    USER_LIMIT = 2
    Fds = {5, 6}
    MaxBacklog = 1
    Signals = {"HUP", "TERM"}
    Kids = {1, 2, 3}
INVARIANT TablesExact
INVARIANT EventsTrue
INVARIANT UrgentTaken
PROPERTY ConnectionsServed
PROPERTY SignalsHandled
CHECK_DEADLOCK FALSE
