SPECIFICATION MCSpec
CONSTANTS
    BUF_SIZE = 2
    MaxBlocks = 4
    MaxKills = 0
    MayFail = TRUE
    totThreads = 3
    ReadsInTime = TRUE
    Children = {c1, c2, c3, c4}
    Clients = {d1, d2, d3}
    Lengths = {0, 2}
    MaxKilledClients = 1
    Askers = {e1, e2}
    MaxFile = 2
    QueueSize = 1
    MaxGone = 1
INVARIANT SegmentExclusive
INVARIANT ReaderFinished
INVARIANT DeathsKnown
INVARIANT AnswersRight
PROPERTY ImplementsTransfer
PROPERTY ProgramsEnd
CHECK_DEADLOCK FALSE
