SPECIFICATION KillSpec
CONSTANTS
    BUF_SIZE = 2
    MaxBlocks = 1
    MaxKills = 1
    MayFail = FALSE
INVARIANT ReaderFinished
CHECK_DEADLOCK FALSE
