SPECIFICATION MCSpec
CONSTANTS
    BUFFER_SIZE = 7
    MaxChunk = 3
    BOUND = 80
    Atoms = {"a"}
    READ_BUFFER_SIZE = 10
    Requests <- ConnRequests
    MaxPiece = 4
    MaxConnections = 2
    MaxBlocks = 2
    Streams <- ByteStreams
    maxlen = 3
    MAXLINE = 3
    Base = 4
    XOR <- XorOfBytes
    BigNumbers <- TooBigNumbers
    JsonTexts <- Texts
    ValueTexts <- FewTexts
    CodePoints <- Points
    FrameInputs <- Frames
    WebSocketInputs <- WebSocketFrames
INVARIANT ChunksDoNotMatter
INVARIANT ConnectionsAnswered
INVARIANT LinesTaken
INVARIANT ValuesRight
INVARIANT FramesReadBack
INVARIANT WrittenIsRead
