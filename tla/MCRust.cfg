SPECIFICATION MCSpec
CONSTANTS
    root = root
    world = world
    hello = hello
    Tasks <- MCTasks
    Root = root
    Program <- MCProgram
    MaxLate = 2
    Elements = {a, b, c, d}
    Garbage = Garbage
    Clients = {c1, c2}
    Questions <- DnsQuestions
    Endings <- DnsEndings
    Worlds <- DnsWorlds
    NoAddr = NoAddr
    MaxDepth = 4
    MaxLost = 1
    MaxCopies = 1
INVARIANT NoLostWakeup
INVARIANT PromptNeverPanics
INVARIANT AnswersRight
PROPERTY CallsEnd
PROPERTY ImplementsSequence
