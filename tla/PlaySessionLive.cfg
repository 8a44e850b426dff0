SPECIFICATION FairSpec
CONSTANTS
    a = a
    b = b
    Keys = {a, b}
    NoKey = NoKey
    Catchup = 1
    Advance = 0
    Threads = {t1, t2}
    None = None
    LibraryKeys = {a, b}
    Durations <- MCShort
    ViewOffset <- MCNoOffset
    NextItem <- MCNextItem
    PrevItem <- MCPrevItem
    AutoNext = TRUE
    RestartAfter = 1
    Offsets = {0}
    Commands = {"playMedia", "stop", "seek", "skipNext"}
    Inputs = {"seek"}
    MaxCommands = 2
    MaxInputs = 1
PROPERTIES
    RequestsAnswered
    ThreadsReturn
