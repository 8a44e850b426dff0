SPECIFICATION Spec
CONSTANTS
    a = a
    b = b
    Keys = {a, b}
    NoKey = NoKey
    Catchup = 1
    Advance = 0
    Threads = {t1, t2}
    None = None
    LibraryKeys = {a, b}
    Durations <- MCShort
    ViewOffset <- MCNoOffset
    NextItem <- MCNextItem
    PrevItem <- MCPrevItem
    AutoNext = FALSE
    RestartAfter = 1
    Offsets = {0}
    Commands = {"playMedia", "stop", "poll", "unsubscribe"}
    Inputs = {"stop", "pause"}
    MaxCommands = 4
    MaxInputs = 1
INVARIANTS
    StopSticks
    TimelineTitle
    NewestSettles
SYMMETRY ThreadSymmetry
