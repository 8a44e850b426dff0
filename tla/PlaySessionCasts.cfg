SPECIFICATION Spec
CONSTANTS
    a = a
    b = b
    Keys = {a, b}
    NoKey = NoKey
    Catchup = 1
    Advance = 0
    Threads = {t1, t2}
    None = None
    LibraryKeys = {a, b}
    Durations <- MCShort
    ViewOffset <- MCNoOffset
    NextItem <- MCNextItem
    PrevItem <- MCPrevItem
    AutoNext = TRUE
    RestartAfter = 1
    Offsets = {0}
    Commands = {"playMedia", "stop", "skipNext", "mirror"}
    Inputs = {"stop", "osd"}
    MaxCommands = 3
    MaxInputs = 1
INVARIANTS
    TypeOK
    HandoffOwnsNewest
    LayoutExclusive
    ReportedTitle
PROPERTIES
    StartsInOrder
SYMMETRY ThreadSymmetry
