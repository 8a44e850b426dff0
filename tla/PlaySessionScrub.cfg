SPECIFICATION Spec
CONSTANTS
    a = a
    b = b
    Keys = {a, b}
    NoKey = NoKey
    Catchup = 1
    Advance = 0
    Threads = {t1, t2}
    None = None
    LibraryKeys = {a, b}
    Durations <- MCDurations
    ViewOffset <- MCViewOffset
    NextItem <- MCNextItem
    PrevItem <- MCPrevItem
    AutoNext = FALSE
    RestartAfter = 1
    Offsets = {0, 2}
    Commands = {"playMedia", "seek", "step", "skipPrevious", "paused", "playing"}
    Inputs = {"seek"}
    MaxCommands = 3
    MaxInputs = 0
INVARIANTS
    PlantHonoured
SYMMETRY ThreadSymmetry
