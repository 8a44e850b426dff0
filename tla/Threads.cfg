SPECIFICATION ThreadsSpec
CONSTANTS
    Modes = {"strict", "live"}
    MaxDropRun = 1
    MaxFrames = 2
    MaxPauses = 1
    Formats = {"packed", "i420"}
    Pictures = 2
    Toggles = 1
    Flashes = 1
    Chunk = 20
    Period = 40
    Target = 100
    DropMs = 80
    Lead = 0
    Slacks <- MCSlacks
    Depths = {"known", "unknown"}
    AvModes = {"strict", "live"}
    MaxPictures = 2
    Tails = {40}
    Reanchor = 100
    Callers = {c1, c2}
    Calls = {"cast", "shutdown", "pause", "castFail", "seek"}
    MaxCalled = 2
    Played <- MCPlayed
CHECK_DEADLOCK FALSE
INVARIANTS
    ThreadsTypeOK
    FramesKept
    ScreenOwned
    FrozenMeansPaused
    NoStrandedWait
    NothingLeft
    EveryWaitIsKnown
    SessionAccounted
