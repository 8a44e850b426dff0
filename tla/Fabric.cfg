SPECIFICATION FabricSpec
CONSTANTS
    DaemonThreads = {d1}
    ToolThreads = {p1}
    Tasks = {m1, m2}
    Leader = m1
    BusTasks = {m2}
    DaemonOps = {"setStatus"}
    ToolOps = {"fileTx"}
    Attempts = 2
    MaxCalls = 1
    MaxDeaths = 1
    MaxLoad = 2
    Absent = Absent
    BellMod = 3
    CountMod = 2
    Policies = {"strict", "best", "ingest"}
    MaxWrites = 3
    RingCells = 4
    Lengths = {1, 2}
    Blank = Blank
    MaxRecords = 4
    MaxRestarts = 1
    Streams <- MCStreams
    Reads = {1, 2, 5}
    Cabac = 2
    MaxAcc = 9
    MaxToggles = 2
    Asks <- MCAsks
    Metas <- MCMetas
    Probes <- MCProbes
    Screens <- MCScreens
    Unreachable = {"bridge"}
    Bad = Bad
    TokenMod = 2
    MaxCasts = 2
    Keys = {"SkipBack", "Stop"}
    Bits = {5, 12, 14}
    Glasses = {"L4", "True480"}
    DurationMs = 2
    SkipForwardMs = 1
    SkipBackMs = 2
    WordMod = 4
    CmdMod = 2
    MaxPresses = 2
    MaxMenuTurns = 1
    MaxResets = 1
CHECK_DEADLOCK FALSE
INVARIANTS
    FabricTypeOK
    BusHandedBack
    WordsDelivered
    StrandedIsSeen
    NoTear
    LockoutRecoverable
    RingAgreed
    StreamIntact
    CastSound
    ControlsFollowed
PROPERTIES
    ImplementsFifo
