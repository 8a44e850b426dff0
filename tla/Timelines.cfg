SPECIFICATION TimelinesSpec
CONSTANTS
    Callers = {c1, c2}
    Tokens = {t1, t2}
    NoRequest = NoRequest
    kMaxQueue = 2
    MaxSessions = 2
    MaxReports = 1
    Ids = {i1}
    NoId = NoId
    Hosts = {h1}
    kMaxSubscribers = 1
    kMaxControllers = 1
    MaxCommand = 2
    MaxRequests = 2
    MaxChanges = 2
    MaxEvents = 3
CHECK_DEADLOCK FALSE
INVARIANTS
    TimelinesTypeOK
    OneStop
    StopsDisplaceStops
    EndsClean
    DropEarned
PROPERTIES
    EndedIsSilent
    QueueDrains
    FlushReturns
    CommandForward
    LastVersionShown
