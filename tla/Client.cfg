SPECIFICATION ClientSpec
CONSTANTS
    MaxConns = 3
    Pages = {p1}
    Popups = {p2}
    Workers = {w1, w2}
    MaxSize = 1
    LastDoc = 3
    PageRequests = {q1, q2}
    Watchers = {s1}
    Waiters = {s2}
    Guids = {g1}
    NoGuid = NoGuid
    NoDir = NoDir
    Strings <- MCStrings
    Globs <- MCGlobs
    MaxNodes = 3
    MaxChanges = 2
    NoNode = 0
INVARIANTS
    ContextPages
    NavigationSeen
    IdleNotMissed
    DownloadReported
    GlobFindsAll
    ElementActs
PROPERTIES
    IdleIsQuiet
    ConnectionsEnd
    PoolServes
