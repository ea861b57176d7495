SPECIFICATION HostSpec
CONSTANTS
    Session <- MCSession
    Procs = {p1, p2}
    Rooms = {"r1", "r2"}
    Others = {"localhost"}
    IPs = {"ip1", "ip2"}
    Comment <- MCComment
    Files <- MCFiles
    MaxOps = 3
    MaxCalls = 4
    MaxUnder = 2
    VpnPids = {1, 2}
    NoPidFile = 0
INVARIANTS
    
    BrokenOnlyByWriting
    OthersKept
    EntryIsLatest
    GrowthBounded
    VpnFollows
PROPERTIES
    PromptEnds
