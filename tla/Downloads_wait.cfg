SPECIFICATION DownloadsSpec
CONSTANTS
    Watchers = {}
    Waiters = {s1}
    Guids = {g1}
    NoGuid = NoGuid
    NoDir = NoDir
INVARIANTS
    WaitedDownloadSaved
