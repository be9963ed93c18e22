SPECIFICATION Spec
CONSTANTS
    BootCalls <- MCBootCalls
    InitRegions = 3
    RegionsPerPage = 6
    PageSize = 4
    CacheBytes = 2
    Header = 1
    Requests = {1, 4}
    AddrMax = 63
INVARIANT
    KmallocReportsFailure
CHECK_DEADLOCK FALSE
