SPECIFICATION Spec
CONSTANTS
    Page = 2
    PmdSize = 8
    PudSize = 128
    PgdirSize = 256
    ImageVaddr = 256
    PageOffset = 0
    RamBase = 128
    RamSize = 128
    FixaddrTop = 736
    MaxFdtSize = 8
    NrFixBtmaps = 2
    BtmapSlots = 2
    MaxIoremaps = 3
    Boots <- MCBoots
    IoRequests <- MCIoRequests
INVARIANTS
    TypeOK
    KernelImageMapped
    IdmapMapped
    PoolsFit
    RemapNeedsNoTables
    NoallocNeedsNoTables
    FdtMapped
    WindowsHold
CHECK_DEADLOCK FALSE
