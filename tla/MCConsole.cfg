SPECIFICATION Spec
CONSTANTS
    Cpus = {0, 1, 2}
    Boot = 0
    Text <- MCText
    Scripts <- MCScripts
    FifoDepth = 2
    LogBufLen = 4
INVARIANTS
    TypeOK
    LockExclusive
    OutputWhole
    IrqStateRestored
PROPERTY
    PrintsComplete
CHECK_DEADLOCK FALSE
