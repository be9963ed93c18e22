SPECIFICATION Spec
CONSTANTS
    Page = 2
    PmdSize = 4
    PudSize = 16
    PgdirSize = 64
    Images <- MCImages
    MaxImages = 4
    ProcessMax = 3
    Cpus = 2
    SlotMax = 2
    ImageStart = 8
    ImageEnd = 40
    StackTop = 60
    DefaultStack = 4
    MaxStack = 8
    ImageBase <- MCImageBase
    StackBase <- MCStackBase
    Null = {"process", "stack", "heap", "pgdir", "table", "kstack"}
    NullTables = {0, 1, 3}
INVARIANTS
    TypeOK
    TableSound
    FailedKeepsOnlyTables
    PidsOrdered
    AddressSpaceExact
    QueuesDealt
PROPERTY
    LoadCompletes
CHECK_DEADLOCK FALSE
