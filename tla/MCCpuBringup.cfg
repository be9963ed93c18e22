SPECIFICATION FairSpec
CONSTANTS
    MaxCpus = 4
    Faults = {"gic", "idle", "cpu_on", "method", "mpidr"}
INVARIANTS
    TypeOK
    EarlyStackExclusive
    InterruptsNeedSetup
    HandoffReady
    NoLostCpu
PROPERTY
    BootDecides
CHECK_DEADLOCK FALSE
