SPECIFICATION FairSpec
CONSTANTS
    MaxCpus = 2
    Processes <- MCProcesses
    Idle <- MCIdle
    NoTask = NoTask
    TickInBootWindow = FALSE
    StoresInOrder = FALSE
    p1 = p1
    p2 = p2
    p3 = p3
    p4 = p4
    idle0 = idle0
    idle1 = idle1
INVARIANT
    NeverWild
