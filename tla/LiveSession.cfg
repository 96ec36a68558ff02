SPECIFICATION FairSpec
CONSTANTS
    P1 = P1
    P2 = P2
    Perfs = {P1, P2}
    NoPerf = NoPerf
    PipeCap = 1
    Dump = 2
    MaxFaults = 2
INVARIANTS
    TypeOK
    OneCollector
    EndedWorkerLeavesNoPerf
    LittleLateWork
    TtyRestored
PROPERTIES
    StopEndsProgram
    SignalledPerfEnds
    NoOrphanForEver
    KeepsPublishing
