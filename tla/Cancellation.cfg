SPECIFICATION CancelFairSpec
CONSTANTS
    MAX_COUNT = 5
    COUNT_TO_STOP = 3
    Main = Main
    T1 = T1
    Mutex = Mutex
    FromT1 = FromT1
    FromMain = FromMain
    NoThread = NoThread
INVARIANTS
    NeverOrphaned
    StopsSoon
PROPERTIES
    Termination
