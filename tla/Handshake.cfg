SPECIFICATION FairSpec
CONSTANTS
    Main = Main
    T1 = T1
    T2 = T2
    Mutex = Mutex
    FromT1 = FromT1
    FromMain = FromMain
    NoThread = NoThread
INVARIANTS
    TypeOK
    UsedWhileAlive
    RendezvousOrder
    EverythingReclaimed
PROPERTIES
    Termination
