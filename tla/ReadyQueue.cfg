SPECIFICATION FairSpec
CONSTANTS
    N = 3
    Main = Main
    GSync = GSync
    NoThread = NoThread
INVARIANTS
    NothingLost
    NoLostWakeup
    SyncLifetime
    IInv
PROPERTIES
    ReleasesInOrder
    Termination
    ServedIndependently
