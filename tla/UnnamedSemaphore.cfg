SPECIFICATION UnnamedFairSpec
CONSTANTS
    CNT_THREADS = 4
    LOOP_COUNT = 3
    SVAL_INITIAL = 2
    None = None
    Writers = {w1, w2}
    Readers = {r1, r2}
    NoObject = NoObject
    MaxFaults = 2
INVARIANTS
    NoLostUpdate
    DestroyedUnused
    ExclusiveName
    ReadsWritten
    OneTaker
    Acknowledged
    LeavesNothing
PROPERTIES
    ThreadsTermination
    HandshakeCompletes
CHECK_DEADLOCK FALSE
