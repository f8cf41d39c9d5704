SPECIFICATION FairSpec
CONSTANTS
    Writers = {w1}
    Readers = {r1, r2}
    NoPipe = NoPipe
    HeaderSize = 2
    BUF_SIZE = 2
    Capacity = 3
    MaxLines = 2
    MaxFaults = 1
INVARIANTS
    TypeOK
    ArriveInOrder
    NothingUnread
PROPERTIES
    StopsOnSignal
CHECK_DEADLOCK FALSE
