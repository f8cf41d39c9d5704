SPECIFICATION Spec
CONSTANTS
    Writers = {w1, w2}
    Readers = {r1}
    NoPipe = NoPipe
    HeaderSize = 2
    BUF_SIZE = 2
    Capacity = 4
    MaxLines = 1
    MaxFaults = 0
INVARIANTS
    FramesWhole
CHECK_DEADLOCK FALSE
