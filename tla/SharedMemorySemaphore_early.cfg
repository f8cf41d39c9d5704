SPECIFICATION Spec
CONSTANTS
    Writers = {w1}
    Readers = {r1}
    NoObject = NoObject
    MaxFaults = 0
INVARIANTS
    WaitsForData
CHECK_DEADLOCK FALSE
