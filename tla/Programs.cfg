SPECIFICATION FairSpec
CONSTANTS
    Parent = Parent
    C1 = C1
    C2 = C2
    Children = {C1, C2}
    MaxFaults = 3
    InputSizes = {0, 9, 10, 24, 30, 31, 41}
    SIZE_BUF_READ = 4
    MaxLetters = 5
INVARIANTS
    TypeOK
    ToldOfEveryChild
    DataArrives
PROPERTIES
    SignalsHeard
    Termination
CHECK_DEADLOCK FALSE
