SPECIFICATION FairSpec
CONSTANTS
    P1 = P1
    Joiners = {P2, P3}
    SEM_INITIAL_VALUE = 2
    CNT_JOINERS_EXPECTED = 2
    Sems = {s1, s2}
    Dones = {d1, d2}
    None = None
    Mortal = {P1, P2, P3}
    MaxFaults = 1
INVARIANTS
    UnlinksLast
    LeavesNothing
    PermitsConserved
PROPERTIES
    Termination
CHECK_DEADLOCK FALSE
