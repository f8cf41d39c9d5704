SPECIFICATION FairSpec
CONSTANTS
    Senders = {s1}
    Receivers = {r1, r2}
    NoQueue = NoQueue
    OPTION_MAXMSG = 1
    OtherMaxMsg = {2}
    MaxMsgs = 2
    MaxFaults = 2
INVARIANTS
    TypeOK
    NothingStale
PROPERTIES
    Delivered
CHECK_DEADLOCK FALSE
