SPECIFICATION Spec
CONSTANTS
    Senders = {s1}
    Receivers = {r1}
    NoQueue = NoQueue
    OPTION_MAXMSG = 1
    OtherMaxMsg = {2}
    MaxMsgs = 2
    MaxFaults = 0
INVARIANT KeptForReceiver
CHECK_DEADLOCK FALSE
