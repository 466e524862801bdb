CONSTANTS
    a = a
    b = b
    Calls <- MCCall
    MaxLocalRestarts = 1
    QueueLimit = 4
    MaxFaults = 2
SPECIFICATION FairSpec
PROPERTIES
    EveryRequestAnswered
CHECK_DEADLOCK FALSE
