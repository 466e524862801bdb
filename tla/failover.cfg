CONSTANTS
    a = a
    b = b
    Calls <- MCCalls
    MaxLocalRestarts = 1
    QueueLimit = 3
    MaxFaults = 2
SPECIFICATION Spec
SYMMETRY Interchangeable
INVARIANTS
    TypeOK
    OneFate
    HandshakeFirst
PROPERTIES
    SparesHealthy
CHECK_DEADLOCK FALSE
