CONSTANTS
    t1 = t1
    t2 = t2
    t3 = t3
    p1 = p1
    p2 = p2
    Free = Free
    MaxNesting = 3
    Threads <- MCThreads
    Processes <- MCProcesses
    ProcOf <- MCProcOf
SPECIFICATION FairSpec
INVARIANTS
    MutualExclusion
    NoLeakedLock
PROPERTIES
    BoundedWait
    ImplementsWriterLock
