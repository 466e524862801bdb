CONSTANTS
    t1 = t1
    t2 = t2
    d1 = d1
    d2 = d2
    d3 = d3
    e1 = e1
    e2 = e2
    Free = Free
    MaxGen = 3
    Threads <- MCThreads
    Objects <- MCObjects
    ThreadOf <- MCThreadOf
    Edits <- MCEdits
SPECIFICATION Spec
SYMMETRY Interchangeable
INVARIANTS
    IInv
    NoLostUpdate
    EveryEditAccounted
    FailedLeavesNoTrace
    NeverWedged
PROPERTIES
    ImplementsAtomicStore
