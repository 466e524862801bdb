CONSTANTS
    r1 = r1
    r2 = r2
    x = x
    y = y
    sync1 = sync1
    sync2 = sync2
    Absent = Absent
    Root = Root
    Flat = Absent
    Records <- MCRecords
    Texts <- MCTexts
    Syncs <- MCSyncs
    MaxGeneration = 3
    MaxCopies = 2
SPECIFICATION Spec
SYMMETRY Interchangeable
INVARIANTS
    TypeOK
    MirrorIsCanonical
    AnswersAsLabelled
PROPERTIES
    MirrorOnlyAdvances
