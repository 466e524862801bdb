CONSTANTS
    Modes = {"direct", "async"}
    Paths = {1, 2}
    Stem <- MCStem
    Absent = Absent
    Recurs = FALSE
    Tainted = {}
    MaxFiles = 2
    MaxVersion = 2
    MaxEvents = 3
SPECIFICATION FairSpec
INVARIANTS
    TypeOK
PROPERTIES
    NeverBackward
    EventuallyAgrees
