CONSTANTS
    Modes = {"async"}
    Paths = {1, 2}
    Stem <- MCStem
    Absent = Absent
    Recurs = FALSE
    Tainted = {1}
    MaxFiles = 2
    MaxVersion = 2
    MaxEvents = 1
SPECIFICATION FairSpec
PROPERTIES
    OneFileOnly
