CONSTANTS
    w1 = w1
    w2 = w2
    v1 = v1
    v2 = v2
    NoOne = NoOne
    Nobody = Nobody
    Operator = Operator
    Missing = Missing
    Nothing = Nothing
    MaxJobs = 2
    MaxAttempts = 2
    MaxFaults = 1
    MaxOps = 0
    Workers <- MCWorkers
    Revisions <- MCRevisions
    Backends <- MCBoth
SPECIFICATION FairSpec
PROPERTIES
    EveryJobSettles
