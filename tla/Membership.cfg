SPECIFICATION Spec
CONSTANTS
    Peers = {p1, p2, p3}
    Founders = {p1, p2}
    Contact = p1
    Operated = {p2}
    CommitRetries = 2
    MaxLag = 1
    MaxCalls = 1
    MaxFaults = 1
    MaxStarts = 1
    GoesOn = FALSE
INVARIANT
    TypeOK
    
    
PROPERTY
    RemovedForgets
CHECK_DEADLOCK FALSE
