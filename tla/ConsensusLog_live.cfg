SPECIFICATION FairSpec
CONSTANTS
    Peers = {p1, p2}
    NoPeer = NoPeer
    Cids = {c1}
    NoPin = NoPin
    Requests = {r1}
    Acts = {a1, a2, a3}
    NoAct = NoAct
    CommitRetries = 2
    MaxTerm = 1
    MaxRestarts = 1
    RpcFaults = TRUE
CHECK_DEADLOCK FALSE
PROPERTIES
    ImplementsSharedPins
    
