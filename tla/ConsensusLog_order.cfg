SPECIFICATION Spec
CONSTANTS
    Peers = {p1, p2}
    NoPeer = NoPeer
    Cids = {c1}
    NoPin = NoPin
    Requests = {r1, r2}
    Acts = {a1, a2, a3}
    NoAct = NoAct
    CommitRetries = 2
    MaxTerm = 2
    MaxRestarts = 0
    RpcFaults = FALSE
CHECK_DEADLOCK FALSE
SYMMETRY Symmetry
INVARIANTS
    TypeOK
    StateIsLog
    AckedIsCommitted
    AckOrder
PROPERTY
    ImplementsSharedPins
