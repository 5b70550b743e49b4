SPECIFICATION Spec
CONSTANTS
    Peers = {p1, p2, p3}
    Cids = {h1}
    Users = {u1, u2}
    Values = {0, 1}
    None = None
    NaN = NaN
    Factors <- MCFactors
    Faults = TRUE
    PeerChange = TRUE
SYMMETRY Symmetry
INVARIANTS
    TypeOK
    PinnedSomewhere
PROPERTY
    FewestPinsFirst
