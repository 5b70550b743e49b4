SPECIFICATION Spec
CONSTANTS
    Peers = {p1, p2, p3}
    Self = p1
    Cids = {c1, c2}
    None = None
    Starts = {"Unpinned", "Pinned"}
    Moves = {"Unpinned", "Pinned", "PinError"}
    MaxChanges = 1
SYMMETRY Symmetry
CHECK_DEADLOCK FALSE
INVARIANT
    TypeOK
    Truthful
    NobodyMissing
    ReachedIsNotBlamed
