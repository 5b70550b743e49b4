SPECIFICATION Spec
CONSTANTS
    Cids = {c1, c2}
    Peers = {self, other}
    Self = self
    Callers = {t1, t2}
    PinWorker = pinWorker
    UnpinWorker = unpinWorker
    NoCid = NoCid
    PinQueueSize = 1
    Faults = FALSE
    DriftKinds = {}
    Calls = {"Track", "Untrack", "Sync", "SyncAll", "Recover"}
    Overlap = FALSE
SYMMETRY Symmetry
INVARIANTS
    PinnedMeansPinned
    UnpinnedMeansNotPinned
