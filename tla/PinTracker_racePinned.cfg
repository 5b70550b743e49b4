SPECIFICATION Spec
CONSTANTS
    Cids = {c1}
    Peers = {self, other}
    Self = self
    Callers = {t1}
    PinWorker = pinWorker
    UnpinWorker = unpinWorker
    NoCid = NoCid
    PinQueueSize = 2
    Faults = FALSE
    DriftKinds = {}
    Calls = {"Track", "Untrack"}
    Overlap = TRUE
INVARIANT
    PinnedMeansPinned
