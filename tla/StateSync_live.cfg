SPECIFICATION PeerFairSpec
CONSTANTS
    Cids = {c1}
    Peers = {self, other}
    Self = self
    Callers = {t1, t2}
    PinWorker = pinWorker
    UnpinWorker = unpinWorker
    NoCid = NoCid
    PinQueueSize = 1
    Faults = FALSE
    DriftKinds = {}
    Calls = {"Track", "Untrack"}
    Overlap = TRUE
    Wheres = {"local"}
    MaxOps = 3
    MaxSpawned = 1
INVARIANT
    PeerTypeOK
PROPERTIES
    PinsSettle
    UnpinsSettle
