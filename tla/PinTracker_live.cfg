SPECIFICATION FairSpec
CONSTANTS
    Cids = {c1}
    Peers = {self, other}
    Self = self
    Callers = {t1}
    PinWorker = pinWorker
    UnpinWorker = unpinWorker
    NoCid = NoCid
    PinQueueSize = 1
    Faults = TRUE
    DriftKinds = {"unpinned", "direct", "indirect"}
    Calls = {"Track", "Untrack", "Sync", "SyncAll", "Recover", "Shutdown"}
    Overlap = TRUE
INVARIANTS
    TypeOK
    PinningHasOwner
    UnpinningHasOwner
PROPERTIES
    
    PinningResolves
    UnpinningResolves
    WorkersExit
