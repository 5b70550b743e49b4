SPECIFICATION LiveSpec
CONSTANTS
    Leaves = {TRUE, FALSE}
INVARIANT
    TypeOK
    NoPanic
    DoneMeansStopped
PROPERTY
    ReadyOrStopped
    ShutdownEnds
CHECK_DEADLOCK FALSE
