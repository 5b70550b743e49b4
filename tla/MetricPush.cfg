SPECIFICATION PushSpec
CONSTANTS
    Names = {n1}
    MetricName = n1
    Peers = {p1}
    Metrics <- MCMetrics
    windowCap = 3
    MetricTTL = 4
    Res = 2
    Lat = 1
INVARIANT
    TypeOK
    
    
PROPERTY
    RemembersRecent
    Recovers
