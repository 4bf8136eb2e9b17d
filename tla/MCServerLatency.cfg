CONSTANTS
    a = a
    b = b
    c = c
    ServerLists <- MCServerLists
    SERVER_LATENCY_MAX_PARALLEL = 2
    SERVER_LATENCY_MAX_RETRIES = 1
    SERVER_LATENCY_TIMEOUT = 2
    States = {"Off", "On"}
SPECIFICATION FairSpec
INVARIANTS
    TypeOK
    MeasuresOnlyOff
    RefreshNotLost
    SortedByTransmitTime
    SumOfLatencies
PROPERTIES
    MeasurementEnds
CHECK_DEADLOCK FALSE
