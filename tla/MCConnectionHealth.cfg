CONSTANTS
    PING_STATS_WINDOW = 3
    LossThreshold = 1
    PING_TIME_NOSIGNAL = 2
    States = {"Off", "Connecting", "On", "OnPartial"}
SPECIFICATION FairSpec
INVARIANTS
    TypeOK
    PingsNeedTunnel
    EvidenceFresh
PROPERTIES
    SignalLossReported
CHECK_DEADLOCK FALSE
