CONSTANTS
    Keys = {k1, k2, k3, k4}
    NoKey = NoKey
    Others = {d1, d2}
    MaxDevices = 2
    StartAtBoot = FALSE
    CustomDns = TRUE
    MaxCommands = 2
    MaxFailures = 1
SPECIFICATION FairSpec
INVARIANTS
    TypeOK
    QueueAlwaysServed
    RemovalsTracked
PROPERTIES
    MainIsReady
    SignedOutStays
    DeactivationRuns
CHECK_DEADLOCK FALSE
