CONSTANTS
    Keys = {k1}
    CONNECTION_RETRY_INITIAL_MSEC = 500
    CONNECTION_RETRY_MAXIMUM_MSEC = 16000
SPECIFICATION FairSpec
INVARIANTS
    TypeOK
    BackoffBounded
    SocketAsserts
    NeverStranded
PROPERTIES
    Reconnects
