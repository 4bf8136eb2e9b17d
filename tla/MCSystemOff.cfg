CONSTANTS
    s1 = s1
    s2 = s2
    A = A
    B = B
    Multi = Multi
    NoServer = NoServer
    Internet = Internet
    Identity = Identity
    Servers = {s1, s2}
    Locations = {A}
    ExitServers <- MCExitServers
    EntryServers <- MCEntryServers
    MultihopLocations = {Multi}
    MultihopSupported = TRUE
    CONNECTION_MAX_RETRY = 2
    Worlds <- MCWorlds
    MaxRequests = 1
    CONNECTION_RETRY_INITIAL_MSEC = 500
    CONNECTION_RETRY_MAXIMUM_MSEC = 1000
    Faults = {}
    Requests = {"activate", "deactivate"}
    Askers = {"ClientUser"}
    MaxCommands = 2
    MaxMishaps = 1
    Restarts = FALSE
    MaxOrphans = 2
SPECIFICATION Spec
INVARIANTS
    OffHasNoTunnel
CHECK_DEADLOCK FALSE
