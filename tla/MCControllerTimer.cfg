CONSTANTS
    s1 = s1
    s2 = s2
    Multi = Multi
    NoServer = NoServer
    Servers = {s1, s2}
    Locations = {Multi}
    ExitServers <- MCExitServers
    EntryServers <- MCEntryServers
    MultihopLocations = {Multi}
    MultihopSupported = TRUE
    CONNECTION_MAX_RETRY = 2
    MaxRequests = 1
    Worlds <- MCWorlds
SPECIFICATION Spec
INVARIANT
    TimerTimeoutAsserts
