CONSTANTS
    s1 = s1
    s2 = s2
    old = old
    new = new
    internet = internet
    Configs <- MCConfigs
    Faults = {"addInterface", "configureInterface", "updatePeer", "updateResolvers", "updateRoute", "restoreResolvers", "deletePeer", "deleteInterface"}
SPECIFICATION Spec
INVARIANTS
    TypeOK
    TunnelHasSession
    NothingWithoutInterface
PROPERTIES
    PolledOrReported
