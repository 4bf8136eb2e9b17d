CONSTANTS
    s1 = s1
    s2 = s2
    old = old
    new = new
    internet = internet
    Configs <- MCSwapped
    Faults = {}
SPECIFICATION OrderedSpec
INVARIANTS
    ConnectionsHavePeers
