CONSTANTS
    Phones = {p}
    Devhosts = {h}
    Proxies = {}
    Conns = {c1, c2, c3}
    TunnelIds = {t1}
    OutboundCapacity = 1
    MaxData = 0
    Revocable = {h}
    None = None
SPECIFICATION Spec
CHECK_DEADLOCK FALSE
SYMMETRY ConnSymmetry
INVARIANTS
    AtMostOneLive
    LiveIsKillable
    NoGhostEntries
