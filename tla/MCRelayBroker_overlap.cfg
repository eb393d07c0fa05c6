CONSTANTS
    Phones = {p}
    Devhosts = {h}
    Proxies = {}
    Conns = {c1, c2}
    TunnelIds = {}
    OutboundCapacity = 1
    MaxData = 0
    Revocable = {}
    None = None
SPECIFICATION Spec
CHECK_DEADLOCK FALSE
INVARIANT LiveIsRegistered
