CONSTANTS
    Phones = {p}
    Devhosts = {h}
    Proxies = {}
    Conns = {c1, c2}
    TunnelIds = {t1}
    OutboundCapacity = 1
    MaxData = 2
    Revocable = {}
    None = None
SPECIFICATION FairSpec
CHECK_DEADLOCK FALSE
PROPERTY SurvivorLearns
