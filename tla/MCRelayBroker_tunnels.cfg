CONSTANTS
    Phones = {p}
    Devhosts = {h}
    Proxies = {}
    Conns = {c1, c2}
    TunnelIds = {t1}
    OutboundCapacity = 2
    MaxData = 3
    Revocable = {}
    None = None
SPECIFICATION Spec
CHECK_DEADLOCK FALSE
SYMMETRY ConnSymmetry
INVARIANTS
    TypeOK
    AnswerBeforeData
PROPERTIES
    ClosedStaysClosed
    GaplessDelivery
