SPECIFICATION Spec
CONSTANTS
    MaxRetained = 1
    OutboundCapacity = 2
    ChannelCapacity = 1
    QueueCapacity = 1
    MaxEvents = 2
    MaxRestarts = 0
INVARIANTS
    TypeOK
    OneTrace
    HandoffHasNoHole
    ReplayIsGapless
