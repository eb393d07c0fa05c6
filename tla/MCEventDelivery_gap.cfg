SPECIFICATION Spec
CONSTANTS
    MaxRetained = 2
    OutboundCapacity = 2
    ChannelCapacity = 1
    QueueCapacity = 2
    MaxEvents = 3
    MaxRestarts = 0
INVARIANT NoSilentGap
