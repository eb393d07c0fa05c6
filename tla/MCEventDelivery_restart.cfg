SPECIFICATION Spec
CONSTANTS
    MaxRetained = 2
    OutboundCapacity = 2
    ChannelCapacity = 1
    QueueCapacity = 1
    MaxEvents = 2
    MaxRestarts = 1
INVARIANT RestartIsAnnounced
