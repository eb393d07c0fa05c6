SPECIFICATION FairSpec
CONSTANTS
    MaxRetained = 1
    OutboundCapacity = 3
    ChannelCapacity = 1
    QueueCapacity = 1
    MaxEvents = 1
    MaxRestarts = 1
INVARIANT CursorWasRecorded
PROPERTY ResumeEnds
