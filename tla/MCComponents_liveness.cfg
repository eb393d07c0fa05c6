CONSTANTS
    None = None
    MaxRequests = 2
    Names = {a}
    Checkouts = {c}
    ItemNames = {x}
    MaxHostRestarts = 1
    MaxReauthCalls = 3
    MaxReauthRestarts = 0
    MaxPushes = 1
    MaxDeliveries = 2
    Overlapping = FALSE
    MaxCrashes = 1
    MaxRestartFailures = 0
    Partial = Partial
    MaxTunnels = 2
    MaxFrames = 1
    MaxChunks = 0
    OutputCapacity = 1
    Editors = {p}
    FileChunks = {1}
    MaxEdits = 2
    MaxWrites = 2
    AgentRaces = FALSE
    TornReads = TRUE
    MaxStarts = 2
    MaxAttempts = 2
    MaxEmits = 0
    EventCapacity = 1
    MaxUserEdits = 0
    Tools = {}
    MaxSshChannels = 1
    MaxSshChunks = 0
    SshCapacity = 1
    MaxLaptopChunks = 0
    MaxSyncs = 0
    MaxOwnLines = 0
    Hosts = {1}
    Tidy = TRUE
    MaxJjCalls = 0
    MaxJjEdits = 0
    MaxJjCommands = 0
    FileValues = {"absent", "dashes", "binary"}
    Base = 4
    HeaderBytes = 2
    FrameBytes = 2
    FramesPerFeed = 2
    MaxSentFrames = 0
    MaxAccessCalls = 0
    EnrollTokens = {t}
    MaxRelayRestarts = 0
    DevMode = TRUE
    MaxPhoneCalls = 0
    MaxConnections = 1
    MaxInbound = 3
    InboundCapacity = 1
    MaxGatewayConnections = 1
    Widths = {4}
    Heights = {4, 5, 6}
    CellSize = 2
    Counts = {1, 2}
    MaxTerminalSteps = 0
    MaxSurfaces = 1
    Hasty = FALSE
SPECIFICATION FairSpec
CHECK_DEADLOCK FALSE
PROPERTIES
    StartingEnds
    AttemptEnds
    
    
    
    SaveEnds
    LinkReturns
    DetachIsReported
