CONSTANTS
    None = None
    MaxRequests = 3
    Names = {a}
    Checkouts = {c}
    ItemNames = {x}
    MaxHostRestarts = 1
    MaxReauthCalls = 4
    MaxReauthRestarts = 1
    MaxPushes = 2
    MaxDeliveries = 2
    Overlapping = FALSE
    MaxCrashes = 1
    MaxRestartFailures = 1
    Partial = Partial
    MaxTunnels = 2
    MaxFrames = 1
    MaxChunks = 1
    OutputCapacity = 1
    Editors = {p, q}
    FileChunks = {1, 2}
    MaxEdits = 2
    MaxWrites = 2
    AgentRaces = FALSE
    TornReads = FALSE
    MaxStarts = 2
    MaxAttempts = 2
    MaxEmits = 1
    EventCapacity = 1
    MaxUserEdits = 1
    Tools = {jj}
    MaxSshChannels = 1
    MaxSshChunks = 1
    SshCapacity = 1
    MaxLaptopChunks = 1
    MaxSyncs = 2
    MaxOwnLines = 1
    Hosts = {1}
    Tidy = TRUE
    MaxJjCalls = 2
    MaxJjEdits = 2
    MaxJjCommands = 1
    FileValues = {"absent", "dashes", "binary"}
    Base = 4
    HeaderBytes = 2
    FrameBytes = 2
    FramesPerFeed = 2
    MaxSentFrames = 3
    MaxAccessCalls = 3
    EnrollTokens = {t}
    MaxRelayRestarts = 1
    DevMode = TRUE
    MaxPhoneCalls = 2
    MaxConnections = 1
    MaxInbound = 3
    InboundCapacity = 1
    MaxGatewayConnections = 1
    Widths = {4}
    Heights = {4, 5, 6}
    CellSize = 2
    Counts = {1, 2}
    MaxTerminalSteps = 5
    MaxSurfaces = 1
    Hasty = FALSE
SPECIFICATION Spec
CHECK_DEADLOCK FALSE
INVARIANTS
    ComponentsTypeOK
    OneCreatorPerName
    
    NoOrphanProcess
    
    
    CleanIsSaved
    
    
    FinishedCallsClose
    OneDevicePerToken
    
    
PROPERTIES
    StoppedStays
    CeremoniesKept
    
    ComponentStreamsKept
