SPECIFICATION MCFairSpec
CONSTANTS
    Configs <- MCConfigs
    Plan <- MCPlan
    Frames <- MCFrames
    FrameSize <- MCFrameSize
    EmptyFrame = "empty"
    MaxUdpPayload = 16
    Garbage = Garbage
    RunIds = {"r1", "r2", "r3"}
    Endpoint <- MCEndpoint
    Commands <- AllCommands
    MaxCommands = 3
    MaxDatagrams = 1
    MaxFaults = 1
CHECK_DEADLOCK FALSE
INVARIANTS
    PublishedTruthful
    DirectoriesTruthful
PROPERTIES
    CommandEnds
