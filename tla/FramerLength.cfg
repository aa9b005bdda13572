CONSTANTS
    framing <- LengthFieldPlan
    Bytes = {0,1,5}
    MaxSubmitBytes = 3
    MaxFramesPerSubmit = 1
    MaxWorkUnits = 5
    MaxStreamBytes = 6
SPECIFICATION FairSpec
INVARIANTS
    ByteAccounting
    NoInternalError
    ReportsTruthful
PROPERTIES
    FramesTheStream
    EverythingDrains
