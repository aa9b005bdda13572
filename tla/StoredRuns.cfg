SPECIFICATION MCSpec
CONSTANTS
    NumPipelines = 2
    Processes = {p1, p2}
    RunIds = {"r1", "r2"}
    Configs = {"broken", "v04", "v05", "v08"}
    Schema <- MCSchema
    Tools = {"t1", "t2"}
    ValuesTexts <- AllValues
    Messages = {"m"}
    ForeignMessage = "foreign"
    FieldKinds <- MCFieldKinds
    EnumEntries <- MCEnumEntries
    StructuralAnswers = {"OK", "UNKNOWN_MESSAGE", "AMBIGUOUS_MESSAGE", "INVALID_PLAN"}
    MainAnswers = {"OK", "VALUE_NOT_REPRESENTABLE", "INTERNAL_ERROR"}
    ReviewAnswers = {"OK", "INTEGRITY_FAILED"}
    Expectations = {"NULL", "OK", "VALUE_NOT_REPRESENTABLE"}
    MaxStarts = 2
    MaxReplays = 1
    MaxFaults = 2
    Garbage = Garbage
SYMMETRY Symmetry
INVARIANTS
    EvidenceTruthful
    AcceptedIsComplete
PROPERTIES
    PublishedImmutable
CHECK_DEADLOCK FALSE
