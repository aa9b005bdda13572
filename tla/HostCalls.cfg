CONSTANTS
    t1 = t1
    t2 = t2
    hostA = hostA
    hostB = hostB
    stream = stream
    record = record
    encode = encode
    Thread = {t1, t2}
    Host = {hostA, hostB}
    Channel = {stream, record, encode}
    binding <- AllBindings
    MaxGeneration = 2
    MaxCandidates = 2
    MaxCodecCalls = 2
SPECIFICATION ScopedSpec
SYMMETRY Interchangeable
INVARIANTS
    RecordViewsHonest
    FaultedChannelSilent
    ResultTruthful
    LeaseExclusive
    BorrowedWhileInCallback
PROPERTIES
    BusyMeansContention
