CONSTANTS
    t1 = t1
    t2 = t2
    hostA = hostA
    hostB = hostB
    stream = stream
    record = record
    encode = encode
    Thread = {t1}
    Host = {hostA}
    Channel = {record}
    binding <- RecordOnly
    MaxGeneration = 2
    MaxCandidates = 1
    MaxCodecCalls = 2
SPECIFICATION ScopedSpec
PROPERTIES
    FaultReportedBeforeArguments
