SPECIFICATION FairSpec
CONSTANTS
  Kind = "ASCII11"
  Pipelines <- StreamPipelines
  Values <- NoValues
  Records = {"r"}
  Sources = {"c1"}
  Tables <- FlowTable
  Chunks <- OneRecord
  MaxLoads = 2
  MaxApplies = 1
  MaxTaken = 1
CHECK_DEADLOCK FALSE
INVARIANTS BytesOnce PublishedForCurrentLoad
PROPERTIES RequestsSettle InputRespected
