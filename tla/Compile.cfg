SPECIFICATION FamilySpec
CONSTANTS
  ByteBits = 2
  MaxWidth = 4
  LimbBits = 4
  LimbCount = 8
  MaxPlaces = 2
  AuthorLimit = 8
  MaxSync = 2
  Printable = {1, 2}
  Controls = {0, 10, 13}
  Limits <- MCLimits
  PlanLimit = 400
  SlotBytes = 2
  Documents <- MCDocuments
  Entries = {"PLAN", "METADATA"}
  DescriptionLimit = 25
  StringLimit = 100
  MaxFaults = 1
INVARIANTS VerdictStable MatchersSound PlanWorks QueriesTruthful
CHECK_DEADLOCK FALSE
