SPECIFICATION Spec
CONSTANTS
  ByteBits = 2
  MaxWidth = 4
  LimbBits = 4
  LimbCount = 8
  MaxPlaces = 2
  c1 = c1
  c2 = c2
INVARIANTS CallsIndependent DeliveredDecodes ReceivedSound
CHECK_DEADLOCK FALSE
