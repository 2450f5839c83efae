CONSTANTS
  Vacant = Vacant
  NoBit = NoBit
  ByteBits = 2
  MaxSlots = 2
  MaxOut = 1
  Careful = TRUE
SPECIFICATION Spec
INVARIANTS
  PoppedBeforeInput
