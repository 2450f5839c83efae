CONSTANTS
  Vacant = Vacant
  NoBit = NoBit
  ByteBits = 2
  MaxSlots = 3
  MaxOut = 1
  Careful = TRUE
SPECIFICATION Spec
INVARIANTS
  TypeOK
  CountIsTasks
  EmptySetExact
  NothingForgotten
  BranchKnowsEmpty
PROPERTIES
  DrainEnds
