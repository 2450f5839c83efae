CONSTANTS
  v1 = v1
  v2 = v2
  None = None
  Value <- MCValue
  StackSize = 2
  MaxLen = 5
  Byte = {0, 1}
  Zero = 0
  MaxSize = 3
SPECIFICATION AllSpec
INVARIANTS
  TypeOK
  HeapOnlyBehindFullStack
  VecPartsInOrder
  RangeInBytes
PROPERTIES
  ImplementsFifo
  ImplementsVector
  ImplementsBytes
