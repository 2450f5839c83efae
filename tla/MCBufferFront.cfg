CONSTANTS
  v1 = v1
  v2 = v2
  None = None
  Value <- MCValue
  StackSize = 2
  MaxLen = 5
  Byte = {0, 1}
  Zero = 0
  MaxSize = 4
SPECIFICATION AllSpec
PROPERTIES
  FrontReserved
