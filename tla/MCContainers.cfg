\* A container at its bound takes no more elements.
SPECIFICATION Spec
CHECK_DEADLOCK FALSE
CONSTANTS
  IntMax = 1
  FloatNum = {0}
  NaN = NaN
  Func = {}
  StructDef = {}
  HeapObj <- MCHeap
  NameId = {}
  MinCapacity = 1
  Uint32 = 16
  Key <- MCKey
  Val <- MCVal
  chars <- MCChars
  Capacity = {0, 2}
  MaxCount = 3
  s1 = s1
  s2 = s2
  s3 = s3
  o = o
  text1 = text1
  text2 = text2
INVARIANTS
  BlockOK
  KeysDistinct
PROPERTIES
  IsContainer
