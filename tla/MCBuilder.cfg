SPECIFICATION BuildSpec
CONSTANTS
  IntMax = 7
  FloatNum = {0}
  NaN = NaN
  Func = {}
  StructDef = {}
  HeapObj = {text}
  text = text
  NameId <- MCNameId
  Tree <- MCTree
  Unit <- MCUnit
INVARIANTS
  BuildInv
  BuiltVerifies
  BuiltAsPromised
  SymbolsTell
