SPECIFICATION Spec
CONSTANTS
  IntMax = 1000
  FloatNum = {0}
  NaN = NaN
  Func = {}
  StructDef = {}
  HeapObj = {}
  NameId = {}
  Project <- MCProject
INVARIANTS
  Verdict
  ImportKeepsSignature
  EveryFunctionCompiled
  KitsWindows
PROPERTY RefusedLate
