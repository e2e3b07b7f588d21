\* A container holds three elements at most, and memory may run out; a use of an
\* object that is gone ends the run.
SPECIFICATION HeapSpec
CHECK_DEADLOCK FALSE
CONSTANTS
  IntMax = 1
  FloatNum = {0}
  NaN = NaN
  Func <- MCFunc
  StructDef = {}
  HeapObj <- MCHeapObj
  Module <- MCModule
  kInvalidModuleId = kInvalidModuleId
  NameId <- MCNameId
  Script <- MCScript
  Program <- MCProgram
  StackCapacity = 12
  MaxFrames = 3
  DefaultSlots = 8
  MinCapacity = 1
  Uint32 = 8
  boot = boot
  main = main
  f = f
  unit = unit
  text = text
  twin = twin
  a1 = a1
  a2 = a2
  a3 = a3
  MaxBody = 3
INVARIANTS
  ObjectsKept
PROPERTIES
  KeepsContract
