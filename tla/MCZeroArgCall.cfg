SPECIFICATION KeepSpec
CONSTANTS
  IntMax = 1
  FloatNum = {0}
  NaN = NaN
  Func <- MCFunc
  StructDef = {}
  HeapObj = {}
  Module <- MCModule
  kInvalidModuleId = kInvalidModuleId
  NameId <- MCNameId
  Script <- MCScript
  Program <- MCProgram
  StackCapacity = 8
  MaxFrames = 3
  DefaultSlots = 4
  boot = boot
  main = main
  f = f
  m = m
INVARIANT
  CallerKeepsLocals
