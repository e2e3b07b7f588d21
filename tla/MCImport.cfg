\* A project ends: its last state has no successor.
SPECIFICATION RunSpec
CHECK_DEADLOCK FALSE
CONSTANTS
  IntMax = 42
  FloatNum = {0}
  NaN = NaN
  Func <- MCFunc
  StructDef = {}
  HeapObj = {}
  Module <- MCModule
  kInvalidModuleId = kInvalidModuleId
  NameId <- MCNameId
  Script <- MCScript
  Program <- MCProgram
  StackCapacity = 4
  MaxFrames = 3
  DefaultSlots = 3
  EntryName = 0
  NoEntry = NoEntry
  initMain = initMain
  initMath = initMath
  main = main
  add = add
  mMain = mMain
  mMath = mMath
INVARIANT
  DefinedNamesResolve
