\* A project ends: its last state has no successor.
SPECIFICATION RunSpec
CHECK_DEADLOCK FALSE
CONSTANTS
  IntMax = 2
  FloatNum = {0}
  NaN = NaN
  Func <- MCFunc
  StructDef = {}
  HeapObj = {}
  Module <- MCModule
  kInvalidModuleId = kInvalidModuleId
  NameId <- MCNameId
  Script <- MCScript
  Program <- MCProgram
  StackCapacity = 5
  MaxFrames = 3
  DefaultSlots = 3
  EntryName = 0
  NoEntry = NoEntry
  init1 = init1
  init2 = init2
  main1 = main1
  main2 = main2
  a1 = a1
  a2 = a2
  m1 = m1
  m2 = m2
INVARIANTS
  EntryAfterAllInits
  FramesOfOneModule
  GlobalsOwned
  LinkVerdict
  EntryFoundIfFunction
PROPERTIES
  RunEnds
