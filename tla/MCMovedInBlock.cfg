SPECIFICATION CompileSpec
CONSTANTS
  IntMax = 1000
  FloatNum = {0}
  NaN = NaN
  Func <- MCFunc
  StructDef = {}
  HeapObj = {o1, o2, literal}
  Module <- MCModule
  kInvalidModuleId = kInvalidModuleId
  NameId <- MCNameId
  Script <- MCScript
  Program = {}
  StackCapacity = 32
  MaxFrames = 8
  DefaultSlots = 8
  MinCapacity = 2
  Uint32 = 64
  Project <- MovedInBlock
  InitChunk = boot
  FuncSeq <- MCFuncSeq
  EntryName <- Nmain
  MaxTurns = 20
  boot = boot
  fnMain = fnMain
  literal = literal
INVARIANT NoMisuse
CHECK_DEADLOCK FALSE
