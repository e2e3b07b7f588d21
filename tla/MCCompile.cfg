\* Two statements: one changes what the other finds in registers and scopes.
SPECIFICATION CompileSpec
CONSTANTS
  IntMax = 1000
  FloatNum = {0}
  NaN = NaN
  Func <- MCFunc
  StructDef = {}
  HeapObj = {o1, o2, o3, o4, o5, o6, o7, o8, o9, o10, o11, o12}
  Module <- MCModule
  kInvalidModuleId = kInvalidModuleId
  NameId <- MCNameId
  Script <- MCScript
  Program = {}
  StackCapacity = 96
  MaxFrames = 8
  DefaultSlots = 8
  MinCapacity = 2
  Uint32 = 64
  Project <- MCProject
  InitChunk = boot
  FuncSeq <- MCFuncSeq
  EntryName <- Nmain
  MaxTurns = 20
  boot = boot
  fnMain = fnMain
  fnF = fnF
  fnG = fnG
  MaxBody = 2
INVARIANTS
  CompiledMeansSource
  NoMisuse
  NoLeak
  LoweredIsWellFormed
  NeverAstray
PROPERTY AcceptedIsBuilt
CHECK_DEADLOCK FALSE
