\* Depth 3 and a stack of 8: recursion meets either limit first.  A trapped
\* process stops for good.
SPECIFICATION FairSpec
CHECK_DEADLOCK FALSE
CONSTANTS
  IntMax = 2
  FloatNum <- MCFloat
  NaN = NaN
  Func <- MCFunc
  StructDef <- MCStruct
  HeapObj <- MCHeap
  Module <- MCModule
  kInvalidModuleId = kInvalidModuleId
  NameId <- MCNameId
  Script <- MCScript
  Program <- MCProgram
  StackCapacity = 8
  MaxFrames = 4
  DefaultSlots = 8
  boot = boot
  main = main
  f = f
  s = s
  h = h
  m = m
  MaxBody = 3
INVARIANTS
  TypeOK
  WindowsInBounds
  CallChain
  DivModAgree
  TruthSitesAgree
  ComparisonsTotal
  GlobalReadsBack
  TrapOnlyAtMinByMinusOne
PROPERTIES
  KeepsContract
  LoopFreeRunsEnd
